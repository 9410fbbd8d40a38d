----------------------------- MODULE MCStartup -----------------------------
(* A small instance of Startup: files of at most two users. *)
EXTENDS Startup

CONSTANTS Alice, Bob, AliceB, Colon, s1, s2

TheNames == {Alice, Bob, AliceB, Blank, Colon}

\* AliceB is cut to Alice, and Colon begins with one.  What follows the colon
\* may make the other's password.
TheBefore ==
    [n \in TheNames |-> [name |-> IF n = AliceB THEN Alice ELSE IF n = Colon THEN Blank ELSE n,
                         padded |-> FALSE]]
TheRest == [n \in TheNames |-> [s \in {s1, s2} |-> IF s = s1 THEN s2 ELSE s1]]

AUser(name, padded, form, secret, readonly) ==
    [username |-> [name |-> name, padded |-> padded],
     password |-> [form |-> form, secret |-> secret], readonly |-> readonly]

\* One user, spelled in two ways with two passwords, another who only reads,
\* and those that are refused or cannot log in.
Users ==
    {AUser(Alice, FALSE, "plain", s1, FALSE), AUser(Alice, TRUE, "sha256", s2, FALSE),
     AUser(Alice, FALSE, "sha256", s2, TRUE), AUser(Bob, TRUE, "plain", s1, TRUE),
     AUser(Bob, FALSE, "malformed", s2, FALSE), AUser(Blank, TRUE, "plain", s1, FALSE),
     AUser(Colon, FALSE, "plain", s1, FALSE), AUser(AliceB, FALSE, "plain", s1, FALSE)}

AFile(parses, tail, timeout, enabled, users) ==
    [parses |-> parses, tail |-> tail, timeout |-> timeout, enabled |-> enabled, users |-> users]

\* Every list of users, and every way to be refused, or not, before they matter.
TheFiles ==
    {AFile(TRUE, "none", 5, TRUE, us) : us \in {<<>>} \union Users \X Users \union {<<u>> : u \in Users}}
    \union {AFile(parses, tail, timeout, FALSE, <<>>) :
              parses \in BOOLEAN, tail \in {"none", "closers", "more"}, timeout \in {-1, 0, 5, 20}}

=============================================================================
