---------------------------- MODULE MCCollection ----------------------------
(* Small workloads for Collection: what the client submits and creates.     *)
EXTENDS Collection

CONSTANTS i1, i2, f, g, h, v1, v2

MCIds == {i1, i2}
OneId == {i1}
OneName == {f}
TwoNames == {f, g}
WithVector == {f, g, h}
TwoVals == {v1, v2}
OneVal == {v1}

\* A document holding the given value under the given name and nothing else.
Only(n, v) == [m \in Names |-> IF m = n THEN v ELSE None]

Put(id, d) == [id |-> id, doc |-> d]

\* Singles that overwrite each other, a batch that repeats an ID, and one that
\* is refused half way.
DocumentBatches ==
    {<<Put(i1, Only(f, v1))>>, <<Put(i1, Only(f, v2))>>, <<Put(i2, Only(f, v1))>>,
     <<Put(i1, Only(f, v1)), Put(i2, Only(f, v2)), Put(i1, Only(f, v2))>>,
     <<Put(i2, Only(f, v2)), Put(BadId, Only(f, v1)), Put(i1, Only(f, v1))>>}

\* Two documents of which only one holds the column the schema begins with.
ColumnBatches == {<<Put(i2, Only(f, v1)), Put(i1, Only(g, v1))>>}

OneBatch == {<<Put(i1, Only(f, v1))>>}

\* A value, and a later version of the document without it.
WithAndWithout == {<<Put(i1, Only(f, v1))>>, <<Put(i1, Only(f, None))>>}

Declares(S) == [n \in Names |-> IF n \in S THEN 1 ELSE 0]
SchemaF == {Declares({f})}
SchemaNone == {Declares({})}
TwoSchemas == {Declares({}), Declares({f})}

=============================================================================
