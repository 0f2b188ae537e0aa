-------------------------- MODULE MC_PowerRename ---------------------------
\* Small instances of PowerRename for TLC: a folder, a file in it and a file
\* beside it; a term gives each name a variant of its own.
EXTENDS PowerRename

CONSTANTS empty, t1, t2, bad, time

DepthOf == <<0, 1, 0>>
Base    == {"folder", "inside", "beside"}
Variant == Base \X {empty, t1, t2, time, 1, 2, 3}
Start   == <<<<"folder", empty>>, <<"inside", empty>>, <<"beside", empty>>>>

\* t2 does not match the file beside the folder, and gives the folder its name
ReplaceIn(ts) ==
    [t \in ts |-> [n \in Variant |->
        IF t = empty \/ (t = t2 /\ n[1] = "beside") THEN None
        ELSE IF t = t2 /\ n[1] = "folder" THEN <<"beside", empty>>
        ELSE <<n[1], t>>]]

Flags   == {{}, {"ExcludeFolders"}, {"ExtensionOnly"}}
FewFlags == {{}, {"ExtensionOnly"}}

\* With ExtensionOnly nothing in a name matches
With(replace, ts, fs, ns) ==
    [t \in ts |-> [f \in fs |-> [i \in 1 .. ns |->
        IF "ExtensionOnly" \in f THEN [n \in Variant |-> None] ELSE replace[t]]]]

TwoTerms   == {empty, t1, t2}
AllTerms   == {empty, bad, time}
ReplaceTwo == With(ReplaceIn(TwoTerms), TwoTerms, Flags, 3)
ReplaceAll == With([t \in AllTerms |-> IF t = bad THEN [n \in Variant |-> None]
                                       ELSE ReplaceIn(AllTerms)[t]], AllTerms, FewFlags, 1)
Numbered   == [i \in 1 .. 3 |-> [n \in Variant |-> <<n[1], i>>]]
NumberedOne == [i \in 1 .. 1 |-> Numbered[i]]
RefusedOne == {<<"inside", t2>>}
OneDepth   == <<0>>
OneStart   == <<<<"beside", empty>>>>
=============================================================================
