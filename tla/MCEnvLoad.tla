------------------------------ MODULE MCEnvLoad ------------------------------
(* One page that extends base, imports lib and, in base's body, includes    *)
(* part and, if it is there, extra; the compiled unit was built without     *)
(* extra, from the first text of its members.                               *)
EXTENDS EnvLoad

CONSTANTS page, base, lib, part, extra, v1, v2, g1, g2

OneGoroutine == {g1}
TwoGoroutines == {g1, g2}
TwoTexts == {v1, v2}

PageLib == {page, lib}
AllNames == {page, base, lib, part, extra}

NoHead == [n \in Names |-> None]
\* The page also extends the template it imports its macros from.
ExtendsLib == [n \in Names |-> IF n = page THEN lib ELSE None]
ExtendsBase == [n \in Names |-> IF n = page THEN base ELSE None]
ImportsLib == [n \in Names |-> IF n = page THEN lib ELSE None]
IncludesPart == [n \in Names |-> IF n = base THEN part ELSE None]
WantsExtra == [n \in Names |-> IF n = base THEN extra ELSE None]

WithoutExtra == <<extra>>
NothingAbsent == <<>>
UnitOfPageLib == <<lib, page>>
UnitOfAll == <<base, lib, page, part>>
CompiledFromFirst == [n \in Names |-> v1]
=============================================================================
