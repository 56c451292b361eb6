\* Two writers of one metric ask for the same new field name with different
\* types: the double check under ms.mux returns the first one's field to the
\* second without a type check.
CONSTANTS
    Names = {f1}
    Types = {"sum", "max"}
    Callers = {c1, c2}
    MaxCalls = 2
SPECIFICATION Spec
INVARIANT FieldTypeRespected
\* The callers end idle once the bounded calls are spent.
CHECK_DEADLOCK FALSE
