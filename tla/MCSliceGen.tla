------------------------------ MODULE MCSliceGen ------------------------------
EXTENDS SliceGen, TLC

\* Three definitions, A declared first.
MCNames == <<"A", "B", "C">>

\* The base lists the definition at position p may have: distinct names
\* declared before it.
BaseLists(p) ==
    {bs \in UNION {[1..k -> {MCNames[j] : j \in 1..(p - 1)}] : k \in 0..2} :
        IsInjective(bs)}

\* Every well-formed unit over the three names, all local or all not.
MCSchemas ==
    {d \in {[n \in ToSet(MCNames) |-> r[n]] :
              r \in [ToSet(MCNames) ->
                       [intf : BOOLEAN, local : BOOLEAN, hasOp : BOOLEAN,
                        bases : BaseLists(3)]]} :
       /\ \A p \in 1..3 : d[MCNames[p]].bases \in BaseLists(p)
       /\ \A m, n \in ToSet(MCNames) : d[m].local = d[n].local
       /\ WellFormed(d)}

=============================================================================
