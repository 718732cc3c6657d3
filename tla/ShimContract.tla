---------------------------- MODULE ShimContract ----------------------------
(***************************************************************************)
(* What one generation run promises the collaborator that consumes its    *)
(* text (spec 4.6, 6, 7, 8), with the generator's internals hidden: there  *)
(* is no output until, in one step, a complete header appears, and it is   *)
(* never changed afterwards.  A complete header                            *)
(*   - declares every symbol of the model exactly once, under its type     *)
(*     name and with the representation of its kind (spec 4.3), and        *)
(*     declares nothing else;                                              *)
(*   - gives every property exactly one getter and at most one setter and  *)
(*     every method exactly one thunk taking self and one argument per     *)
(*     parameter (spec 4.4, Totality in 8), and nothing else.              *)
(* The order of the declarations is not part of this contract.             *)
(*                                                                         *)
(* A header is a record [types, funcs]: types a sequence of records with   *)
(* fields sym, name and shape, funcs a sequence of records with fields     *)
(* member, role and arity.                                                 *)
(***************************************************************************)
EXTENDS Naturals, Sequences, FiniteSets, ShimNames

CONSTANTS Symbols, Members, Sym, Mem

VARIABLE out   \* <<>> until the run hands over its header, then <<header>>

(* Spec 4.3: protocols and reference types are opaque pointers, value      *)
(* types opaque boxes, enumerations C enums.                               *)
Representation(kind) ==
  CASE kind \in {"class", "protocol"} -> "pointer"
    [] kind = "struct"                -> "box"
    [] kind = "enum"                  -> "enum"

(* The positions of a sequence whose element satisfies P.                 *)
Where(seq, P(_)) == {i \in DOMAIN seq : P(seq[i])}

TypesComplete(types) ==
  /\ \A i \in DOMAIN types :
       /\ types[i].sym \in Symbols
       /\ types[i].name = TypeName(Sym[types[i].sym].qname)
       /\ types[i].shape = Representation(Sym[types[i].sym].kind)
  /\ \A s \in Symbols : Cardinality(Where(types, LAMBDA d : d.sym = s)) = 1

FuncsComplete(funcs) ==
  /\ \A i \in DOMAIN funcs : funcs[i].member \in Members
  /\ \A m \in Members :
       LET Count(r) == Cardinality(Where(funcs,
                         LAMBDA d : d.member = m /\ d.role = r))
           Arities  == {funcs[i].arity :
                          i \in Where(funcs, LAMBDA d : d.member = m)}
       IN  IF Mem[m].kind = "property"
             THEN /\ Count("get") = 1 /\ Count("set") <= 1
                  /\ Count("thunk") = 0
                  /\ \A i \in Where(funcs, LAMBDA d : d.member = m) :
                       funcs[i].arity = IF funcs[i].role = "get" THEN 1 ELSE 2
             ELSE /\ Count("thunk") = 1 /\ Count("get") + Count("set") = 0
                  /\ Arities = {1 + Len(Mem[m].params)}

Complete(h) == TypesComplete(h.types) /\ FuncsComplete(h.funcs)

Init == out = <<>>

(* The run hands over a complete header.                                   *)
Deliver ==
  /\ out = <<>>
  /\ Len(out') = 1
  /\ Complete(out'[1])

(* A run on a model it accepts eventually delivers (spec 5: generation     *)
(* never blocks).                                                          *)
Spec == Init /\ [][Deliver]_out /\ <>(out # <<>>)

=============================================================================
