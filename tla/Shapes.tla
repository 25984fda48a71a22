------------------------------- MODULE Shapes -------------------------------
(***************************************************************************)
(* Symbolic shapes: shape_symbol.{h,cpp} and broadcast.cpp.                *)
(*                                                                         *)
(* A dimension is the code's own encoding, one integer: n >= 0 is the      *)
(* static extent n, -1 is Unknown, and every m < -1 is a distinct symbol.  *)
(* A ranked shape is a sequence of dimensions.  Results that the code      *)
(* wraps in StatusOr are records with a Boolean field ok.                  *)
(***************************************************************************)
EXTENDS Integers, Sequences

Unknown == -1
IsStatic(d) == d >= 0
IsUnknown(d) == d = Unknown

(* Two Unknown dimensions are never known to be equal. *)
AreProvablyEqual(a, b) == ~IsUnknown(a) /\ ~IsUnknown(b) /\ a = b

(* UnifyShapeSymbol: the most specific dimension both can stand for.  Two  *)
(* distinct symbols degrade to Unknown instead of being recorded as equal. *)
UnifyShapeSymbol(a, b) ==
  [ok  |-> a = b \/ ~(IsStatic(a) /\ IsStatic(b)),
   dim |-> IF a = b \/ IsStatic(a) THEN a
           ELSE IF IsStatic(b) \/ IsUnknown(a) THEN b
           ELSE IF IsUnknown(b) THEN a
           ELSE Unknown]

Unifiable(s, t) ==
  /\ Len(s) = Len(t)
  /\ \A i \in 1..Len(s) : UnifyShapeSymbol(s[i], t[i]).ok

-----------------------------------------------------------------------------
(* Broadcasting aligns shapes on the right: axis i of the output is axis   *)
(* i - (rank - Len(s)) of s, and an axis s does not have stands for 1.     *)

OutputRank(s, t) == IF Len(s) >= Len(t) THEN Len(s) ELSE Len(t)
Axis(s, rank, i) == i - (rank - Len(s))
Implicit(s, rank, i) == Axis(s, rank, i) < 1

(* InferBroadcastShape, one explicit axis: the extent of the output, or    *)
(* the refusal of two different static extents neither of which is 1.      *)
InferAxis(a, b) ==
  [ok  |-> \/ AreProvablyEqual(a, b) \/ a = 1 \/ b = 1
           \/ ~(IsStatic(a) /\ IsStatic(b)),
   dim |-> IF AreProvablyEqual(a, b) THEN a
           ELSE IF a = 1 THEN b
           ELSE IF b = 1 \/ IsStatic(a) THEN a
           ELSE IF IsStatic(b) THEN b
           ELSE Unknown,
   deferred |-> ~AreProvablyEqual(a, b) /\ a # 1 /\ b # 1]

(* The symbolic tier: the output shape, and the pairs of axes whose        *)
(* compatibility only the run time can establish.                          *)
InferBroadcastShape(s, t) ==
  LET rank == OutputRank(s, t)
      Both(i) == ~Implicit(s, rank, i) /\ ~Implicit(t, rank, i)
      At(i) == InferAxis(s[Axis(s, rank, i)], t[Axis(t, rank, i)])
  IN  [ok    |-> \A i \in 1..rank : Both(i) => At(i).ok,
       shape |-> [i \in 1..rank |->
                    IF Implicit(s, rank, i) THEN t[Axis(t, rank, i)]
                    ELSE IF Implicit(t, rank, i) THEN s[Axis(s, rank, i)]
                    ELSE At(i).dim],
       deferred_axes |-> {<<Axis(s, rank, i), Axis(t, rank, i)>> :
                            i \in {j \in 1..rank : Both(j) /\ At(j).deferred}}]

=============================================================================
