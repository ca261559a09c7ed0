---------------------------- MODULE LeastNumber ----------------------------
(***************************************************************************)
(* Every set of naturals has a least member. A claim about every step of a *)
(* loop is proved from it by looking at the first step where it fails.     *)
(***************************************************************************)
EXTENDS NaturalsInduction, WellFoundedInduction, TLAPS

\* From the well-foundedness of < that the library proves.
LEMMA Least == \A T \in SUBSET Nat : T # {} => \E n \in T : \A m \in T : n <= m
<1> SUFFICES ASSUME NEW T \in SUBSET Nat, T # {}
             PROVE  \E n \in T : \A m \in T : n <= m
    OBVIOUS
<1>1. \A x, y \in Nat : <<y, x>> \in OpToRel(<, Nat) <=> y < x
    BY DEF OpToRel
<1>2. PICK R : IsWellFoundedOn(R, Nat) /\ \A x, y \in Nat : <<y, x>> \in R <=> y < x
    BY <1>1, NatLessThanWellFounded
<1>3. PICK x \in T : \A y \in T : ~(<<y, x>> \in R)
    BY <1>2, WFMin
<1>4. \A y \in T : ~(y < x)
    BY <1>2, <1>3
<1> QED  BY <1>4

\* If something fails among 0 .. n but not at 0, there is a first step that
\* makes it fail.
LEMMA FirstFailure ==
    ASSUME NEW n \in Nat, NEW T \in SUBSET (0 .. n), T # {}, 0 \notin T
    PROVE  \E i \in T : i \in 1 .. n /\ i - 1 \in 0 .. n /\ i - 1 \notin T
<1>1. PICK i \in T : \A m \in T : i <= m
    BY Least
<1>2. i \in 1 .. n /\ i - 1 \in 0 .. n /\ ~(i <= i - 1)
    BY <1>1
<1> QED  BY <1>1, <1>2
=============================================================================
