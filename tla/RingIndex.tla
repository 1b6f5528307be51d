----------------------------- MODULE RingIndex -----------------------------
(***************************************************************************)
(* The index arithmetic of lib/lwrb/lwrb.c: a ring of Size cells, a write  *)
(* index w and a read index r in 0..Size-1.  The ring is empty when w = r, *)
(* so at most Size - 1 cells are ever in use.                              *)
(***************************************************************************)
EXTENDS Integers

CONSTANT Size      \* lwrb_t.size, the length of the array given to lwrb_init

(* lwrb_init refuses a size of 0. *)
ASSUME SizeAssumption == Size \in Nat \ {0}

Index == 0 .. Size - 1

Capacity == Size - 1

Lesser(a, b) == IF a < b THEN a ELSE b                        \* BUF_MIN

(* Mutant: an index one past the array is not brought back. *)
WrapLate(i) == IF i > Size THEN i - Size ELSE i

(* An index just advanced by at most Size, brought back into the array. *)
Wrap(i) == IF i >= Size THEN i - Size ELSE i

----------------------------------------------------------------------------
(* Mutant: the cell that tells full from empty is handed out too. *)
GetFreeAll(w, r) == IF r > w THEN r - w ELSE Size - (w - r)

GetFree(w, r) == (IF r > w THEN r - w ELSE Size - (w - r)) - 1

(* Mutant: w behind r is taken for an empty ring. *)
GetFullNoWrap(w, r) == IF w >= r THEN w - r ELSE 0

GetFull(w, r) == IF w >= r THEN w - r ELSE Size - (r - w)

(* The readable cells before the end of the array. *)
LinearReadLength(w, r) == IF w >= r THEN w - r ELSE Size - r

(* Mutant: the cell kept free is handed out when r is not 0. *)
LinearWriteLengthOver(w, r) ==
  IF w < r THEN r - w
  ELSE Size - w - (IF r = 0 THEN 1 ELSE 0)

(* The writable cells before the end of the array; the last cell is kept   *)
(* when r = 0, as w would wrap onto r.                                     *)
LinearWriteLength(w, r) ==
  IF w < r THEN r - w - 1
  ELSE Size - w - (IF r = 0 THEN 1 ELSE 0)
=============================================================================
