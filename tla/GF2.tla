-------------------------------- MODULE GF2 --------------------------------
(***************************************************************************)
(* Binary linear algebra on Pauli operators, as lightstim/utils/           *)
(* linear_algebra.py performs it.  A Pauli on NQ qubits is the set of the  *)
(* columns its symplectic row has a one in: column q is X on qubit q,      *)
(* column NQ + q is Z on qubit q.  Addition over GF(2) is the symmetric    *)
(* difference, so the same operators serve records and labels.             *)
(***************************************************************************)
EXTENDS Integers, FiniteSets, Sequences, SequencesExt, FiniteSetsExt

CONSTANT NQ                                   \* number of physical qubits

ASSUME NQAssumption == NQ \in Nat \ {0}

Columns == 0 .. 2 * NQ - 1

X(q) == {q}
Z(q) == {NQ + q}
ColumnsOf(Q) == UNION {X(q) \cup Z(q) : q \in Q}
QubitsOf(p) == {c % NQ : c \in p}

Xor(a, b) == SymDiff(a, b)

\* The sum over GF(2) of the sets vs[i], i in I.
Sum(vs, I) ==
  {e \in UNION {vs[i] : i \in I} : Cardinality({i \in I : e \in vs[i]}) % 2 = 1}

\* create_lambda_matrix, check_commutativity: the symplectic product.
Anticommute(p, q) == Cardinality({c \in p : (c + NQ) % (2 * NQ) \in q}) % 2 = 1

(***************************************************************************)
(* row_echelon, reduced: the vectors are taken from the left; each one     *)
(* independent of those before it becomes a row, whose pivot (its least    *)
(* element) no other row holds.  by names the vectors a row is the sum of, *)
(* all of them pivot vectors: the coefficients of a decomposition are over *)
(* these.                                                                  *)
(***************************************************************************)
SumOf(rows, Part(_)) == Sum([x \in rows |-> Part(x)], rows)

Hit(v, rows) == {x \in rows : Min(x.v) \in v}

Residue(v, rows) == Xor(v, SumOf(Hit(v, rows), LAMBDA x : x.v))

Echelon(vs) ==
  FoldLeftDomain(
    LAMBDA rows, i :
      LET rest == Residue(vs[i], rows)
          new  == [v |-> rest, by |-> Xor({i}, SumOf(Hit(vs[i], rows), LAMBDA x : x.by))]
      IN  IF rest = {} THEN rows
          ELSE {IF Min(rest) \in x.v
                THEN [v |-> Xor(x.v, rest), by |-> Xor(x.by, new.by)] ELSE x : x \in rows}
                 \cup {new},
    {}, vs)

Rank(vs) == Cardinality(Echelon(vs))
Pivots(vs) == UNION {x.by : x \in Echelon(vs)}
Independent(v, vs) == Residue(v, Echelon(vs)) # {}
Coefficients(v, vs) == SumOf(Hit(v, Echelon(vs)), LAMBDA x : x.by)
SameSpan(us, vs) == /\ Rank(us) = Rank(us \o vs)
                    /\ Rank(vs) = Rank(us \o vs)

\* _find_blocks: the classes of vectors connected by common columns.
Blocks(vs) ==
  FoldLeftDomain(
    LAMBDA B, i :
      LET touching == {b \in B : \E j \in b : vs[j] \cap vs[i] # {}}
      IN  (B \ touching) \cup {{i} \cup UNION touching},
    {}, vs)

(***************************************************************************)
(* new_basis_indices: the targets independent of the basis and of earlier  *)
(* targets, block by block, so not in the order of the targets.            *)
(***************************************************************************)
NewBasis(basis, targets) ==
  LET all    == basis \o targets
      nb     == Len(basis)
      blocks == Blocks(all)
      pivots == Pivots(all)
      Key(k) == LET b == CHOOSE b \in blocks : nb + k \in b
                IN  Min(b)
      new    == {k \in 1 .. Len(targets) : nb + k \in pivots}
      key    == [k \in new |-> Key(k)]
  IN  SetToSortSeq(new, LAMBDA j, k : \/ key[j] < key[k]
                                      \/ key[j] = key[k] /\ j < k)
=============================================================================
