------------------------------- MODULE TupleSets -------------------------------
(* The set of filters that OpenRTI keeps for one interaction class                 *)
(* (VariableLengthDataTupleSet): a list of rows, one for each filter, with an index *)
(* from values to rows for each parameter.  A row is a tuple, a function of the     *)
(* parameters that were known when it was made or last resized; the code keeps the  *)
(* parameters in the order in which they came, so that the size of a tuple tells    *)
(* which ones it has.                                                               *)
EXTENDS Naturals, Sequences, SequencesExt

CONSTANTS Values, NoValue  \* of parameters; NoValue is the empty value, a wildcard

EmptySet == [columns |-> {}, rows |-> <<>>, index |-> <<>>, wild |-> <<>>]

\* SetTupleSize: existing rows match anything in new columns.  index has an entry for
\* every value, empty where mIndexSets has none.
SetTupleSize(T, columns) ==
  [columns |-> columns,
   rows  |-> [r \in DOMAIN T.rows |->
                [p \in columns |-> IF p \in T.columns THEN T.rows[r][p] ELSE NoValue]],
   index |-> [p \in columns |-> IF p \in T.columns THEN T.index[p] ELSE [v \in Values |-> {}]],
   wild  |-> [p \in columns |-> IF p \in T.columns THEN T.wild[p] ELSE DOMAIN T.rows]]

HasTuple(T, tuple) == \E r \in DOMAIN T.rows : T.rows[r] = tuple

\* AddColumnValueToIndexSets: a wildcard goes to the sets of all values there are.
AddToIndex(index, wild, value, row) ==
  [v \in Values |->
    IF v = value \/ (value = NoValue /\ index[v] # {}) THEN index[v] \cup wild \cup {row} ELSE index[v]]

Insert(T, tuple) ==
  LET R == SetTupleSize(T, DOMAIN tuple)
      row == Len(T.rows) + 1
  IN [columns |-> R.columns,
      rows  |-> Append(R.rows, tuple),
      index |-> [p \in R.columns |-> AddToIndex(R.index[p], R.wild[p], tuple[p], row)],
      wild  |-> [p \in R.columns |-> IF tuple[p] = NoValue THEN R.wild[p] \cup {row} ELSE R.wild[p]]]

\* Variant: the rows behind the erased one keep their numbers.
Keep(rows, row) == rows \ {row}

\* The rows of an index set after one row has been erased.
Shift(rows, row) == {r \in rows : r < row} \cup {r - 1 : r \in {s \in rows : s > row}}

\* The first row with this tuple.
FirstRow(T, tuple) ==
  CHOOSE r \in DOMAIN T.rows : T.rows[r] = tuple /\ \A q \in 1..(r - 1) : T.rows[q] # tuple

\* Erase and RemoveRowFromIndexSets.  The rows with a wildcard are not shifted.
Erase(T, tuple) ==
  LET row == FirstRow(T, tuple)
  IN [columns |-> T.columns,
      rows  |-> RemoveAt(T.rows, row),
      index |-> [p \in T.columns |-> [v \in Values |-> Shift(T.index[p][v], row)]],
      wild  |-> [p \in T.columns |-> T.wild[p] \ {row}]]

\* FindNormalized: some row is in the sets of all values that are no wildcards.
FindNormalized(T, tuple) ==
  LET asked == {p \in DOMAIN tuple : tuple[p] # NoValue}
      found(p) == IF T.index[p][tuple[p]] # {} THEN T.index[p][tuple[p]] ELSE T.wild[p]
  IN /\ DOMAIN tuple = T.columns
     /\ asked = {} \/ \E r \in UNION {found(p) : p \in asked} : \A p \in asked : r \in found(p)

\* NormalizeFilterValues: wildcards for the parameters that have no value.
Normalize(columns, values) ==
  [p \in columns |-> IF p \in DOMAIN values THEN values[p] ELSE NoValue]

\* AddParameterFilterValues and RemoveParameterFilterValues, once the prototype knows
\* the parameters.
AddFilter(T, tuple) == IF HasTuple(T, tuple) THEN T ELSE Insert(T, tuple)
RemoveFilter(T, tuple) == IF HasTuple(T, tuple) THEN Erase(T, tuple) ELSE T

\* What is in a set: rows with a value or none for each parameter, numbers of rows in the
\* index.
IsTupleSet(T) ==
  /\ T.rows \in Seq([T.columns -> Values \cup {NoValue}])
  /\ T.index \in [T.columns -> [Values -> SUBSET Nat]]
  /\ T.wild \in [T.columns -> SUBSET Nat]
=============================================================================
