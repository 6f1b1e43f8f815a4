--------------------------- MODULE MCPauliCompile ---------------------------
(* Small Clifford programs in Pauli form: a frame of commuting measurements  *)
(* and, for the proxy of T gates, rotations in front of it.                  *)
EXTENDS PauliCompile

\* A product is written as its letters in the order of the qubits.
Word(letters) ==
  [q \in {i \in 0 .. Len(letters) - 1 : letters[i + 1] # "I"} |-> letters[q + 1]]

M(sign, letters) == Op("m", Word(letters), sign)
S(sign, letters) == Op("s", Word(letters), sign)

Program(n, heads, ms, options) ==
  [n |-> n, heads |-> heads, ms |-> ms, reduce |-> options[1],
   schedule |-> options[2], parallel |-> options[3]]

OneHead(axes, signs) == {<<S(s, a)>> : a \in axes, s \in signs}
Heads(axes, signs) ==
  {<<>>} \cup OneHead(axes, signs) \cup {h \o k : h, k \in OneHead(axes, signs)}

\* reduce, schedule, parallel.
Options ==
  {<<TRUE, TRUE, TRUE>>, <<FALSE, TRUE, FALSE>>, <<TRUE, FALSE, FALSE>>}

Frames2 ==
  {<<M(1, <<"Y", "I">>), M(-1, <<"I", "X">>)>>,
   <<M(1, <<"X", "Y">>), M(-1, <<"Y", "X">>)>>,
   <<M(-1, <<"Y", "Y">>), M(1, <<"X", "Z">>)>>,
   <<M(-1, <<"X", "I">>), M(-1, <<"I", "Y">>)>>}

Axes2 == {<<"X", "I">>, <<"I", "X">>, <<"Z", "Y">>, <<"Y", "Y">>, <<"X", "Z">>}

Programs2 ==
  {Program(2, h, f, o) : h \in Heads(Axes2, {1, -1}), f \in Frames2, o \in Options}

Frames3 ==
  {<<M(1, <<"Z", "I", "I">>), M(1, <<"Z", "I", "Z">>), M(1, <<"I", "Y", "Z">>)>>,
   <<M(1, <<"I", "Z", "Y">>), M(1, <<"Z", "I", "I">>), M(-1, <<"I", "I", "Y">>)>>,
   <<M(-1, <<"X", "I", "X">>), M(-1, <<"X", "I", "I">>), M(1, <<"I", "Y", "I">>)>>,
   <<M(-1, <<"I", "I", "Z">>), M(1, <<"X", "I", "I">>), M(1, <<"I", "Y", "I">>)>>}

Axes3 == {<<"Y", "Y", "Y">>, <<"Z", "X", "I">>, <<"I", "X", "I">>, <<"Z", "I", "Y">>}

Programs3 ==
  {Program(3, h, f, o) : h \in Heads(Axes3, {1, -1}), f \in Frames3, o \in Options}

MCSources == Programs2 \cup Programs3

\* Four commuting measurements: after the sweep the second acts on one qubit
\* only, and the schedule moves a joint measurement of that qubit behind it.
UnguardedSources ==
  {Program(4, <<>>,
     <<M(-1, <<"Y", "Y", "I", "Y">>), M(-1, <<"X", "I", "I", "X">>),
       M(1, <<"Y", "Z", "I", "Z">>), M(1, <<"I", "X", "Y", "X">>)>>,
     <<FALSE, TRUE, p>>) : p \in BOOLEAN}
=============================================================================
