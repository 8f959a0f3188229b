----------------------------- MODULE TextProofs -----------------------------
(***************************************************************************)
(* Proofs about what a node does with text: the fields of a form that come *)
(* in pieces (FormFields), the names of files (FileNames) and the token in *)
(* an answer (JsonText), for every size of the buffers, every length and   *)
(* every way to cut a value.                                               *)
(***************************************************************************)
EXTENDS MCReceive, NaturalsInduction, WellFoundedInduction, SequenceTheorems, TLAPS
-----------------------------------------------------------------------------
(* A form field.  The invariant says, in addition to the properties, that  *)
(* the last byte stays NUL: a piece behind a full buffer writes no end.    *)

\* The last byte of the buffer is never anything but the NUL of calloc.
LastIsNUL == dest[dest_size - 1] = NUL

IInv == C!TypeOK /\ C!InBounds /\ C!HoldsValue /\ LastIsNUL

LEMMA FieldSizes == dest_size \in Nat \ {0} /\ MaxLength \in Nat
    BY ParametersAssumption DEF C!ParametersOK

\* A piece is a sequence of bytes.
LEMMA PieceIsText == \A data \in C!Pieces : data \in Seq(Bytes)
<1> SUFFICES ASSUME NEW n \in 0 .. MaxLength, NEW data \in [1 .. n -> Bytes]
             PROVE  data \in Seq(Bytes)
    BY DEF C!Pieces
<1>1. n \in Nat
    BY FieldSizes
<1> QED BY <1>1

\* What copy_form_value copies at an offset inside the buffer fits behind it,
\* with room for the NUL.
LEMMA CopyFits ==
    ASSUME NEW off \in Nat, NEW size \in Nat, off < dest_size - 1
    PROVE  /\ C!copy_size(off, size) \in Nat
           /\ C!copy_size(off, size) <= size
           /\ off + C!copy_size(off, size) <= dest_size - 1
           /\ C!copy_size(off, size) < size => off + C!copy_size(off, size) = dest_size - 1
    BY FieldSizes DEF C!copy_size

LEMMA InitIInv == C!Init => IInv
<1> SUFFICES ASSUME C!Init PROVE IInv
    OBVIOUS
<1>1. C!TypeOK
    BY FieldSizes DEF C!Init, C!TypeOK, C!Indices
<1> QED BY <1>1, FieldSizes DEF C!Init, IInv, C!InBounds, C!HoldsValue, LastIsNUL, C!Indices

\* A piece that comes after the buffer is full changes nothing.
LEMMA LatePiece ==
    ASSUME IInv, NEW data \in C!Pieces, C!piece(data), Len(value) >= dest_size - 1
    PROVE  IInv'
<1> USE FieldSizes
<1>1. data \in Seq(Bytes) /\ value \in Seq(Bytes)
    BY PieceIsText DEF IInv, C!TypeOK
<1>2. dest' = dest /\ written' = {} /\ value' = value \o data /\ values' = values
    BY <1>1 DEF C!piece, C!copy_form_value
<1>3. C!TypeOK' /\ C!InBounds' /\ LastIsNUL'
    BY <1>1, <1>2 DEF IInv, C!TypeOK, C!InBounds, LastIsNUL
<1>4. C!Fits' = dest_size - 1
    BY <1>1, <1>2 DEF C!Fits
<1>5. ASSUME NEW i \in 0 .. dest_size - 2
      PROVE  dest[i] = value'[i + 1]
  <2>1. value # << >> /\ C!Fits = dest_size - 1
    BY <1>1 DEF C!Fits
  <2>2. dest[i] = value[i + 1]
    BY <2>1 DEF IInv, C!HoldsValue
  <2> QED BY <1>1, <1>2, <2>2
<1>6. C!HoldsValue'
    BY <1>2, <1>3, <1>4, <1>5 DEF C!HoldsValue, LastIsNUL
<1> QED BY <1>3, <1>6 DEF IInv

\* A piece that begins inside the buffer.
LEMMA EarlyPiece ==
    ASSUME IInv, NEW data \in C!Pieces, C!piece(data), Len(value) < dest_size - 1
    PROVE  IInv'
<1> USE FieldSizes
<1> DEFINE off == Len(value)
           end == off + C!copy_size(off, Len(data))
<1>1. data \in Seq(Bytes) /\ value \in Seq(Bytes)
    BY PieceIsText DEF IInv, C!TypeOK
<1>2. /\ dest' = C!Copied(off, data) /\ written' = off .. end
      /\ value' = value \o data /\ values' = values
    BY <1>1 DEF C!piece, C!copy_form_value
<1>3. /\ off \in Nat /\ end \in Nat /\ off <= end /\ end <= dest_size - 1
      /\ end <= off + Len(data)
      /\ end < off + Len(data) => end = dest_size - 1
  <2>1. off \in Nat /\ Len(data) \in Nat /\ off < dest_size - 1
    BY <1>1
  <2>2. /\ C!copy_size(off, Len(data)) \in Nat
        /\ C!copy_size(off, Len(data)) <= Len(data)
        /\ end <= dest_size - 1
        /\ C!copy_size(off, Len(data)) < Len(data) => end = dest_size - 1
    BY <2>1, CopyFits
  <2> QED BY <2>1, <2>2
<1>4. \A i \in C!Indices : dest'[i] = IF i \in off .. end - 1 THEN data[i - off + 1]
                                    ELSE IF i = end THEN NUL ELSE dest[i]
    BY <1>2 DEF C!Copied
<1> HIDE DEF end
<1>5. C!TypeOK'
  <2>1. ASSUME NEW i \in C!Indices
        PROVE  dest'[i] \in Bytes \cup {NUL}
    <3>1. i \in off .. end - 1 => data[i - off + 1] \in Bytes
        BY <1>1, <1>3
    <3>2. dest[i] \in Bytes \cup {NUL}
        BY DEF IInv, C!TypeOK
    <3> QED BY <1>4, <3>1, <3>2
  <2>2. dest' \in [C!Indices -> Bytes \cup {NUL}]
    <3>1. dest' = [i \in C!Indices |-> dest'[i]]
        BY <1>2 DEF C!Copied
    <3> QED BY <2>1, <3>1
  <2>3. value' \in Seq(Bytes) /\ values' \in Nat /\ written' \subseteq Int
    BY <1>1, <1>2, <1>3 DEF IInv, C!TypeOK
  <2> QED BY <2>2, <2>3 DEF C!TypeOK
<1>6. C!InBounds'
    BY <1>2, <1>3 DEF C!InBounds, C!Indices
<1>7. LastIsNUL'
  <2>1. dest'[dest_size - 1] = NUL
    BY <1>3, <1>4 DEF C!Indices, IInv, LastIsNUL
  <2> QED BY <2>1 DEF LastIsNUL
<1>8. C!HoldsValue'
  <2>1. C!Fits' = end
    <3>1. Len(value') = off + Len(data) /\ Len(data) \in Nat
        BY <1>1, <1>2
    <3>2. C!Fits' = IF Len(value') < dest_size - 1 THEN Len(value') ELSE dest_size - 1
        BY DEF C!Fits
    <3> HIDE DEF off
    <3> QED BY <1>3, <3>1, <3>2
  <2>2. dest'[end] = NUL
    BY <1>3, <1>4 DEF C!Indices
  <2>3. ASSUME NEW i \in 0 .. end - 1
        PROVE  dest'[i] = value'[i + 1]
    <3>1. CASE i >= off
        BY <1>1, <1>2, <1>3, <1>4, <3>1 DEF C!Indices
    <3>2. CASE i < off
      <4>1. value # << >> /\ C!Fits = off
        BY <1>1, <3>2 DEF C!Fits
      <4>2. dest[i] = value[i + 1]
        BY <3>2, <4>1 DEF IInv, C!HoldsValue
      <4>3. dest'[i] = dest[i]
        BY <1>3, <1>4, <3>2 DEF C!Indices
      <4> QED BY <1>1, <1>2, <3>2, <4>2, <4>3
    <3> QED BY <1>3, <3>1, <3>2
  <2> QED BY <2>1, <2>2, <2>3 DEF C!HoldsValue
<1> QED BY <1>5, <1>6, <1>7, <1>8 DEF IInv

LEMMA StepIInv == IInv /\ [C!Next]_(C!vars) => IInv'
<1> SUFFICES ASSUME IInv, [C!Next]_(C!vars) PROVE IInv'
    OBVIOUS
<1>1. CASE C!next_value
  <2>1. value' = << >> /\ written' = {} /\ dest' = dest /\ values' = values + 1
    BY <1>1 DEF C!next_value
  <2> QED BY <2>1 DEF IInv, C!TypeOK, C!InBounds, C!HoldsValue, LastIsNUL
<1>2. ASSUME NEW data \in C!Pieces, C!piece(data) PROVE IInv'
  <2>1. Len(value) \in Nat
    BY DEF IInv, C!TypeOK
  <2>2. CASE Len(value) >= dest_size - 1
    BY <1>2, <2>2, LatePiece
  <2>3. CASE Len(value) < dest_size - 1
    BY <1>2, <2>3, EarlyPiece
  <2> QED BY <2>1, <2>2, <2>3, FieldSizes
<1>3. CASE UNCHANGED C!vars
    BY <1>3 DEF C!vars, IInv, C!TypeOK, C!InBounds, C!HoldsValue, LastIsNUL, C!Fits
<1> QED BY <1>1, <1>2, <1>3 DEF C!Next

LEMMA AlwaysIInv == C!Spec => []IInv
    BY InitIInv, StepIInv, PTL DEF C!Spec

\* FieldIsCopied: for any size of the buffer and any pieces copy_form_value never
\* writes outside its buffer, and the field always holds, ended by a NUL, what fits
\* of the last value.
THEOREM FieldsAreCopied == C!Spec => []FieldIsCopied
<1>1. IInv => FieldIsCopied
    BY DEF IInv, FieldIsCopied, C!FieldIsCopied
<1> QED BY AlwaysIInv, <1>1, PTL
-----------------------------------------------------------------------------
(* The name of a file.                                                     *)

\* What a name consists of.
Text == F!Chars \cup F!Plain

\* A name that sanitize_filename made.
PlainText(given) == given \in Seq(F!Plain) /\ Len(given) > 0 /\ Len(given) < name_size

\* The inductive invariant of a name.
NamesInv ==
    /\ filename \in Seq(Text) /\ original_name \in Seq(F!Plain) /\ staged \in Seq(F!Plain)
    /\ node \in Nat /\ (node > 0 => PlainText(original_name))
    /\ step = "staged" => staged = F!StagedName(original_name) /\ Len(staged) <= NAME_MAX

\* A set of naturals has a least element.
LEMMA LeastOne ==
    ASSUME NEW A \in SUBSET Nat, A # {}
    PROVE  \E m \in A : \A k \in A : m <= k
<1> DEFINE R == {ss \in Nat \X Nat : ss[1] < ss[2]}
<1>1. IsWellFoundedOn(R, Nat)
  BY NatLessThanWellFounded, Zenon DEF OpToRel
<1> HIDE DEF R
<1>2. PICK m \in A : \A y \in A : ~(<<y, m>> \in R)
  BY <1>1, WFMin
<1>3. ASSUME NEW k \in A PROVE m <= k
  <2>1. k < m => <<k, m>> \in R
    BY SMT DEF R
  <2> QED
    BY <1>2, <2>1, SMT
<1> QED
  BY <1>3

\* A non-empty set of positions has a last one.
LEMMA LastOne ==
    ASSUME NEW n \in Nat, NEW S \in SUBSET (1 .. n), S # {}
    PROVE  \E i \in S : \A j \in S : j <= i
<1> DEFINE A == {k \in Nat : n - k \in S}
<1>1. \A i \in S : i \in Nat /\ n - i \in Nat /\ n - (n - i) = i
  OBVIOUS
<1>2. \A i \in S : n - i \in A
  BY <1>1
<1>3. A \in SUBSET Nat /\ A # {}
  BY <1>2
<1>4. \A k \in A : k \in Nat /\ n - k \in S
  OBVIOUS
<1> HIDE DEF A
<1>5. PICK m \in A : \A k \in A : m <= k
  BY <1>3, LeastOne
<1>6. n - m \in S /\ m \in Nat
  BY <1>4
<1>7. ASSUME NEW j \in S PROVE j <= n - m
  <2>1. m <= n - j
    BY <1>2, <1>5
  <2> QED
    BY <1>1, <1>6, <2>1
<1> QED
  BY <1>6, <1>7

\* A part of a sequence.
LEMMA PartIsSequence ==
    ASSUME NEW T, NEW f \in Seq(T), NEW i \in 1 .. Len(f)
    PROVE  SubSeq(f, i + 1, Len(f)) \in Seq(T)
  OBVIOUS

\* strrchr finds the last of the characters c.
LEMMA BehindIsText ==
    ASSUME NEW f \in Seq(Text), NEW c, F!Contains(f, c)
    PROVE  F!Behind(f, c) \in Seq(Text)
<1> DEFINE Last(i) == f[i] = c /\ \A j \in i + 1 .. Len(f) : f[j] # c
           S == {i \in 1 .. Len(f) : f[i] = c}
           last == CHOOSE i \in DOMAIN f : Last(i)
<1>1. Len(f) \in Nat /\ DOMAIN f = 1 .. Len(f)
  OBVIOUS
<1>2. S \in SUBSET (1 .. Len(f)) /\ S # {}
  BY DEF F!Contains
<1>3. \A i \in S : i \in 1 .. Len(f) /\ f[i] = c
  OBVIOUS
<1>4. \A j \in 1 .. Len(f) : f[j] = c => j \in S
  OBVIOUS
<1> HIDE DEF S
<1>5. PICK i \in S : \A j \in S : j <= i
  BY <1>1, <1>2, LastOne
<1>6. Last(i)
  <2>1. ASSUME NEW j \in i + 1 .. Len(f), f[j] = c PROVE FALSE
    <3>1. j \in 1 .. Len(f) /\ j > i
      BY <1>1, <1>3, <2>1
    <3>2. j \in S
      BY <1>4, <2>1, <3>1
    <3> QED
      BY <1>1, <1>3, <1>5, <3>1, <3>2
  <2> QED
    BY <1>3, <2>1
<1>7. last \in 1 .. Len(f)
  <2> HIDE DEF Last
  <2> QED
    BY <1>1, <1>3, <1>6
<1>8. F!Behind(f, c) = SubSeq(f, last + 1, Len(f))
  BY Zenon DEF F!Behind
<1> HIDE DEF last
<1> QED
  BY <1>7, <1>8, PartIsSequence

\* Short sequences.
LEMMA RepeatedIsSequence ==
    ASSUME NEW T, NEW x \in T, NEW n \in Nat
    PROVE  [i \in 1 .. n |-> x] \in Seq(T) /\ Len([i \in 1 .. n |-> x]) = n
  OBVIOUS

LEMMA ShortSequences ==
    ASSUME NEW T, NEW x \in T
    PROVE  /\ << >> \in Seq(T) /\ <<x>> \in Seq(T) /\ <<x, x, x>> \in Seq(T)
           /\ Len(<<x>>) = 1 /\ Len(<<x, x, x>>) = 3
  OBVIOUS

\* What sanitize_filename makes of any name.
LEMMA SanitizedIsPlain ==
    ASSUME F!ParametersOK, NEW f \in Seq(Text)
    PROVE  PlainText(F!Sanitized(f))
<1> DEFINE base == F!Base(f)
           length == IF Len(base) < name_size THEN Len(base) ELSE name_size - 1
<1>1. base \in Seq(Text)
  BY BehindIsText DEF F!Base
<1>2. length \in Nat /\ length < name_size /\ name_size \in Nat /\ name_size > 3
  BY <1>1 DEF F!ParametersOK
<1>3. F!Sanitized(f) =
        IF length = 0 THEN F!UploadBin ELSE [i \in 1 .. length |-> F!Replaced(base[i])]
  BY DEF F!Sanitized
<1>4. \A x : F!Replaced(x) \in F!Plain
  BY DEF F!Replaced, F!Plain
<1> HIDE DEF base, length
<1>5. CASE length = 0
  <2>1. "a" \in F!Plain
    BY DEF F!Plain
  <2>2. F!UploadBin \in Seq(F!Plain) /\ Len(F!UploadBin) = 3
    BY <2>1, ShortSequences DEF F!UploadBin
  <2>3. F!Sanitized(f) = F!UploadBin
    BY <1>3, <1>5
  <2>4. Len(F!Sanitized(f)) = 3
    BY <2>2, <2>3, Zenon
  <2> QED
    <3>1. 3 > 0 /\ 3 < name_size
      BY <1>2
    <3> QED
      BY <2>2, <2>3, <2>4, <3>1, Zenon DEF PlainText
<1>6. CASE length # 0
  <2>1. F!Sanitized(f) = [i \in 1 .. length |-> F!Replaced(base[i])]
    BY <1>3, <1>6
  <2>2. F!Sanitized(f) \in Seq(F!Plain) /\ Len(F!Sanitized(f)) = length
    BY <1>2, <1>4, <2>1
  <2> QED
    BY <1>2, <1>6, <2>2 DEF PlainText
<1> QED
  BY <1>5, <1>6

\* Joining two sequences.
LEMMA Joined ==
    ASSUME NEW T, NEW s \in Seq(T), NEW t \in Seq(T)
    PROVE  s \o t \in Seq(T) /\ Len(s \o t) = Len(s) + Len(t)
  OBVIOUS

\* The names in staging/ and downloads/.
LEMMA NamesAre ==
    ASSUME F!ParametersOK, NEW given \in Seq(F!Plain)
    PROVE  /\ F!StagedName(given) \in Seq(F!Plain)
           /\ Len(F!StagedName(given)) = TimeLength + 1 + RandomLength + 1 + Len(given)
           /\ Len(F!Digits(TimeLength) \o <<"_">> \o given) = TimeLength + 1 + Len(given)
<1> DEFINE time == F!Digits(TimeLength)
           random == F!Digits(RandomLength)
           bar == <<"_">>
           one == time \o bar
           two == one \o random
           three == two \o bar
<1>1. TimeLength \in Nat /\ RandomLength \in Nat
  BY DEF F!ParametersOK
<1>2. "a" \in F!Plain /\ "_" \in F!Plain
  BY DEF F!Plain
<1>3. ASSUME NEW n \in Nat PROVE F!Digits(n) \in Seq(F!Plain) /\ Len(F!Digits(n)) = n
  <2>1. F!Digits(n) = [i \in 1 .. n |-> "a"]
    BY DEF F!Digits
  <2> QED
    BY <1>2, <2>1, RepeatedIsSequence
<1>4. bar \in Seq(F!Plain) /\ Len(bar) = 1
  BY <1>2, ShortSequences
<1>5. F!StagedName(given) = three \o given
  BY Zenon DEF F!StagedName
<1>6. /\ time \in Seq(F!Plain) /\ random \in Seq(F!Plain)
      /\ Len(time) = TimeLength /\ Len(random) = RandomLength
  BY <1>1, <1>3
<1> HIDE DEF time, random, bar
<1>7. one \in Seq(F!Plain) /\ Len(one) = Len(time) + Len(bar)
  BY <1>4, <1>6, Joined
<1>8. Len(one \o given) = Len(one) + Len(given)
  BY <1>7, Joined
<1> HIDE DEF one
<1>9. two \in Seq(F!Plain) /\ Len(two) = Len(one) + Len(random)
  BY <1>6, <1>7, Joined
<1> HIDE DEF two
<1>10. three \in Seq(F!Plain) /\ Len(three) = Len(two) + Len(bar)
  BY <1>4, <1>9, Joined
<1> HIDE DEF three
<1>11. three \o given \in Seq(F!Plain) /\ Len(three \o given) = Len(three) + Len(given)
  BY <1>10, Joined
<1>12. Len(F!Digits(TimeLength) \o <<"_">> \o given) = Len(one \o given)
  BY DEF one, time, bar
<1>13. Len(given) \in Nat
  OBVIOUS
<1> HIDE DEF time, random, bar, one, two, three
<1> QED
  BY <1>1, <1>4, <1>5, <1>6, <1>7, <1>8, <1>9, <1>10, <1>11, <1>12, <1>13

LEMMA NamesAlways == ASSUME F!ParametersOK PROVE F!Spec => []NamesInv
<1>1. F!Init => NamesInv
  BY DEF F!Init, NamesInv
<1>2. ASSUME NamesInv, [F!Next]_(F!vars) PROVE NamesInv'
  <2>1. ASSUME NEW c \in F!Chars, F!named(c) PROVE NamesInv'
    <3>1. filename' \in Seq(Text)
      BY <1>2, <2>1 DEF F!named, NamesInv, Text
    <3> QED
      BY <1>2, <2>1, <3>1 DEF F!named, NamesInv
  <2>2. CASE F!upload_stage_open
    <3> DEFINE given == F!Sanitized(filename)
    <3>1. PlainText(given) /\ given \in Seq(F!Plain)
      BY <1>2, SanitizedIsPlain DEF NamesInv, PlainText
    <3>2. F!StagedName(given) \in Seq(F!Plain)
      BY <3>1, NamesAre
    <3>3. /\ node' = node + 1 /\ original_name' = given /\ filename' = filename
          /\ \/ Len(F!StagedName(given)) <= NAME_MAX /\ staged' = F!StagedName(given)
             \/ staged' = << >> /\ step' = "refused"
      BY <2>2 DEF F!upload_stage_open
    <3> HIDE DEF given
    <3>4. << >> \in Seq(F!Plain)
      BY ShortSequences DEF F!Plain
    <3>5. staged' \in Seq(F!Plain)
      BY <3>2, <3>3, <3>4
    <3>6. step' = "staged" => staged' = F!StagedName(original_name') /\ Len(staged') <= NAME_MAX
      BY <3>3
    <3>7. /\ filename' \in Seq(Text) /\ original_name' \in Seq(F!Plain)
          /\ node' \in Nat /\ PlainText(original_name')
      BY <1>2, <3>1, <3>3 DEF NamesInv
    <3> QED
      BY <3>5, <3>6, <3>7 DEF NamesInv, PlainText, F!StagedName, F!Digits
  <2>3. CASE F!upload_stage_commit
    BY <1>2, <2>3 DEF F!upload_stage_commit, NamesInv
  <2>4. CASE F!curl_mime_filedata
    <3>1. filename' \in Seq(Text)
      BY <1>2, <2>4 DEF F!curl_mime_filedata, NamesInv, Text
    <3> QED
      BY <1>2, <2>4, <3>1 DEF F!curl_mime_filedata, NamesInv
  <2>5. CASE UNCHANGED F!vars
    BY <1>2, <2>5 DEF F!vars, NamesInv, F!StagedName, F!Digits
  <2> QED
    BY <1>2, <2>1, <2>2, <2>3, <2>4, <2>5 DEF F!Next
<1> QED
  BY <1>1, <1>2, PTL DEF F!Spec

\* NameIsUsable: whatever name a browser or another node sends, and however long,
\* the file has a plain name, and can be committed if it could be staged.
THEOREM NamesAreUsable == F!Spec => []NameIsUsable
<1>1. ASSUME NamesInv PROVE F!NameIsUsable
  <2>1. F!PlainName
    BY <1>1 DEF NamesInv, PlainText, F!PlainName, F!Range
  <2>2. step = "staged" => Len(F!CommittedName) <= NAME_MAX
    BY <1>1, NamesAre, ParametersAssumption DEF NamesInv, F!CommittedName, F!ParametersOK
  <2> QED
    BY <2>1, <2>2 DEF F!NameIsUsable
<1> QED
  BY <1>1, NamesAlways, ParametersAssumption, PTL DEF NameIsUsable

-----------------------------------------------------------------------------
(* The token in an answer.                                                 *)

\* The first m bytes of b are the opening and an escaped message: no quote in it
\* is without its backslash.
Framed(b, m) ==
    /\ b \in Seq(J!Chars) /\ m \in Nat /\ m >= 6 /\ Len(b) >= m
    /\ b[1] = "brace" /\ b[2] = "quote" /\ b[3] = "x" /\ b[4] = "quote"
    /\ b[5] = "colon" /\ b[6] = "quote"
    /\ \A i \in 7 .. m : b[i] = "quote" => b[i - 1] = "backslash"

\* The end of the message and the key of the token follow, ...
Keyed(b, m) ==
    /\ Framed(b, m) /\ Len(b) >= m + 7
    /\ b[m + 1] = "quote" /\ b[m + 2] = "comma"
    /\ b[m + 3] = "quote" /\ b[m + 4] = "token" /\ b[m + 5] = "quote" /\ b[m + 6] = "colon"
    /\ b[m + 7] = "quote"

\* ... and the token and its end.
Closed(b, m) ==
    /\ Keyed(b, m) /\ Len(b) >= m + 8 + TokenLength
    /\ \A i \in m + 8 .. m + 7 + TokenLength : b[i] = "x"
    /\ b[m + 8 + TokenLength] = "quote"

\* The inductive invariant of an answer: how far it is put together.
AnswerInv ==
    /\ building = "empty" => buffer = << >>
    /\ building = "message" => Framed(buffer, Len(buffer))
    /\ building = "token" => \E m \in Nat : Keyed(buffer, m) /\ Len(buffer) = m + 7
    /\ building = "sent" => \E m \in Nat : Closed(buffer, m)

\* Where the bytes of two sequences are when they are joined.
LEMMA JoinedAt ==
    ASSUME NEW T, NEW s \in Seq(T), NEW t \in Seq(T)
    PROVE  /\ s \o t \in Seq(T) /\ Len(s \o t) = Len(s) + Len(t)
           /\ Len(s) \in Nat /\ Len(t) \in Nat
           /\ \A i \in 1 .. Len(s) : (s \o t)[i] = s[i]
           /\ \A i \in 1 .. Len(t) : (s \o t)[Len(s) + i] = t[i]
  OBVIOUS

\* The bytes of an answer.
LEMMA CharsHave ==
    /\ "brace" \in J!Chars /\ "quote" \in J!Chars /\ "x" \in J!Chars /\ "colon" \in J!Chars
    /\ "comma" \in J!Chars /\ "token" \in J!Chars /\ "backslash" \in J!Chars /\ "n" \in J!Chars
    /\ "u" \in J!Chars /\ "0" \in J!Chars
  BY DEF J!Chars

\* json_buffer_append_escaped writes a quote only behind a backslash.
LEMMA EscapedIs ==
    ASSUME NEW c \in J!Chars
    PROVE  /\ J!Escaped(c) \in Seq(J!Chars)
           /\ \A i \in 1 .. Len(J!Escaped(c)) :
                J!Escaped(c)[i] = "quote" => i = 2 /\ J!Escaped(c)[1] = "backslash"
<1>1. c \in J!Chars
  BY CharsHave
<1>2. CASE c \in {"quote", "backslash"}
  <2>1. J!Escaped(c) = <<"backslash", c>>
    BY <1>2, Zenon DEF J!Escaped
  <2> QED
    BY <1>1, <2>1, CharsHave
<1>3. CASE c = "newline"
  <2>1. J!Escaped(c) = <<"backslash", "n">>
    BY <1>3 DEF J!Escaped
  <2> QED
    BY <2>1, CharsHave
<1>4. CASE c = "control"
  <2>1. J!Escaped(c) = <<"backslash", "u", "0", "0", "0", "0">>
    BY <1>4 DEF J!Escaped
  <2> QED
    BY <2>1, CharsHave
<1>5. CASE c \notin {"quote", "backslash", "newline", "control"}
  <2>1. J!Escaped(c) = <<c>>
    BY <1>5 DEF J!Escaped
  <2> QED
    BY <1>1, <1>5, <2>1
<1> QED
  BY <1>2, <1>3, <1>4, <1>5

\* What is appended to a framed message is behind it.
LEMMA FrameStays ==
    ASSUME NEW b \in Seq(J!Chars), NEW e \in Seq(J!Chars), NEW m, Framed(b, m)
    PROVE  Framed(b \o e, m)
<1> DEFINE w == b \o e
<1>1. /\ w \in Seq(J!Chars) /\ Len(w) = Len(b) + Len(e) /\ Len(b) \in Nat /\ Len(e) \in Nat
      /\ \A i \in 1 .. Len(b) : w[i] = b[i]
  BY JoinedAt
<1> HIDE DEF w
<1>2. /\ w[1] = "brace" /\ w[2] = "quote" /\ w[3] = "x" /\ w[4] = "quote" /\ w[5] = "colon"
      /\ w[6] = "quote" /\ m \in Nat /\ m >= 6 /\ Len(w) >= m
  <2>1. /\ 1 \in 1 .. Len(b) /\ 2 \in 1 .. Len(b) /\ 3 \in 1 .. Len(b) /\ 4 \in 1 .. Len(b)
        /\ 5 \in 1 .. Len(b) /\ 6 \in 1 .. Len(b) /\ m \in Nat /\ m >= 6 /\ Len(w) >= m
    BY <1>1 DEF Framed
  <2>2. /\ w[1] = b[1] /\ w[2] = b[2] /\ w[3] = b[3] /\ w[4] = b[4] /\ w[5] = b[5] /\ w[6] = b[6]
    BY <1>1, <2>1
  <2> QED
    BY <2>1, <2>2 DEF Framed
<1>3. ASSUME NEW i \in 7 .. m, w[i] = "quote" PROVE w[i - 1] = "backslash"
  <2>1. i \in 1 .. Len(b) /\ i - 1 \in 1 .. Len(b)
    BY <1>1 DEF Framed
  <2>2. w[i] = b[i] /\ w[i - 1] = b[i - 1]
    BY <1>1, <2>1
  <2> QED
    BY <1>3, <2>2 DEF Framed
<1>4. Framed(w, m)
  BY <1>1, <1>2, <1>3 DEF Framed
<1> QED
  BY <1>4 DEF w

\* An escaped byte lengthens the message.
LEMMA FrameGrows ==
    ASSUME NEW b \in Seq(J!Chars), Framed(b, Len(b)), NEW c \in J!Chars
    PROVE  Framed(b \o J!Escaped(c), Len(b \o J!Escaped(c)))
<1> DEFINE e == J!Escaped(c)
           w == b \o e
<1>1. e \in Seq(J!Chars) /\ \A i \in 1 .. Len(e) : e[i] = "quote" => i = 2 /\ e[1] = "backslash"
  BY EscapedIs
<1> HIDE DEF e
<1>2. /\ w \in Seq(J!Chars) /\ Len(w) = Len(b) + Len(e) /\ Len(b) \in Nat /\ Len(e) \in Nat
      /\ \A i \in 1 .. Len(b) : w[i] = b[i]
      /\ \A i \in 1 .. Len(e) : w[Len(b) + i] = e[i]
  BY <1>1, JoinedAt
<1>3. Framed(w, Len(b))
  BY <1>1, FrameStays
<1> HIDE DEF w
<1>4. ASSUME NEW i \in 7 .. Len(w), w[i] = "quote" PROVE w[i - 1] = "backslash"
  <2>1. CASE i <= Len(b)
    BY <1>2, <1>3, <1>4, <2>1 DEF Framed
  <2>2. CASE i > Len(b)
    <3>1. i - Len(b) \in 1 .. Len(e) /\ Len(b) + (i - Len(b)) = i
      BY <1>2, <2>2
    <3>2. e[i - Len(b)] = "quote"
      BY <1>2, <1>4, <3>1
    <3>3. i - Len(b) = 2 /\ e[1] = "backslash"
      BY <1>1, <3>1, <3>2
    <3>4. 1 \in 1 .. Len(e) /\ Len(b) + 1 = i - 1
      BY <1>2, <3>1, <3>3
    <3> QED
      BY <1>2, <3>3, <3>4
  <2> QED
    BY <1>2, <2>1, <2>2
<1>5. Framed(w, Len(w))
  BY <1>2, <1>3, <1>4 DEF Framed
<1> QED
  BY <1>5 DEF w, e

\* The key of the token follows the message.
LEMMA KeyFollows ==
    ASSUME NEW b \in Seq(J!Chars), Framed(b, Len(b))
    PROVE  LET w == b \o (<<"quote", "comma">> \o J!TokenKey) IN
           Keyed(w, Len(b)) /\ Len(w) = Len(b) + 7
<1> DEFINE e == <<"quote", "comma">> \o J!TokenKey
           w == b \o e
<1>1. /\ e \in Seq(J!Chars) /\ Len(e) = 7
      /\ e[1] = "quote" /\ e[2] = "comma" /\ e[3] = "quote" /\ e[4] = "token" /\ e[5] = "quote"
      /\ e[6] = "colon" /\ e[7] = "quote"
  <2> DEFINE s == <<"quote", "comma">>
             t == J!TokenKey
  <2>1. s \in Seq(J!Chars) /\ Len(s) = 2 /\ s[1] = "quote" /\ s[2] = "comma"
    BY CharsHave
  <2>2. /\ t \in Seq(J!Chars) /\ Len(t) = 5
        /\ t[1] = "quote" /\ t[2] = "token" /\ t[3] = "quote" /\ t[4] = "colon" /\ t[5] = "quote"
    BY CharsHave DEF J!TokenKey
  <2> HIDE DEF s, t
  <2> DEFINE j == s \o t
  <2>3. /\ j \in Seq(J!Chars) /\ Len(j) = Len(s) + Len(t)
        /\ \A i \in 1 .. Len(s) : j[i] = s[i]
        /\ \A i \in 1 .. Len(t) : j[Len(s) + i] = t[i]
    <3>1. s \in Seq(J!Chars) /\ t \in Seq(J!Chars)
      BY <2>1, <2>2
    <3> QED
      BY <3>1, JoinedAt
  <2> HIDE DEF j
  <2>4. /\ Len(j) = 7 /\ \A i \in 1 .. 2 : j[i] = s[i]
        /\ \A i \in 1 .. 5 : j[2 + i] = t[i]
    BY <2>1, <2>2, <2>3
  <2>5. j[1] = s[1] /\ j[2] = s[2]
    BY <2>4
  <2>6. j[2 + 1] = t[1] /\ j[2 + 2] = t[2] /\ j[2 + 3] = t[3] /\ j[2 + 4] = t[4] /\ j[2 + 5] = t[5]
    BY <2>4
  <2>7. j[3] = t[1] /\ j[4] = t[2] /\ j[5] = t[3] /\ j[6] = t[4] /\ j[7] = t[5]
    BY <2>6
  <2>8. e = j
    BY DEF j, s, t
  <2> HIDE DEF e
  <2> QED
    BY <2>1, <2>2, <2>3, <2>4, <2>5, <2>7, <2>8
<1> HIDE DEF e
<1>2. /\ Len(w) = Len(b) + 7 /\ Len(b) \in Nat
      /\ \A i \in 1 .. 7 : w[Len(b) + i] = e[i]
  <2>1. /\ Len(w) = Len(b) + Len(e) /\ Len(b) \in Nat
        /\ \A i \in 1 .. Len(e) : w[Len(b) + i] = e[i]
    <3>1. e \in Seq(J!Chars)
      BY <1>1
    <3> QED
      BY <3>1, JoinedAt
  <2> HIDE DEF w
  <2> QED
    BY <1>1, <2>1
<1>3. Framed(w, Len(b))
  BY <1>1, FrameStays
<1> HIDE DEF w
<1>4. /\ w[Len(b) + 1] = "quote" /\ w[Len(b) + 2] = "comma" /\ w[Len(b) + 3] = "quote"
      /\ w[Len(b) + 4] = "token" /\ w[Len(b) + 5] = "quote" /\ w[Len(b) + 6] = "colon"
      /\ w[Len(b) + 7] = "quote"
  BY <1>1, <1>2
<1>5. Keyed(w, Len(b)) /\ Len(w) = Len(b) + 7
  BY <1>2, <1>3, <1>4 DEF Keyed
<1> QED
  BY <1>5 DEF w, e

\* The token and its end follow the key.
LEMMA TokenFollows ==
    ASSUME J!ParametersOK, NEW b \in Seq(J!Chars), NEW m \in Nat, Keyed(b, m), Len(b) = m + 7
    PROVE  Closed(b \o (J!Token \o J!Ending), m)
<1> DEFINE t == J!Token
           q == J!Ending
           e == t \o q
           w == b \o e
<1>1. TokenLength \in Nat
  BY DEF J!ParametersOK
<1>2. t \in Seq(J!Chars) /\ Len(t) = TokenLength /\ \A i \in 1 .. TokenLength : t[i] = "x"
  <2>1. t = [i \in 1 .. TokenLength |-> "x"]
    BY DEF J!Token
  <2> HIDE DEF t
  <2> QED
    BY <1>1, <2>1, CharsHave, RepeatedIsSequence
<1>3. q \in Seq(J!Chars) /\ Len(q) = 8 /\ q[1] = "quote"
  BY CharsHave DEF J!Ending
<1> HIDE DEF t, q
<1>4. /\ e \in Seq(J!Chars) /\ Len(e) = TokenLength + 8
      /\ \A i \in 1 .. TokenLength : e[i] = "x"
      /\ e[TokenLength + 1] = "quote"
  <2>1. /\ e \in Seq(J!Chars) /\ Len(e) = Len(t) + Len(q)
        /\ \A i \in 1 .. Len(t) : e[i] = t[i]
        /\ \A i \in 1 .. Len(q) : e[Len(t) + i] = q[i]
    <3>1. t \in Seq(J!Chars) /\ q \in Seq(J!Chars)
      BY <1>2, <1>3
    <3> QED
      BY <3>1, JoinedAt
  <2> HIDE DEF e
  <2>2. 1 \in 1 .. Len(q)
    BY <1>3
  <2> QED
    BY <1>1, <1>2, <1>3, <2>1, <2>2
<1> HIDE DEF e
<1>5. /\ Len(w) = m + 7 + TokenLength + 8
      /\ \A i \in 1 .. m + 7 : w[i] = b[i]
      /\ \A i \in 1 .. TokenLength + 8 : w[m + 7 + i] = e[i]
  <2>1. /\ Len(w) = Len(b) + Len(e)
        /\ \A i \in 1 .. Len(b) : w[i] = b[i]
        /\ \A i \in 1 .. Len(e) : w[Len(b) + i] = e[i]
    <3>1. e \in Seq(J!Chars)
      BY <1>4
    <3>2. \A c \in Seq(J!Chars), d \in Seq(J!Chars) :
            /\ Len(c \o d) = Len(c) + Len(d)
            /\ \A i \in 1 .. Len(c) : (c \o d)[i] = c[i]
            /\ \A i \in 1 .. Len(d) : (c \o d)[Len(c) + i] = d[i]
      BY JoinedAt
    <3> QED
      BY <3>1, <3>2
  <2> HIDE DEF w
  <2> QED
    BY <1>1, <1>4, <2>1
<1>6. Framed(w, m)
  BY <1>4, FrameStays DEF Keyed
<1> HIDE DEF w
<1>7. Keyed(w, m)
  BY <1>1, <1>5, <1>6 DEF Keyed
<1>8. ASSUME NEW i \in m + 8 .. m + 7 + TokenLength PROVE w[i] = "x"
  <2>1. i - (m + 7) \in 1 .. TokenLength /\ i - (m + 7) \in 1 .. TokenLength + 8
        /\ m + 7 + (i - (m + 7)) = i
    BY <1>1
  <2> QED
    BY <1>4, <1>5, <2>1
<1>9. w[m + 8 + TokenLength] = "quote"
  <2>1. TokenLength + 1 \in 1 .. TokenLength + 8 /\ m + 7 + (TokenLength + 1) = m + 8 + TokenLength
    BY <1>1
  <2> QED
    BY <1>4, <1>5, <2>1
<1>10. Closed(w, m)
  BY <1>1, <1>5, <1>7, <1>8, <1>9 DEF Closed
<1> QED
  BY <1>10 DEF w, e, t, q

\* An answer is put together in this order.
LEMMA AnswerAlways == ASSUME J!ParametersOK PROVE J!Spec => []AnswerInv
<1>1. J!Init => AnswerInv
  BY DEF J!Init, AnswerInv
<1>2. ASSUME AnswerInv, [J!Next]_(J!vars) PROVE AnswerInv'
  <2>1. CASE J!open
    <3>1. buffer' = << >> \o J!Opening /\ building' = "message"
      BY <1>2, <2>1 DEF J!open, J!json_buffer_append, AnswerInv
    <3>2. /\ J!Opening \in Seq(J!Chars) /\ Len(J!Opening) = 6
          /\ J!Opening[1] = "brace" /\ J!Opening[2] = "quote" /\ J!Opening[3] = "x"
          /\ J!Opening[4] = "quote" /\ J!Opening[5] = "colon" /\ J!Opening[6] = "quote"
      BY CharsHave DEF J!Opening
    <3>3. buffer' = J!Opening
      BY <3>1, <3>2
    <3>4. Framed(J!Opening, Len(J!Opening))
      BY <3>2 DEF Framed
    <3> QED
      BY <3>1, <3>3, <3>4 DEF AnswerInv, Framed, Keyed, Closed
  <2>2. ASSUME NEW c \in J!Chars, J!escape(c) PROVE AnswerInv'
    <3>1. /\ Framed(buffer, Len(buffer)) /\ buffer \in Seq(J!Chars)
          /\ buffer' = buffer \o J!Escaped(c) /\ building' = "message"
      BY <1>2, <2>2 DEF J!escape, J!json_buffer_append, AnswerInv, Framed
    <3>2. Framed(buffer', Len(buffer'))
      BY <3>1, FrameGrows
    <3> QED
      BY <3>1, <3>2 DEF AnswerInv
  <2>3. CASE J!key
    <3>1. /\ Framed(buffer, Len(buffer)) /\ buffer \in Seq(J!Chars) /\ Len(buffer) \in Nat
          /\ buffer' = buffer \o (<<"quote", "comma">> \o J!TokenKey) /\ building' = "token"
      BY <1>2, <2>3 DEF J!key, J!json_buffer_append, AnswerInv, Framed
    <3>2. Keyed(buffer', Len(buffer)) /\ Len(buffer') = Len(buffer) + 7
      BY <3>1, KeyFollows
    <3> QED
      BY <3>1, <3>2 DEF AnswerInv
  <2>4. CASE J!close
    <3>1. building' = "sent" /\ buffer' = buffer \o (J!Token \o J!Ending)
      BY <2>4 DEF J!close, J!json_buffer_append
    <3>2. PICK m \in Nat : Keyed(buffer, m) /\ Len(buffer) = m + 7
      BY <1>2, <2>4 DEF J!close, AnswerInv
    <3>3. Closed(buffer', m)
      BY <3>1, <3>2, TokenFollows DEF Keyed, Framed
    <3> QED
      BY <3>1, <3>3 DEF AnswerInv
  <2>5. CASE J!out_of_memory
    BY <2>5 DEF J!out_of_memory, AnswerInv
  <2>6. CASE UNCHANGED J!vars
    BY <1>2, <2>6 DEF J!vars, AnswerInv
  <2> QED
    BY <1>2, <2>1, <2>2, <2>3, <2>4, <2>5, <2>6 DEF J!Next
<1> QED
  BY <1>1, <1>2, PTL DEF J!Spec

\* The bytes of a part of a sequence.
LEMMA PartIs ==
    ASSUME NEW T, NEW b \in Seq(T), NEW i \in Nat \ {0}, NEW n \in Nat, i + n - 1 <= Len(b)
    PROVE  /\ SubSeq(b, i, i + n - 1) \in Seq(T) /\ Len(SubSeq(b, i, i + n - 1)) = n
           /\ \A k \in 1 .. n : SubSeq(b, i, i + n - 1)[k] = b[i + k - 1]
<1> DEFINE h == i + n - 1
<1>1. h \in Int /\ i \in Int /\ Len(b) \in Nat /\ h - i + 1 = n /\ h <= Len(b)
  OBVIOUS
<1>2. \A k \in i .. h : b[k] \in T
  BY <1>1
<1> HIDE DEF h
<1>3. /\ SubSeq(b, i, h) \in Seq(T)
      /\ Len(SubSeq(b, i, h)) = IF i <= h THEN h - i + 1 ELSE 0
      /\ \A k \in 1 .. h - i + 1 : SubSeq(b, i, h)[k] = b[i + k - 1]
  BY <1>1, <1>2, SubSeqProperties
<1>4. /\ SubSeq(b, i, h) \in Seq(T) /\ Len(SubSeq(b, i, h)) = n
      /\ \A k \in 1 .. n : SubSeq(b, i, h)[k] = b[i + k - 1]
  BY <1>1, <1>3
<1> QED
  BY <1>4 DEF h

\* The five bytes of a match.
LEMMA MatchIs ==
    ASSUME NEW i \in Nat \ {0}, buffer \in Seq(J!Chars), i + 4 <= Len(buffer)
    PROVE  J!Matches(i, J!Pattern) <=>
             /\ buffer[i] = "quote" /\ buffer[i + 1] = "token" /\ buffer[i + 2] = "quote"
             /\ buffer[i + 3] = "colon" /\ buffer[i + 4] = "quote"
<1> DEFINE p == J!Pattern
           s == SubSeq(buffer, i, i + 5 - 1)
<1>1. /\ p \in Seq(J!Chars) /\ Len(p) = 5
      /\ p[1] = "quote" /\ p[2] = "token" /\ p[3] = "quote" /\ p[4] = "colon" /\ p[5] = "quote"
  BY CharsHave DEF J!Pattern, J!TokenKey
<1>2. J!Matches(i, J!Pattern) <=> s = p
  <2>1. J!Matches(i, J!Pattern) <=> SubSeq(buffer, i, i + Len(p) - 1) = p
    BY DEF J!Matches
  <2> HIDE DEF p
  <2> QED
    BY <1>1, <2>1
<1>3. i + 5 - 1 <= Len(buffer) /\ 5 \in Nat
  OBVIOUS
<1>4. /\ s \in Seq(J!Chars) /\ Len(s) = 5
      /\ \A k \in 1 .. 5 : s[k] = buffer[i + k - 1]
  BY <1>3, PartIs
<1> HIDE DEF s, p
<1>5. /\ s[1] = buffer[i + 1 - 1] /\ s[2] = buffer[i + 2 - 1] /\ s[3] = buffer[i + 3 - 1]
      /\ s[4] = buffer[i + 4 - 1] /\ s[5] = buffer[i + 5 - 1]
  BY <1>4
<1>6. /\ s[1] = buffer[i] /\ s[2] = buffer[i + 1] /\ s[3] = buffer[i + 2]
      /\ s[4] = buffer[i + 3] /\ s[5] = buffer[i + 4]
  BY <1>5
<1>7. ASSUME s[1] = p[1], s[2] = p[2], s[3] = p[3], s[4] = p[4], s[5] = p[5] PROVE s = p
  <2>1. \A k \in 1 .. 5 : s[k] = p[k]
    BY <1>7
  <2>2. /\ s \in Seq(J!Chars) /\ p \in Seq(J!Chars) /\ Len(s) = Len(p)
        /\ \A k \in 1 .. Len(s) : s[k] = p[k]
    BY <1>1, <1>4, <2>1
  <2> QED
    BY <2>2, SeqEqual
<1> QED
  BY <1>1, <1>2, <1>6, <1>7

\* The search passes over the message and stops at the key of the token.
LEMMA KeyIsFound ==
    ASSUME NEW m \in Nat, Closed(buffer, m), TokenLength \in Nat, NEW i \in 1 .. Len(buffer)
    PROVE  J!FoundAt(i, J!Pattern) <=> i = m + 3
<1>1. buffer \in Seq(J!Chars) /\ Len(buffer) \in Nat /\ Len(buffer) >= m + 8 /\ m >= 6
  BY DEF Closed, Keyed, Framed
<1>2. J!Matches(m + 3, J!Pattern)
  <2>1. /\ buffer[m + 3] = "quote" /\ buffer[m + 3 + 1] = "token" /\ buffer[m + 3 + 2] = "quote"
        /\ buffer[m + 3 + 3] = "colon" /\ buffer[m + 3 + 4] = "quote"
    BY DEF Closed, Keyed
  <2>2. m + 3 \in Nat \ {0} /\ m + 3 + 4 <= Len(buffer)
    BY <1>1
  <2> QED
    BY <1>1, <2>1, <2>2, MatchIs
<1>3. ASSUME NEW j \in 1 .. m + 2 PROVE ~J!Matches(j, J!Pattern)
  <2>1. j \in Nat \ {0} /\ j + 4 <= Len(buffer)
    BY <1>1
  <2> SUFFICES ASSUME buffer[j] = "quote", buffer[j + 1] = "token", buffer[j + 2] = "quote",
                      buffer[j + 3] = "colon"
               PROVE  FALSE
    BY <1>1, <2>1, MatchIs
  <2>2. CASE j <= 4
    <3>1. j = 1 \/ j = 2 \/ j = 3 \/ j = 4
      BY <2>2
    <3> QED
      BY <3>1 DEF Closed, Keyed, Framed
  <2>3. CASE j > 4 /\ j + 2 <= m
    <3>1. j + 2 \in 7 .. m /\ (j + 2) - 1 = j + 1
      BY <2>3
    <3>2. buffer[j + 1] = "backslash"
      BY <3>1 DEF Closed, Keyed, Framed
    <3> QED
      BY <3>2
  <2>4. CASE j + 2 > m
    <3>1. j + 3 = m + 2 \/ j + 2 = m + 2 \/ j + 1 = m + 2 \/ j = m + 2
      BY <2>4
    <3> QED
      BY <3>1 DEF Closed, Keyed
  <2> QED
    BY <2>2, <2>3, <2>4
<1>4. ASSUME J!FoundAt(i, J!Pattern) PROVE i = m + 3
  <2>1. i > m + 2
    BY <1>3, <1>4 DEF J!FoundAt
  <2>2. ~(m + 3 \in 1 .. i - 1)
    BY <1>2, <1>4 DEF J!FoundAt
  <2> QED
    BY <2>1, <2>2
<1>5. ASSUME i = m + 3 PROVE J!FoundAt(i, J!Pattern)
  <2>1. J!Matches(i, J!Pattern) /\ \A j \in 1 .. i - 1 : ~J!Matches(j, J!Pattern)
    BY <1>2, <1>3, <1>5
  <2> QED
    BY <2>1 DEF J!FoundAt
<1> QED
  BY <1>4, <1>5

\* What the search then copies is the token.
LEMMA ClosedIsFound ==
    ASSUME J!ParametersOK, NEW m \in Nat, Closed(buffer, m)
    PROVE  J!extract_json_string_field = J!Token
<1> DEFINE P == J!Pattern
           found == CHOOSE i \in 1 .. Len(buffer) : J!FoundAt(i, P)
           Ends(first, e) == buffer[e] = "quote" /\ \A j \in first .. e - 1 : buffer[j] # "quote"
           end == CHOOSE e \in m + 8 .. Len(buffer) : Ends(m + 8, e)
<1>1. /\ TokenLength \in Nat /\ buffer \in Seq(J!Chars) /\ Len(buffer) \in Nat
      /\ Len(buffer) >= m + 8 + TokenLength /\ buffer[m + 8 + TokenLength] = "quote"
      /\ \A i \in m + 8 .. m + 7 + TokenLength : buffer[i] = "x"
  BY DEF J!ParametersOK, Closed, Keyed, Framed
<1>2. Len(P) = 5
  BY DEF J!Pattern, J!TokenKey
<1>3. found = m + 3
  <2>1. m + 3 \in 1 .. Len(buffer)
    BY <1>1
  <2> HIDE DEF P
  <2>2. \A i \in 1 .. Len(buffer) : J!FoundAt(i, P) <=> i = m + 3
    BY <1>1, KeyIsFound DEF P
  <2> QED
    BY <2>1, <2>2
<1>4. end = m + 8 + TokenLength
  <2>1. m + 8 + TokenLength \in m + 8 .. Len(buffer)
    BY <1>1
  <2>2. Ends(m + 8, m + 8 + TokenLength)
    BY <1>1
  <2>3. ASSUME NEW e \in m + 8 .. Len(buffer), Ends(m + 8, e) PROVE e = m + 8 + TokenLength
    <3>1. ~(e \in m + 8 .. m + 7 + TokenLength)
      BY <1>1, <2>3
    <3>2. ~(m + 8 + TokenLength \in m + 8 .. e - 1)
      BY <1>1, <2>3
    <3> QED
      BY <1>1, <3>1, <3>2
  <2> QED
    BY <2>1, <2>2, <2>3
<1>5. J!extract_json_string_field =
        SubSeq(buffer, found + Len(P), found + Len(P) +
                 J!Copied((CHOOSE e \in found + Len(P) .. Len(buffer) : Ends(found + Len(P), e))
                            - (found + Len(P))) - 1)
  BY DEF J!extract_json_string_field
<1> HIDE DEF found, P, end
<1>6. found + Len(P) = m + 8
  BY <1>2, <1>3
<1>7. J!extract_json_string_field = SubSeq(buffer, m + 8, m + 8 + J!Copied(end - (m + 8)) - 1)
  BY <1>5, <1>6, Zenon DEF end
<1>8. J!Copied(end - (m + 8)) = TokenLength
  BY <1>1, <1>4 DEF J!Copied
<1> DEFINE s == SubSeq(buffer, m + 8, m + 8 + TokenLength - 1)
<1>9. J!extract_json_string_field = s
  BY <1>7, <1>8
<1>10. /\ s \in Seq(J!Chars) /\ Len(s) = TokenLength
       /\ \A k \in 1 .. TokenLength : s[k] = buffer[m + 8 + k - 1]
  <2>1. m + 8 \in Nat \ {0} /\ m + 8 + TokenLength - 1 <= Len(buffer)
    BY <1>1
  <2> QED
    BY <1>1, <2>1, PartIs
<1> HIDE DEF s
<1>11. \A k \in 1 .. TokenLength : s[k] = "x"
  BY <1>1, <1>10
<1>12. /\ J!Token \in Seq(J!Chars) /\ Len(J!Token) = TokenLength
       /\ \A k \in 1 .. TokenLength : J!Token[k] = "x"
  <2> DEFINE t == J!Token
  <2>1. t = [i \in 1 .. TokenLength |-> "x"]
    BY DEF J!Token
  <2> HIDE DEF t
  <2>2. t \in Seq(J!Chars) /\ Len(t) = TokenLength /\ \A k \in 1 .. TokenLength : t[k] = "x"
    BY <1>1, <2>1, CharsHave, RepeatedIsSequence
  <2> QED
    BY <2>2 DEF t
<1>13. s = J!Token
  <2>1. Len(s) = Len(J!Token) /\ \A k \in 1 .. Len(s) : s[k] = J!Token[k]
    BY <1>10, <1>11, <1>12
  <2> QED
    BY <1>10, <1>12, <2>1, SeqEqual
<1> QED
  BY <1>9, <1>13

\* extract_json_string_field searches the raw text of an answer.  Whatever message
\* the other node wrote into it, and however long, the search finds the token, all
\* of it and nothing else.
THEOREM TokensAreFound == J!Spec => []J!TokenIsFound
<1>1. J!ParametersOK
  BY ParametersAssumption
<1>2. AnswerInv => J!TokenIsFound
  BY <1>1, ClosedIsFound DEF AnswerInv, J!TokenIsFound
<1> QED
  BY <1>1, <1>2, AnswerAlways, PTL

-----------------------------------------------------------------------------
(* The buffer of an answer.                                                *)

\* What the buffer of an answer has in its first n doublings.
Doubles(d, n) ==
    d = [k \in 0 .. n |-> IF k = 0 THEN IF capacity > 0 THEN capacity ELSE InitialCapacity
                          ELSE 2 * d[k - 1]]

\* A buffer can be doubled any number of times.
LEMMA DoublesExist == ASSUME NEW n \in Nat PROVE \E d : Doubles(d, n)
<1> DEFINE from == IF capacity > 0 THEN capacity ELSE InitialCapacity
           Bad == {m \in Nat : ~ \E d : Doubles(d, m)}
<1> SUFFICES ASSUME Bad # {} PROVE FALSE
  OBVIOUS
<1>1. PICK m \in Bad : \A k \in Bad : m <= k
  BY LeastOne
<1>2. m # 0
  <2>1. Doubles([k \in 0 .. 0 |-> from], 0)
    BY DEF Doubles
  <2> QED
    BY <1>1, <2>1
<1>3. m - 1 \in Nat /\ m - 1 \notin Bad
  BY <1>1, <1>2
<1>4. PICK d : Doubles(d, m - 1)
  BY <1>3
<1> DEFINE h == [k \in 0 .. m |-> IF k = m THEN 2 * d[m - 1] ELSE d[k]]
<1>5. ASSUME NEW k \in 0 .. m PROVE h[k] = IF k = 0 THEN from ELSE 2 * h[k - 1]
  <2>1. CASE k = m
    <3>1. h[k] = 2 * d[m - 1] /\ h[m - 1] = d[m - 1]
      BY <1>1, <1>2, <2>1
    <3> QED
      BY <1>2, <2>1, <3>1
  <2>2. CASE k # m
    <3>1. k \in 0 .. m - 1 /\ h[k] = d[k] /\ (k # 0 => k - 1 \in 0 .. m /\ k - 1 # m)
      BY <1>1, <2>2
    <3>2. d[k] = IF k = 0 THEN from ELSE 2 * d[k - 1]
      BY <1>4, <3>1 DEF Doubles
    <3> QED
      BY <3>1, <3>2
  <2> QED
    BY <2>1, <2>2
<1>6. Doubles(h, m)
  BY <1>5 DEF Doubles
<1> QED
  BY <1>1, <1>6

\* Each doubling adds a byte at least.
LEMMA DoublesGrow ==
    ASSUME J!ParametersOK, capacity \in Nat, NEW n \in Nat, NEW d, Doubles(d, n)
    PROVE  \A k \in 0 .. n : d[k] \in Nat /\ d[k] > k
<1> DEFINE Bad == {k \in 0 .. n : ~(d[k] \in Nat /\ d[k] > k)}
<1> SUFFICES ASSUME Bad # {} PROVE FALSE
  OBVIOUS
<1>1. PICK m \in Bad : \A k \in Bad : m <= k
  <2>1. Bad \in SUBSET Nat
    OBVIOUS
  <2> HIDE DEF Bad
  <2> QED
    BY <2>1, LeastOne
<1>2. m # 0
  <2>1. d[0] = IF capacity > 0 THEN capacity ELSE InitialCapacity
    BY DEF Doubles
  <2> QED
    BY <1>1, <2>1 DEF J!ParametersOK
<1>3. m - 1 \in 0 .. n /\ m - 1 \notin Bad
  BY <1>1, <1>2
<1>4. d[m] = 2 * d[m - 1]
  BY <1>1, <1>2 DEF Doubles
<1> QED
  BY <1>1, <1>2, <1>3, <1>4

\* ensure_capacity ends, with more than n bytes.
LEMMA GrownFits ==
    ASSUME J!ParametersOK, capacity \in Nat, NEW n \in Nat
    PROVE  J!Grown(n) \in Nat /\ J!Grown(n) > n
<1> DEFINE d == CHOOSE d : Doubles(d, n)
           Enough(k) == d[k] > n /\ \A j \in 0 .. k - 1 : d[j] <= n
<1>1. Doubles(d, n)
  BY DoublesExist
<1>2. J!Grown(n) = d[CHOOSE k \in 0 .. n : Enough(k)]
  BY Zenon DEF J!Grown, Doubles
<1> HIDE DEF d
<1>3. \A k \in 0 .. n : d[k] \in Nat /\ d[k] > k
  BY <1>1, DoublesGrow
<1>4. PICK m \in {k \in 0 .. n : d[k] > n} : \A k \in {k \in 0 .. n : d[k] > n} : m <= k
  <2>1. n \in {k \in 0 .. n : d[k] > n} /\ {k \in 0 .. n : d[k] > n} \in SUBSET Nat
    BY <1>3
  <2> QED
    BY <2>1, LeastOne
<1>5. Enough(m)
  BY <1>3, <1>4
<1>6. \E k \in 0 .. n : Enough(k)
  BY <1>4, <1>5
<1> DEFINE c == CHOOSE k \in 0 .. n : Enough(k)
<1>7. c \in 0 .. n /\ d[c] > n
  BY <1>6
<1> QED
  BY <1>2, <1>3, <1>7

\* The inductive invariant of the buffer.
BufferInv == capacity \in Nat /\ buffer \in Seq(J!Chars) /\ J!FitsBuffer

\* What is appended fits.
LEMMA AppendFits ==
    ASSUME J!ParametersOK, BufferInv, NEW text_ \in Seq(J!Chars), J!json_buffer_append(text_)
    PROVE  BufferInv'
<1> DEFINE n == J!Required(text_)
<1>1. /\ buffer' = buffer \o text_ /\ buffer' \in Seq(J!Chars)
      /\ Len(buffer') = Len(buffer) + Len(text_) /\ Len(buffer) \in Nat /\ Len(text_) \in Nat
  BY JoinedAt DEF J!json_buffer_append, BufferInv
<1>2. n \in Nat /\ n = Len(buffer') + 1
  BY <1>1 DEF J!Required
<1>3. J!Grown(n) \in Nat /\ J!Grown(n) > n
  BY <1>2, GrownFits DEF BufferInv
<1>4. capacity' = IF capacity > n THEN capacity ELSE J!Grown(n)
  BY DEF J!json_buffer_append
<1> HIDE DEF n
<1>5. capacity' \in Nat /\ capacity' > n
  BY <1>3, <1>4 DEF BufferInv
<1> QED
  BY <1>1, <1>2, <1>5 DEF BufferInv, J!FitsBuffer

\* What is appended is text.
LEMMA AppendedIsText ==
    ASSUME J!ParametersOK
    PROVE  /\ J!Opening \in Seq(J!Chars)
           /\ <<"quote", "comma">> \o J!TokenKey \in Seq(J!Chars)
           /\ J!Token \o J!Ending \in Seq(J!Chars)
<1>1. J!Opening \in Seq(J!Chars)
  BY CharsHave DEF J!Opening
<1>2. /\ J!TokenKey \in Seq(J!Chars) /\ <<"quote", "comma">> \in Seq(J!Chars)
      /\ J!Ending \in Seq(J!Chars)
  BY CharsHave DEF J!TokenKey, J!Ending
<1>3. J!Token \in Seq(J!Chars)
  BY CharsHave, RepeatedIsSequence DEF J!Token, J!ParametersOK
<1> QED
  BY <1>1, <1>2, <1>3, JoinedAt

\* An answer always fits its buffer.
LEMMA BufferAlways == ASSUME J!ParametersOK PROVE J!Spec => []BufferInv
<1>1. J!Init => BufferInv
  BY DEF J!Init, BufferInv, J!FitsBuffer
<1>2. ASSUME BufferInv, [J!Next]_(J!vars) PROVE BufferInv'
  <2>1. CASE J!open
    BY <1>2, <2>1, AppendFits, AppendedIsText DEF J!open
  <2>2. ASSUME NEW c \in J!Chars, J!escape(c) PROVE BufferInv'
    BY <1>2, <2>2, AppendFits, EscapedIs DEF J!escape
  <2>3. CASE J!key
    BY <1>2, <2>3, AppendFits, AppendedIsText DEF J!key
  <2>4. CASE J!close
    BY <1>2, <2>4, AppendFits, AppendedIsText DEF J!close
  <2>5. CASE J!out_of_memory
    BY <2>5 DEF J!out_of_memory, BufferInv, J!FitsBuffer
  <2>6. CASE UNCHANGED J!vars
    BY <1>2, <2>6 DEF J!vars, BufferInv, J!FitsBuffer
  <2> QED
    BY <1>2, <2>1, <2>2, <2>3, <2>4, <2>5, <2>6 DEF J!Next
<1> QED
  BY <1>1, <1>2, PTL DEF J!Spec
-----------------------------------------------------------------------------
(* A reader of an answer.                                                  *)

\* g is how a reader goes through the bytes b.
Reading(g, b) ==
    g = [i \in Len(J!Opening) .. Len(b) |->
           IF i = Len(J!Opening) THEN [mode |-> "text", left |-> 0, text |-> << >>]
           ELSE J!Reads(g[i - 1], b[i])]

\* What a reader knows in its string, and at its end.
InText(t) == [mode |-> "text", left |-> 0, text |-> t]
AtEnd(t) == [mode |-> "end", left |-> 0, text |-> t]

\* Some reader goes through b and ends as r.
ReadAs(b, r) == \E g : Reading(g, b) /\ g[Len(b)] = r

\* There is only one way to read.
LEMMA ReadingIsUnique ==
    ASSUME NEW b \in Seq(J!Chars), NEW g, NEW h, Reading(g, b), Reading(h, b)
    PROVE  g = h
<1> DEFINE first == Len(J!Opening)
           Bad == {i \in first .. Len(b) : g[i] # h[i]}
<1>1. first = 6 /\ Len(b) \in Nat
  BY DEF J!Opening
<1>2. \A i \in first .. Len(b) : i = first => g[i] = h[i]
  BY DEF Reading
<1>3. \A i \in first .. Len(b) :
        i # first => g[i] = J!Reads(g[i - 1], b[i]) /\ h[i] = J!Reads(h[i - 1], b[i])
  BY DEF Reading
<1> HIDE DEF first
<1>4. Bad = {}
  <2> SUFFICES ASSUME Bad # {} PROVE FALSE
    OBVIOUS
  <2>1. PICK m \in Bad : \A k \in Bad : m <= k
    <3>1. Bad \in SUBSET Nat
      BY <1>1
    <3> HIDE DEF Bad
    <3> QED
      BY <3>1, LeastOne
  <2>2. m \in first .. Len(b) /\ m # first
    BY <1>2, <2>1
  <2>3. m - 1 \in first .. Len(b) /\ m - 1 \notin Bad
    BY <1>1, <2>1, <2>2
  <2>4. g[m] = J!Reads(g[m - 1], b[m]) /\ h[m] = J!Reads(h[m - 1], b[m]) /\ g[m - 1] = h[m - 1]
    BY <1>3, <2>2, <2>3
  <2> QED
    BY <2>1, <2>4
<1>5. \A i \in first .. Len(b) : g[i] = h[i]
  BY <1>4
<1>6. DOMAIN g = first .. Len(b) /\ DOMAIN h = first .. Len(b)
  BY DEF Reading, first
<1>7. g = [i \in first .. Len(b) |-> g[i]] /\ h = [i \in first .. Len(b) |-> h[i]]
  BY <1>6, Zenon DEF Reading, first
<1> QED
  BY <1>5, <1>7

\* The reader of the model is that one.
LEMMA ReaderReads ==
    ASSUME buffer \in Seq(J!Chars), NEW r, ReadAs(buffer, r)
    PROVE  J!reader[Len(buffer)] = r
<1>1. PICK g : Reading(g, buffer) /\ g[Len(buffer)] = r
  BY DEF ReadAs
<1>2. J!reader = CHOOSE h : Reading(h, buffer)
  BY Zenon DEF J!reader, Reading
<1>3. Reading(J!reader, buffer)
  BY <1>1, <1>2, Zenon
<1>4. J!reader = g
  BY <1>1, <1>3, ReadingIsUnique
<1> QED
  BY <1>1, <1>4

\* A reader reads on: q says how it goes through e.
LEMMA ReadsOn ==
    ASSUME NEW b \in Seq(J!Chars), NEW e \in Seq(J!Chars), NEW r, ReadAs(b, r), Len(b) >= 6,
           NEW q, q[0] = r, \A i \in 1 .. Len(e) : q[i] = J!Reads(q[i - 1], e[i])
    PROVE  ReadAs(b \o e, q[Len(e)])
<1> DEFINE w == b \o e
           n == Len(b)
           first == Len(J!Opening)
<1>1. PICK g : Reading(g, b) /\ g[n] = r
  BY DEF ReadAs
<1>2. /\ w \in Seq(J!Chars) /\ Len(w) = n + Len(e) /\ n \in Nat /\ Len(e) \in Nat
      /\ \A i \in 1 .. n : w[i] = b[i]
      /\ \A i \in 1 .. Len(e) : w[n + i] = e[i]
  BY JoinedAt
<1>3. first = 6 /\ n >= first
  BY DEF J!Opening
<1> HIDE DEF w, n
<1> DEFINE h == [i \in first .. Len(w) |-> IF i <= n THEN g[i] ELSE q[i - n]]
           Next_(i) == IF i = first THEN [mode |-> "text", left |-> 0, text |-> << >>]
                       ELSE J!Reads(h[i - 1], w[i])
<1>4. ASSUME NEW i \in first .. Len(w) PROVE h[i] = Next_(i)
  <2>1. CASE i = first
    <3>1. h[i] = g[i] /\ g[i] = [mode |-> "text", left |-> 0, text |-> << >>]
      BY <1>1, <1>2, <1>3, <2>1 DEF Reading, n
    <3> QED
      BY <2>1, <3>1
  <2>2. CASE i # first /\ i <= n
    <3>1. i \in first .. n /\ i - 1 \in first .. Len(w) /\ i - 1 <= n /\ i \in 1 .. n
      BY <1>2, <1>3, <2>2
    <3>2. g[i] = J!Reads(g[i - 1], b[i])
      BY <1>1, <2>2, <3>1 DEF Reading, n
    <3>3. h[i] = g[i] /\ h[i - 1] = g[i - 1] /\ w[i] = b[i]
      BY <1>2, <2>2, <3>1
    <3> QED
      BY <2>2, <3>2, <3>3
  <2>3. CASE i > n
    <3>1. /\ i - n \in 1 .. Len(e) /\ n + (i - n) = i /\ (i - n) - 1 = (i - 1) - n
          /\ i - 1 \in first .. Len(w) /\ i # first
      BY <1>2, <1>3, <2>3
    <3>2. q[i - n] = J!Reads(q[(i - 1) - n], e[i - n]) /\ w[i] = e[i - n]
      BY <1>2, <3>1
    <3>3. h[i - 1] = q[(i - 1) - n]
      <4>1. CASE i - 1 <= n
        <5>1. i - 1 = n /\ (i - 1) - n = 0
          BY <1>2, <2>3, <4>1
        <5> QED
          BY <1>1, <3>1, <5>1
      <4>2. CASE ~(i - 1 <= n)
        BY <3>1, <4>2
      <4> QED
        BY <4>1, <4>2
    <3>4. h[i] = q[i - n]
      BY <1>2, <2>3
    <3> QED
      BY <3>1, <3>2, <3>3, <3>4
  <2> QED
    BY <1>2, <1>3, <2>1, <2>2, <2>3
<1>5. Reading(h, w)
  <2>1. h = [i \in first .. Len(w) |-> Next_(i)]
    BY <1>4
  <2> QED
    BY <2>1, Zenon DEF Reading
<1>6. h[Len(w)] = q[Len(e)]
  <2>1. Len(w) \in first .. Len(w) /\ Len(w) - n = Len(e)
    BY <1>2, <1>3
  <2>2. CASE Len(w) <= n
    <3>1. Len(e) = 0 /\ Len(w) = n
      BY <1>2, <2>2
    <3> QED
      BY <1>1, <2>1, <2>2, <3>1
  <2>3. CASE ~(Len(w) <= n)
    BY <2>1, <2>3
  <2> QED
    BY <2>2, <2>3
<1>7. ReadAs(w, q[Len(e)])
  BY <1>5, <1>6 DEF ReadAs
<1> QED
  BY <1>7 DEF w

\* In an escape, and with k digits of one to come.
InEscape(t) == [mode |-> "escape", left |-> 0, text |-> t]
InHex(k, t) == [mode |-> "hex", left |-> k, text |-> t]

\* The steps of a reader.
LEMMA ReadsAre ==
    ASSUME NEW t
    PROVE  /\ J!Reads(InText(t), "backslash") = InEscape(t)
           /\ J!Reads(InText(t), "quote") = AtEnd(t)
           /\ \A c : c # "backslash" /\ c # "quote" => J!Reads(InText(t), c) = InText(Append(t, c))
           /\ \A c : c # "u" /\ c # "n" => J!Reads(InEscape(t), c) = InText(Append(t, c))
           /\ J!Reads(InEscape(t), "n") = InText(Append(t, "newline"))
           /\ J!Reads(InEscape(t), "u") = InHex(4, t)
           /\ \A c : J!Reads(InHex(4, t), c) = InHex(3, t)
           /\ \A c : J!Reads(InHex(3, t), c) = InHex(2, t)
           /\ \A c : J!Reads(InHex(2, t), c) = InHex(1, t)
           /\ \A c : J!Reads(InHex(1, t), c) = InText(Append(t, "control"))
           /\ \A c : J!Reads(AtEnd(t), c) = AtEnd(t)
<1>1. J!Reads(InText(t), "backslash") = InEscape(t)
  BY DEF J!Reads, InText, InEscape
<1>2. J!Reads(InText(t), "quote") = AtEnd(t)
  BY DEF J!Reads, InText, AtEnd
<1>3. ASSUME NEW c, c # "backslash", c # "quote" PROVE J!Reads(InText(t), c) = InText(Append(t, c))
  BY <1>3 DEF J!Reads, InText
<1>4. ASSUME NEW c, c # "u", c # "n" PROVE J!Reads(InEscape(t), c) = InText(Append(t, c))
  <2> DEFINE r == InEscape(t)
  <2>1. r.mode = "escape" /\ r.text = t
    BY DEF InEscape
  <2> HIDE DEF r
  <2>2. J!Reads(r, c) = [mode |-> "text", left |-> 0, text |-> Append(r.text, c)]
    BY <1>4, <2>1 DEF J!Reads
  <2> QED
    BY <2>1, <2>2 DEF r, InText
<1>5. /\ J!Reads(InEscape(t), "n") = InText(Append(t, "newline"))
      /\ J!Reads(InEscape(t), "u") = InHex(4, t)
  BY DEF J!Reads, InText, InEscape, InHex
<1>6. ASSUME NEW c PROVE J!Reads(InHex(4, t), c) = InHex(3, t)
  <2> DEFINE r == InHex(4, t)
  <2>1. r.mode = "hex" /\ r.left = 4 /\ [r EXCEPT !.left = @ - 1] = InHex(3, t)
    BY DEF InHex
  <2> HIDE DEF r
  <2>2. J!Reads(r, c) = [r EXCEPT !.left = @ - 1]
    BY <2>1 DEF J!Reads
  <2> QED
    BY <2>1, <2>2 DEF r
<1>7. ASSUME NEW c PROVE J!Reads(InHex(3, t), c) = InHex(2, t)
  <2> DEFINE r == InHex(3, t)
  <2>1. r.mode = "hex" /\ r.left = 3 /\ [r EXCEPT !.left = @ - 1] = InHex(2, t)
    BY DEF InHex
  <2> HIDE DEF r
  <2>2. J!Reads(r, c) = [r EXCEPT !.left = @ - 1]
    BY <2>1 DEF J!Reads
  <2> QED
    BY <2>1, <2>2 DEF r
<1>8. ASSUME NEW c PROVE J!Reads(InHex(2, t), c) = InHex(1, t)
  <2> DEFINE r == InHex(2, t)
  <2>1. r.mode = "hex" /\ r.left = 2 /\ [r EXCEPT !.left = @ - 1] = InHex(1, t)
    BY DEF InHex
  <2> HIDE DEF r
  <2>2. J!Reads(r, c) = [r EXCEPT !.left = @ - 1]
    BY <2>1 DEF J!Reads
  <2> QED
    BY <2>1, <2>2 DEF r
<1>9. ASSUME NEW c PROVE J!Reads(InHex(1, t), c) = InText(Append(t, "control"))
  <2> DEFINE r == InHex(1, t)
  <2>1. r.mode = "hex" /\ r.left = 1 /\ r.text = t
    BY DEF InHex
  <2> HIDE DEF r
  <2>2. J!Reads(r, c) = [mode |-> "text", left |-> 0, text |-> Append(r.text, "control")]
    BY <2>1 DEF J!Reads
  <2> QED
    BY <2>1, <2>2 DEF r, InText
<1>10. ASSUME NEW c PROVE J!Reads(AtEnd(t), c) = AtEnd(t)
  <2> DEFINE r == AtEnd(t)
  <2>1. r.mode = "end"
    BY DEF AtEnd
  <2> HIDE DEF r
  <2>2. J!Reads(r, c) = r
    BY <2>1 DEF J!Reads
  <2> QED
    BY <2>2 DEF r
<1> QED
  BY <1>1, <1>2, <1>3, <1>4, <1>5, <1>6, <1>7, <1>8, <1>9, <1>10

\* A reader takes what json_buffer_append_escaped wrote for a byte as that byte.
LEMMA EscapedReads ==
    ASSUME NEW b \in Seq(J!Chars), NEW t, ReadAs(b, InText(t)), Len(b) >= 6, NEW c \in J!Chars
    PROVE  ReadAs(b \o J!Escaped(c), InText(Append(t, c)))
<1> DEFINE e == J!Escaped(c)
           start == InText(t)
           end == InText(Append(t, c))
<1>1. e \in Seq(J!Chars)
  BY EscapedIs
<1>2. ASSUME NEW n \in Nat, Len(e) = n,
             NEW q, q[0] = start, q[n] = end, \A i \in 1 .. n : q[i] = J!Reads(q[i - 1], e[i])
      PROVE  ReadAs(b \o e, end)
  BY <1>1, <1>2, ReadsOn
<1>3. CASE c \in {"quote", "backslash"}
  <2>1. e = <<"backslash", c>>
    BY <1>3, Zenon DEF J!Escaped
  <2> HIDE DEF e, start, end
  <2> DEFINE q == [i \in 0 .. 2 |-> IF i = 0 THEN start ELSE IF i = 1 THEN InEscape(t) ELSE end]
  <2>2. J!Reads(start, "backslash") = InEscape(t) /\ J!Reads(InEscape(t), c) = end
    BY <1>3, ReadsAre DEF start, end
  <2>3. \A i \in 1 .. 2 : q[i] = J!Reads(q[i - 1], e[i])
    <3>1. q[1] = J!Reads(q[1 - 1], e[1]) /\ q[2] = J!Reads(q[2 - 1], e[2])
      BY <2>1, <2>2
    <3> HIDE DEF q
    <3> QED
      BY <3>1
  <2>4. Len(e) = 2 /\ q[0] = start /\ q[2] = end /\ 2 \in Nat
    BY <2>1
  <2> HIDE DEF q
  <2>5. ReadAs(b \o e, end)
    BY <1>2, <2>3, <2>4
  <2> QED
    BY <2>5 DEF e, end
<1>4. CASE c = "newline"
  <2>1. e = <<"backslash", "n">>
    BY <1>4 DEF J!Escaped
  <2> HIDE DEF e, start, end
  <2> DEFINE q == [i \in 0 .. 2 |-> IF i = 0 THEN start ELSE IF i = 1 THEN InEscape(t) ELSE end]
  <2>2. J!Reads(start, "backslash") = InEscape(t) /\ J!Reads(InEscape(t), "n") = end
    BY <1>4, ReadsAre DEF start, end
  <2>3. \A i \in 1 .. 2 : q[i] = J!Reads(q[i - 1], e[i])
    <3>1. q[1] = J!Reads(q[1 - 1], e[1]) /\ q[2] = J!Reads(q[2 - 1], e[2])
      BY <2>1, <2>2
    <3> HIDE DEF q
    <3> QED
      BY <3>1
  <2>4. Len(e) = 2 /\ q[0] = start /\ q[2] = end /\ 2 \in Nat
    BY <2>1
  <2> HIDE DEF q
  <2>5. ReadAs(b \o e, end)
    BY <1>2, <2>3, <2>4
  <2> QED
    BY <2>5 DEF e, end
<1>5. CASE c = "control"
  <2>1. e = <<"backslash", "u", "0", "0", "0", "0">>
    BY <1>5 DEF J!Escaped
  <2> HIDE DEF e, start, end
  <2> DEFINE q == [i \in 0 .. 6 |->
                     IF i = 0 THEN start ELSE IF i = 1 THEN InEscape(t) ELSE
                     IF i = 6 THEN end ELSE InHex(6 - i, t)]
  <2>2. J!Reads(start, "backslash") = InEscape(t) /\ J!Reads(InEscape(t), "u") = InHex(4, t)
    BY ReadsAre DEF start
  <2>3. /\ J!Reads(InHex(4, t), "0") = InHex(3, t) /\ J!Reads(InHex(3, t), "0") = InHex(2, t)
        /\ J!Reads(InHex(2, t), "0") = InHex(1, t) /\ J!Reads(InHex(1, t), "0") = end
    BY <1>5, ReadsAre DEF end
  <2>4. /\ q[0] = start /\ q[1] = InEscape(t) /\ q[2] = InHex(4, t) /\ q[3] = InHex(3, t)
        /\ q[4] = InHex(2, t) /\ q[5] = InHex(1, t) /\ q[6] = end
    OBVIOUS
  <2> HIDE DEF q
  <2>5. /\ Len(e) = 6 /\ e[1] = "backslash" /\ e[2] = "u" /\ e[3] = "0" /\ e[4] = "0" /\ e[5] = "0"
        /\ e[6] = "0"
    BY <2>1
  <2>6. /\ q[1] = J!Reads(q[0], e[1]) /\ q[2] = J!Reads(q[1], e[2]) /\ q[3] = J!Reads(q[2], e[3])
        /\ q[4] = J!Reads(q[3], e[4]) /\ q[5] = J!Reads(q[4], e[5]) /\ q[6] = J!Reads(q[5], e[6])
    BY <2>2, <2>3, <2>4, <2>5, Zenon
  <2>7. ASSUME NEW i \in 1 .. 6 PROVE q[i] = J!Reads(q[i - 1], e[i])
    <3>1. i = 1 \/ i = 2 \/ i = 3 \/ i = 4 \/ i = 5 \/ i = 6
      OBVIOUS
    <3> QED
      BY <2>6, <3>1
  <2>8. ReadAs(b \o e, end)
    BY <1>2, <2>4, <2>5, <2>7
  <2> QED
    BY <2>8 DEF e, end
<1>6. CASE c \notin {"quote", "backslash", "newline", "control"}
  <2>1. e = <<c>>
    BY <1>6 DEF J!Escaped
  <2> HIDE DEF e, start, end
  <2> DEFINE q == [i \in 0 .. 1 |-> IF i = 0 THEN start ELSE end]
  <2>2. J!Reads(start, c) = end
    BY <1>6, ReadsAre DEF start, end
  <2>3. \A i \in 1 .. 1 : q[i] = J!Reads(q[i - 1], e[i])
    BY <2>1, <2>2
  <2>4. Len(e) = 1 /\ q[0] = start /\ q[1] = end /\ 1 \in Nat
    BY <2>1
  <2> HIDE DEF q
  <2>5. ReadAs(b \o e, end)
    BY <1>2, <2>3, <2>4
  <2> QED
    BY <2>5 DEF e, end
<1> QED
  BY <1>3, <1>4, <1>5, <1>6

\* It stops at the first quote that has no backslash, ...
LEMMA QuoteEnds ==
    ASSUME NEW b \in Seq(J!Chars), NEW t, ReadAs(b, InText(t)), Len(b) >= 6,
           NEW e \in Seq(J!Chars), Len(e) >= 1, e[1] = "quote"
    PROVE  ReadAs(b \o e, AtEnd(t))
<1> DEFINE q == [i \in 0 .. Len(e) |-> IF i = 0 THEN InText(t) ELSE AtEnd(t)]
<1>1. q[0] = InText(t) /\ q[Len(e)] = AtEnd(t) /\ \A i \in 1 .. Len(e) : q[i] = AtEnd(t)
  OBVIOUS
<1> HIDE DEF q
<1>2. ASSUME NEW i \in 1 .. Len(e) PROVE q[i] = J!Reads(q[i - 1], e[i])
  <2>1. J!Reads(InText(t), "quote") = AtEnd(t) /\ J!Reads(AtEnd(t), e[i]) = AtEnd(t)
    BY ReadsAre
  <2>2. CASE i = 1
    BY <1>1, <2>1, <2>2
  <2>3. CASE i # 1
    <3>1. i - 1 \in 1 .. Len(e)
      BY <2>3
    <3> QED
      BY <1>1, <2>1, <3>1
  <2> QED
    BY <2>2, <2>3
<1> QED
  BY <1>1, <1>2, ReadsOn

\* ... and what follows is nothing to it.
LEMMA EndStays ==
    ASSUME NEW b \in Seq(J!Chars), NEW t, ReadAs(b, AtEnd(t)), Len(b) >= 6, NEW e \in Seq(J!Chars)
    PROVE  ReadAs(b \o e, AtEnd(t))
<1> DEFINE q == [i \in 0 .. Len(e) |-> AtEnd(t)]
<1>1. /\ q[0] = AtEnd(t) /\ q[Len(e)] = AtEnd(t)
      /\ \A i \in 1 .. Len(e) : q[i] = AtEnd(t) /\ q[i - 1] = AtEnd(t)
  OBVIOUS
<1> HIDE DEF q
<1>2. \A i \in 1 .. Len(e) : J!Reads(AtEnd(t), e[i]) = AtEnd(t)
  BY ReadsAre
<1>3. \A i \in 1 .. Len(e) : q[i] = J!Reads(q[i - 1], e[i])
  BY <1>1, <1>2
<1> QED
  BY <1>1, <1>3, ReadsOn

\* The inductive invariant of the reader: it has got the message so far.
ReadInv ==
    /\ building = "empty" => buffer = << >> /\ message = << >>
    /\ building = "message" => ReadAs(buffer, InText(message)) /\ Len(buffer) >= 6
    /\ building \in {"token", "sent"} => ReadAs(buffer, AtEnd(message)) /\ Len(buffer) >= 6

LEMMA ReadStep ==
    ASSUME J!ParametersOK, BufferInv, ReadInv, [J!Next]_(J!vars)
    PROVE  ReadInv'
<1> USE DEF BufferInv
<1>1. CASE J!open
  <2>1. buffer' = << >> \o J!Opening /\ building' = "message" /\ message' = << >>
    BY <1>1 DEF J!open, J!json_buffer_append, ReadInv
  <2>2. J!Opening \in Seq(J!Chars) /\ Len(J!Opening) = 6
    BY CharsHave DEF J!Opening
  <2>3. buffer' = J!Opening
    BY <2>1, <2>2
  <2> DEFINE g == [i \in Len(J!Opening) .. Len(J!Opening) |-> InText(<< >>)]
  <2>4. Reading(g, J!Opening)
    BY DEF Reading, InText
  <2>5. ReadAs(J!Opening, InText(<< >>))
    BY <2>2, <2>4 DEF ReadAs
  <2>6. ReadAs(buffer', InText(message'))
    BY <2>1, <2>3, <2>5, Zenon
  <2>7. Len(buffer') = 6
    BY <2>2, <2>3, Zenon
  <2>8. building' = "message"
    BY <2>1
  <2> QED
    BY <2>6, <2>7, <2>8 DEF ReadInv
<1>2. ASSUME NEW c \in J!Chars, J!escape(c) PROVE ReadInv'
  <2>1. /\ buffer' = buffer \o J!Escaped(c) /\ building' = "message"
        /\ message' = Append(message, c)
        /\ ReadAs(buffer, InText(message)) /\ Len(buffer) >= 6
    BY <1>2 DEF J!escape, J!json_buffer_append, ReadInv
  <2>2. J!Escaped(c) \in Seq(J!Chars)
    BY EscapedIs
  <2>3. Len(buffer') >= 6
    BY <2>1, <2>2, JoinedAt
  <2>4. ReadAs(buffer', InText(message'))
    BY <2>1, EscapedReads
  <2> QED
    BY <2>1, <2>3, <2>4 DEF ReadInv
<1>3. CASE J!key
  <2> DEFINE e == <<"quote", "comma">> \o J!TokenKey
  <2>1. /\ buffer' = buffer \o e /\ building' = "token" /\ message' = message
        /\ ReadAs(buffer, InText(message)) /\ Len(buffer) >= 6
    BY <1>3 DEF J!key, J!json_buffer_append, ReadInv
  <2>2. e \in Seq(J!Chars) /\ Len(e) >= 1 /\ e[1] = "quote"
    <3> DEFINE s == <<"quote", "comma">>
    <3>1. s \in Seq(J!Chars) /\ J!TokenKey \in Seq(J!Chars) /\ Len(s) = 2 /\ s[1] = "quote"
      BY CharsHave DEF J!TokenKey
    <3> HIDE DEF s
    <3>2. /\ s \o J!TokenKey \in Seq(J!Chars) /\ Len(s \o J!TokenKey) = Len(s) + Len(J!TokenKey)
          /\ Len(J!TokenKey) \in Nat /\ \A i \in 1 .. Len(s) : (s \o J!TokenKey)[i] = s[i]
      BY <3>1, JoinedAt
    <3>3. /\ s \o J!TokenKey \in Seq(J!Chars) /\ Len(s \o J!TokenKey) >= 1
          /\ (s \o J!TokenKey)[1] = "quote"
      BY <3>1, <3>2
    <3> QED
      BY <3>3 DEF s
  <2> HIDE DEF e
  <2>3. Len(buffer') >= 6
    BY <2>1, <2>2, JoinedAt
  <2>4. ReadAs(buffer', AtEnd(message'))
    BY <2>1, <2>2, QuoteEnds
  <2> QED
    BY <2>1, <2>3, <2>4 DEF ReadInv
<1>4. CASE J!close
  <2> DEFINE e == J!Token \o J!Ending
  <2>1. /\ buffer' = buffer \o e /\ building' = "sent" /\ message' = message
        /\ ReadAs(buffer, AtEnd(message)) /\ Len(buffer) >= 6
    BY <1>4 DEF J!close, J!json_buffer_append, ReadInv
  <2>2. e \in Seq(J!Chars)
    BY AppendedIsText
  <2> HIDE DEF e
  <2>3. Len(buffer') >= 6
    BY <2>1, <2>2, JoinedAt
  <2>4. ReadAs(buffer', AtEnd(message'))
    BY <2>1, <2>2, EndStays
  <2> QED
    BY <2>1, <2>3, <2>4 DEF ReadInv
<1>5. CASE J!out_of_memory
  BY <1>5 DEF J!out_of_memory, ReadInv
<1>6. CASE UNCHANGED J!vars
  BY <1>6 DEF J!vars, ReadInv
<1> QED
  BY <1>1, <1>2, <1>3, <1>4, <1>5, <1>6 DEF J!Next

\* The message of an answer reads back.
LEMMA ReadAlways == ASSUME J!ParametersOK PROVE J!Spec => [](BufferInv /\ ReadInv)
<1>1. J!Init => ReadInv
  BY DEF J!Init, ReadInv
<1>2. BufferInv /\ ReadInv /\ [J!Next]_(J!vars) => ReadInv'
  BY ReadStep
<1> QED
  BY <1>1, <1>2, BufferAlways, PTL DEF J!Spec

\* AnswerIsUnderstood: for messages of every length and content, and whatever
\* capacity the buffer starts with, an answer fits the buffer that json_utils.c
\* doubles for it, a JSON reader gets the message back, and the search of
\* transfer.c finds the token.
THEOREM AnswersAreUnderstood == J!Spec => []AnswerIsUnderstood
<1>1. J!ParametersOK
  BY ParametersAssumption
<1>2. ASSUME BufferInv, ReadInv PROVE J!MessageReadsBack
  <2> SUFFICES ASSUME building \in {"token", "sent"}
               PROVE  J!reader[Len(buffer)].mode = "end" /\ J!reader[Len(buffer)].text = message
    BY DEF J!MessageReadsBack
  <2>1. ReadAs(buffer, AtEnd(message)) /\ buffer \in Seq(J!Chars)
    BY <1>2 DEF ReadInv, BufferInv
  <2>2. J!reader[Len(buffer)] = AtEnd(message)
    BY <2>1, ReaderReads
  <2> QED
    BY <2>2 DEF AtEnd
<1>3. BufferInv /\ ReadInv /\ J!TokenIsFound => AnswerIsUnderstood
  BY <1>2 DEF BufferInv, AnswerIsUnderstood, J!AnswerIsUnderstood
<1> QED
  BY <1>1, <1>3, ReadAlways, TokensAreFound, PTL
-----------------------------------------------------------------------------
(* The run.                                                                *)

\* What is proved of the parts holds of the specification that TLC checks, in which
\* a behaviour exercises one of them: to each part the others' steps are stutters.
LEMMA ReceiveParts == ReceiveSpec => Spec /\ C!Spec /\ J!Spec /\ F!Spec
<1>1. ReceiveInit => Init /\ C!Init /\ J!Init /\ F!Init
  BY DEF ReceiveInit
<1>2. [ReceiveNext]_<<about, vars, fieldVars, answerVars, nameVars>>
        => [Next]_vars /\ [C!Next]_(C!vars) /\ [J!Next]_(J!vars) /\ [F!Next]_(F!vars)
  BY DEF ReceiveNext, fieldVars, answerVars, nameVars, C!vars, J!vars, F!vars
<1> QED
  BY <1>1, <1>2, PTL DEF ReceiveSpec, Spec, C!Spec, J!Spec, F!Spec
===============================================================================
