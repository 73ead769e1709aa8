-------------------------- MODULE AttemptLogProofs --------------------------
(***************************************************************************)
(* The live view neither repeats nor reorders output, and as long as the   *)
(* file is not rotated it is exactly what lies before the cursor, to the   *)
(* end of the stream: for any cap, any sizes of records, any number of     *)
(* them and of lost connections.                                           *)
(***************************************************************************)
EXTENDS AttemptLog, FiniteSetTheorems, SequenceTheorems, TLAPS

-----------------------------------------------------------------------------
(* Places in a file *)

\* A set of numbers that goes down to one is counted by its largest.
LEMMA Downward ==
  ASSUME NEW n \in Nat, NEW S \in SUBSET (1..n),
         \A j \in S : \A i \in 1..j : i \in S
  PROVE  Cardinality(S) \in 0..n /\ S = 1..Cardinality(S)
<1>1. IsFiniteSet(1..n) /\ Cardinality(1..n) = n
  <2>1. 1 \in Int /\ n \in Int /\ (1 > n => n = 0)
    OBVIOUS
  <2>2. IsFiniteSet(1..n) /\ Cardinality(1..n) = IF 1 > n THEN 0 ELSE n - 1 + 1
    BY ONLY <2>1, FS_Interval
  <2>. QED  BY <2>1, <2>2
<1>2. IsFiniteSet(S) /\ Cardinality(S) <= n /\ Cardinality(S) \in Nat
  <2>1. S \in SUBSET (1..n)
    OBVIOUS
  <2>2. IsFiniteSet(S) /\ Cardinality(S) <= Cardinality(1..n)
    BY ONLY <1>1, <2>1, FS_Subset
  <2>. QED  BY ONLY <1>1, <2>2, FS_CardinalityType
<1>. DEFINE k == Cardinality(S)
<1>3. \A m \in Nat : IsFiniteSet(1..m) /\ Cardinality(1..m) = m
  BY FS_Interval
<1>4. \A j \in S : j <= k
  <2>. SUFFICES ASSUME NEW j \in S, j > k PROVE FALSE
    BY <1>2
  <2>1. 1..(k + 1) \subseteq S
    BY <1>2
  <2>2. Cardinality(1..(k + 1)) = k + 1
    BY <1>2, <1>3
  <2>. QED  BY <1>2, <2>1, <2>2, FS_Subset
<1>5. k # 0 => k \in S
  <2>. SUFFICES ASSUME k # 0, k \notin S PROVE FALSE
    OBVIOUS
  <2>1. S \subseteq 1..(k - 1)
    BY <1>2, <1>4
  <2>a. k - 1 \in Nat
    BY <1>2
  <2>2. IsFiniteSet(1..(k - 1)) /\ Cardinality(1..(k - 1)) = k - 1
    BY <2>a, <1>3
  <2>3. Cardinality(S) <= Cardinality(1..(k - 1))
    BY <2>1, <2>2, FS_Subset
  <2>4. k <= k - 1
    BY <2>2, <2>3
  <2>. QED  BY <1>2, <2>4
<1>6. k \in 0..n
  BY <1>2
<1>7. S = 1..k
  <2>1. ASSUME NEW j \in S PROVE j \in 1..k
    BY <1>4
  <2>2. ASSUME NEW j \in 1..k PROVE j \in S
    <3>1. k \in S
      BY <1>2, <1>5
    <3>. QED  BY <3>1
  <2>. QED  BY <2>1, <2>2
<1>. QED  BY <1>6, <1>7

\* The records of a file are in the order of their writing and of their places.
Increasing(file) ==
    \A i, j \in DOMAIN file :
        i < j => file[i].line < file[j].line /\ file[i].end < file[j].end

LEMMA RecordAt ==
  ASSUME NEW file \in Seq(Record), NEW i \in 1..Len(file)
  PROVE  file[i] \in Record /\ file[i].end \in 1..Cap /\ file[i].line \in 0..MaxLines
<1>1. file[i] \in Record
  BY ElementOfSeq
<1>. QED  BY <1>1 DEF Record

\* The records that start in front of a place are the first ones.
LEMMA SkippedAreFirst ==
  ASSUME NEW file \in Seq(Record), Increasing(file), NEW place \in Int
  PROVE  /\ Skipped(file, place) \in 0..Len(file)
         /\ \A i \in 1..Len(file) :
                StartOf(file, i) < place <=> i <= Skipped(file, place)
<1>. DEFINE S == {i \in DOMAIN file : StartOf(file, i) < place}
<1>1. Len(file) \in Nat /\ DOMAIN file = 1..Len(file)
  OBVIOUS
<1>2. \A i \in 1..Len(file) : file[i].end \in Nat \ {0}
  BY LogAssumption, RecordAt
<1>3. \A i, j \in 1..Len(file) : i <= j => StartOf(file, i) <= StartOf(file, j)
  <2>. SUFFICES ASSUME NEW i \in 1..Len(file), NEW j \in 1..Len(file), i <= j
                PROVE  StartOf(file, i) <= StartOf(file, j)
    OBVIOUS
  <2>1. CASE i = 1
    <3>1. j # 1 => j - 1 \in 1..Len(file)
      OBVIOUS
    <3>. QED  BY <1>2, <2>1, <3>1 DEF StartOf
  <2>2. CASE i # 1
    <3>1. i - 1 \in 1..Len(file) /\ j - 1 \in 1..Len(file) /\ j # 1
      BY <2>2
    <3>2. i = j \/ (i - 1 < j - 1)
      OBVIOUS
    <3>3. CASE i = j
      BY <1>2, <2>2, <3>1, <3>3 DEF StartOf
    <3>4. CASE i - 1 < j - 1
      <4>1. file[i - 1].end < file[j - 1].end
        BY <1>1, <3>1, <3>4 DEF Increasing
      <4>2. file[i - 1].end \in Nat /\ file[j - 1].end \in Nat
        BY <1>2, <3>1
      <4>. QED  BY <2>2, <3>1, <4>1, <4>2 DEF StartOf
    <3>. QED  BY <3>2, <3>3, <3>4
  <2>. QED  BY <2>1, <2>2
<1>4. \A i \in 1..Len(file) : StartOf(file, i) \in Nat
  BY <1>1, <1>2 DEF StartOf
<1>5. \A j \in S : \A i \in 1..j : i \in S
  BY <1>1, <1>3, <1>4
<1>6. Cardinality(S) \in 0..Len(file) /\ S = 1..Cardinality(S)
  BY <1>1, <1>5, Downward
<1>. QED  BY <1>1, <1>6 DEF Skipped

\* A rotation drops some records, moves the rest forward behind the marker, and
\* leaves room for the new record.
LEMMA RetainedMoves ==
  ASSUME NEW file \in Seq(Record), Increasing(file), NEW size \in Sizes,
         SizeOf(file) + size > Cap
  PROVE  \E gone \in 1..Len(file) :
           /\ Retained(file, size) \in Seq(Record)
           /\ Len(Retained(file, size)) = Len(file) - gone + 1
           /\ Retained(file, size)[1] = [line |-> 0, end |-> Marker]
           /\ \A i \in 2..(Len(file) - gone + 1) :
                /\ Retained(file, size)[i].line = file[gone + i - 1].line
                /\ Retained(file, size)[i].end < file[gone + i - 1].end
           /\ Increasing(Retained(file, size))
           /\ SizeOf(Retained(file, size)) + size <= Cap
<1>. DEFINE cut  == SizeOf(file) - (Cap - size - Marker)
            gone == Skipped(file, cut + 1)
            kept == [i \in 1..(Len(file) - gone) |->
                        [line |-> file[gone + i].line,
                         end  |-> (file[gone + i].end - file[gone].end) + Marker]]
            marker == [line |-> 0, end |-> Marker]
            new == Retained(file, size)
<1>1. /\ Cap \in Nat /\ Marker \in Nat \ {0} /\ size \in Nat \ {0}
      /\ size + Marker < Cap /\ MaxLines \in Nat
  BY LogAssumption
<1>2. Len(file) \in Nat /\ DOMAIN file = 1..Len(file)
  OBVIOUS
<1>3. \A i \in 1..Len(file) : file[i] \in Record /\ file[i].end \in 1..Cap /\ file[i].line \in 0..MaxLines
  BY RecordAt
<1>4. file # <<>> /\ Len(file) >= 1 /\ SizeOf(file) = file[Len(file)].end
  BY <1>1, <1>2 DEF SizeOf
<1>5. cut \in Nat /\ cut > Marker
  BY <1>1, <1>3, <1>4
<1>6. /\ gone \in 0..Len(file)
      /\ \A i \in 1..Len(file) : StartOf(file, i) < cut + 1 <=> i <= gone
  <2>. cut + 1 \in Int
    BY <1>5
  <2>. QED  BY SkippedAreFirst
<1>. HIDE DEF gone
<1>7. gone >= 1
  <2>1. StartOf(file, 1) = 0
    BY DEF StartOf
  <2>. QED  BY <1>4, <1>5, <1>6, <2>1
<1>a. gone \in Nat /\ Len(file) \in Nat /\ gone <= Len(file) /\ gone >= 1
  BY <1>2, <1>6, <1>7
<1>8. gone < Len(file) => file[gone].end > cut
  <2>. SUFFICES ASSUME gone < Len(file) PROVE file[gone].end > cut
    OBVIOUS
  <2>1. gone + 1 \in 1..Len(file) /\ gone \in 1..Len(file)
    BY <1>6, <1>7
  <2>2. StartOf(file, gone + 1) = file[gone].end
    BY <2>1 DEF StartOf
  <2>. QED  BY <1>3, <1>5, <1>6, <2>1, <2>2
<1>9. \A i \in 1..(Len(file) - gone) :
        /\ gone + i \in 1..Len(file) /\ gone \in 1..Len(file) /\ gone < gone + i
        /\ file[gone].end < file[gone + i].end /\ file[gone].end > cut
        /\ file[gone].line < file[gone + i].line
  BY <1>2, <1>6, <1>7, <1>8 DEF Increasing
<1>10. \A i \in 1..(Len(file) - gone) :
         kept[i].end \in Nat /\ kept[i].end > Marker /\ kept[i].end < file[gone + i].end
  <2>. SUFFICES ASSUME NEW i \in 1..(Len(file) - gone)
                PROVE  kept[i].end \in Nat /\ kept[i].end > Marker /\ kept[i].end < file[gone + i].end
    OBVIOUS
  <2>1. kept[i].end = (file[gone + i].end - file[gone].end) + Marker
    OBVIOUS
  <2>2. file[gone + i].end \in Nat /\ file[gone].end \in Nat
    BY <1>1, <1>3, <1>9
  <2>3. file[gone].end < file[gone + i].end /\ file[gone].end > Marker
    <3>1. file[gone].end < file[gone + i].end /\ file[gone].end > cut
      BY <1>9
    <3>. HIDE DEF cut, kept
    <3>. QED  BY <1>1, <1>5, <2>2, <3>1
  <2>4. LET e == (file[gone + i].end - file[gone].end) + Marker
        IN  e \in Nat /\ e > Marker /\ e < file[gone + i].end
    <3>1. \A a, b, m \in Nat : b < a /\ b > m =>
             (a - b) + m \in Nat /\ (m < a /\ a - b > 0 => (a - b) + m > m /\ (a - b) + m < a)
      OBVIOUS
    <3>2. \A a, b, m \in Nat : b < a /\ b > m => m < a /\ a - b > 0
      OBVIOUS
    <3>3. Marker \in Nat
      BY <1>1
    <3>. QED  BY ONLY <2>2, <2>3, <3>1, <3>2, <3>3
  <2>. HIDE DEF kept
  <2>. QED  BY <2>1, <2>4
<1>11. \A i \in 1..(Len(file) - gone) : kept[i] \in Record /\ kept[i].line > 0
  <2>. SUFFICES ASSUME NEW i \in 1..(Len(file) - gone)
                PROVE  kept[i] \in Record /\ kept[i].line > 0
    OBVIOUS
  <2>1. kept[i].line = file[gone + i].line
    OBVIOUS
  <2>2. kept[i].line \in 0..MaxLines /\ kept[i].line > 0
    <3>1. file[gone + i].line \in 0..MaxLines /\ file[gone].line \in 0..MaxLines
      BY <1>3, <1>9
    <3>2. file[gone].line < file[gone + i].line
      BY <1>9
    <3>. QED  BY <1>1, <2>1, <3>1, <3>2
  <2>3. kept[i].end \in 1..Cap
    <3>1. /\ kept[i].end \in Nat /\ kept[i].end > Marker
          /\ kept[i].end < file[gone + i].end
      BY ONLY <1>10, i \in 1..(Len(file) - gone)
    <3>2. file[gone + i].end \in 1..Cap
      BY <1>3, <1>9
    <3>. HIDE DEF kept
    <3>. QED  BY <1>1, <3>1, <3>2
  <2>. QED  BY <2>2, <2>3 DEF Record
<1>12. marker \in Record
  BY <1>1 DEF Record
<1>13. kept \in Seq(Record) /\ Len(kept) = Len(file) - gone
  <2>1. Len(file) - gone \in Nat
    BY <1>2, <1>6
  <2>. QED  BY <1>11, <2>1, IsASeq
<1>14. new = <<marker>> \o kept
  BY DEF Retained, gone
<1>. HIDE DEF kept, new
<1>15. <<marker>> \in Seq(Record) /\ Len(<<marker>>) = 1 /\ <<marker>>[1] = marker
  BY <1>12
<1>16. /\ new \in Seq(Record) /\ Len(new) = Len(file) - gone + 1
       /\ new[1] = marker
       /\ \A i \in 2..(Len(file) - gone + 1) : new[i] = kept[i - 1]
  <2>1. new \in Seq(Record) /\ Len(new) = 1 + Len(kept)
        /\ \A i \in 1..Len(new) : new[i] = IF i <= 1 THEN <<marker>>[i] ELSE kept[i - 1]
    BY <1>13, <1>14, <1>15, ConcatProperties
  <2>. QED  BY <1>2, <1>6, <1>13, <1>15, <2>1
<1>17. \A i \in 2..(Len(file) - gone + 1) :
         /\ i - 1 \in 1..(Len(file) - gone) /\ gone + (i - 1) = gone + i - 1
         /\ new[i].line = file[gone + i - 1].line
         /\ new[i].end = (file[gone + i - 1].end - file[gone].end) + Marker
         /\ new[i].end < file[gone + i - 1].end
  <2>. SUFFICES ASSUME NEW i \in 2..(Len(file) - gone + 1)
                PROVE  /\ i - 1 \in 1..(Len(file) - gone) /\ gone + (i - 1) = gone + i - 1
                       /\ new[i].line = file[gone + i - 1].line
                       /\ new[i].end = (file[gone + i - 1].end - file[gone].end) + Marker
                       /\ new[i].end < file[gone + i - 1].end
    OBVIOUS
  <2>1. i - 1 \in 1..(Len(file) - gone) /\ gone + (i - 1) = gone + i - 1
    BY <1>a
  <2>2. new[i] = kept[i - 1]
    BY <1>16
  <2>3. /\ kept[i - 1].line = file[gone + (i - 1)].line
        /\ kept[i - 1].end = (file[gone + (i - 1)].end - file[gone].end) + Marker
    BY <2>1 DEF kept
  <2>4. kept[i - 1].end < file[gone + (i - 1)].end
    BY <1>10, <2>1
  <2>. QED  BY <2>1, <2>2, <2>3, <2>4
<1>18. Increasing(new)
  <2>. SUFFICES ASSUME NEW i \in 1..(Len(file) - gone + 1), NEW j \in 1..(Len(file) - gone + 1), i < j
                PROVE  new[i].line < new[j].line /\ new[i].end < new[j].end
    BY <1>16 DEF Increasing
  <2>1. j \in 2..(Len(file) - gone + 1) /\ j - 1 \in 1..(Len(file) - gone)
    BY <1>2, <1>6
  <2>2. CASE i = 1
    <3>1. new[i].line = 0 /\ new[i].end = Marker /\ new[j] = kept[j - 1]
      BY <1>16, <2>1, <2>2
    <3>2. kept[j - 1].line > 0 /\ kept[j - 1].end > Marker
      BY <1>10, <1>11, <2>1
    <3>. QED  BY <1>1, <3>1, <3>2
  <2>3. CASE i # 1
    <3>1. i \in 2..(Len(file) - gone + 1)
      BY <1>2, <1>6, <2>3
    <3>2. gone + i - 1 \in 1..Len(file) /\ gone + j - 1 \in 1..Len(file) /\ gone + i - 1 < gone + j - 1
      BY <1>2, <1>6, <2>1, <3>1
    <3>3. /\ file[gone + i - 1].line < file[gone + j - 1].line
          /\ file[gone + i - 1].end < file[gone + j - 1].end
      BY <1>2, <3>2 DEF Increasing
    <3>4. /\ new[i].line = file[gone + i - 1].line /\ new[j].line = file[gone + j - 1].line
          /\ new[i].end = (file[gone + i - 1].end - file[gone].end) + Marker
          /\ new[j].end = (file[gone + j - 1].end - file[gone].end) + Marker
      BY <1>17, <2>1, <3>1
    <3>5. gone \in 1..Len(file)
      BY <1>a
    <3>6. file[gone + i - 1].end \in Nat /\ file[gone + j - 1].end \in Nat /\ file[gone].end \in Nat
      <4>1. /\ file[gone + i - 1].end \in 1..Cap /\ file[gone + j - 1].end \in 1..Cap
            /\ file[gone].end \in 1..Cap
        BY ONLY <1>3, <3>2, <3>5
      <4>2. \A x \in 1..Cap : x \in Nat
        OBVIOUS
      <4>. QED  BY ONLY <4>1, <4>2
    <3>7. (file[gone + i - 1].end - file[gone].end) + Marker
            < (file[gone + j - 1].end - file[gone].end) + Marker
      <4>1. \A a, b, c \in Nat : a < b => (a - c) + Marker < (b - c) + Marker
        BY <1>1
      <4>. QED  BY <3>3, <3>6, <4>1
    <3>8. new[i].line < new[j].line
      BY <3>3, <3>4
    <3>9. new[i].end < new[j].end
      BY <3>4, <3>7
    <3>. QED  BY <3>8, <3>9
  <2>. QED  BY <2>2, <2>3
<1>19. SizeOf(new) + size <= Cap
  <2>1. new # <<>> /\ SizeOf(new) = new[Len(file) - gone + 1].end
    BY <1>2, <1>6, <1>16 DEF SizeOf
  <2>2. CASE gone = Len(file)
    BY <1>1, <1>2, <1>16, <2>1, <2>2
  <2>3. CASE gone # Len(file)
    <3>1. /\ Len(file) - gone + 1 \in 2..(Len(file) - gone + 1)
          /\ gone + (Len(file) - gone + 1) - 1 = Len(file)
      BY <1>a, <2>3
    <3>2. new[Len(file) - gone + 1].end = (file[Len(file)].end - file[gone].end) + Marker
      BY <1>17, <3>1
    <3>3. file[gone].end > cut /\ file[gone].end \in Nat /\ file[Len(file)].end \in Nat
      <4>1. gone < Len(file) /\ gone \in 1..Len(file) /\ Len(file) \in 1..Len(file)
        BY <1>a, <2>3
      <4>. QED  BY <1>1, <1>3, <1>8, <4>1
    <3>. QED  BY <1>1, <1>4, <2>1, <3>2, <3>3
  <2>. QED  BY <2>2, <2>3
<1>20. gone \in 1..Len(file)
  BY <1>2, <1>6, <1>7
<1>. QED  BY <1>16, <1>17, <1>18, <1>19, <1>20 DEF new

-----------------------------------------------------------------------------
(* The file under a write *)

LEMMA AddedIs ==
  ASSUME NEW file \in Seq(Record), Increasing(file), NEW size \in Sizes,
         SizeOf(file) + size <= Cap, written \in Nat, written < MaxLines,
         \A i \in 1..Len(file) : file[i].line <= written
  PROVE  /\ Added(file, size) \in Seq(Record) /\ Increasing(Added(file, size))
         /\ Len(Added(file, size)) = Len(file) + 1
         /\ \A i \in 1..Len(file) : Added(file, size)[i] = file[i]
         /\ Added(file, size)[Len(file) + 1].line = written + 1
<1>. DEFINE new == Added(file, size)
            last == [line |-> written + 1, end |-> SizeOf(file) + size]
<1>1. Cap \in Nat /\ size \in Nat \ {0} /\ MaxLines \in Nat
  BY LogAssumption
<1>2. Len(file) \in Nat /\ DOMAIN file = 1..Len(file)
  OBVIOUS
<1>3. SizeOf(file) \in Nat /\ \A i \in 1..Len(file) : file[i].end \in Nat /\ file[i].end <= SizeOf(file)
  <2>1. \A i \in 1..Len(file) : file[i].end \in Nat
    BY <1>1, RecordAt
  <2>2. CASE file = <<>>
    BY <1>1, <2>2 DEF SizeOf
  <2>3. CASE file # <<>>
    <3>1. Len(file) \in 1..Len(file) /\ SizeOf(file) = file[Len(file)].end
      BY <2>3 DEF SizeOf
    <3>2. \A i \in 1..Len(file) : i = Len(file) \/ file[i].end < file[Len(file)].end
      <4>. SUFFICES ASSUME NEW i \in 1..Len(file), i # Len(file)
                    PROVE  file[i].end < file[Len(file)].end
        OBVIOUS
      <4>1. i < Len(file)
        <5>1. \A m \in Nat : \A k \in 1..m : k # m => k < m
          OBVIOUS
        <5>. QED  BY <1>2, <5>1
      <4>. QED  BY <1>2, <3>1, <4>1 DEF Increasing
    <3>. QED  BY <2>1, <3>1, <3>2
  <2>. QED  BY <2>2, <2>3
<1>4. last \in Record
  <2>1. written + 1 \in 0..MaxLines /\ SizeOf(file) + size \in 1..Cap
    BY <1>1, <1>3
  <2>. QED  BY <2>1 DEF Record
<1>. HIDE DEF last
<1>5. /\ new \in Seq(Record) /\ Len(new) = Len(file) + 1
      /\ \A i \in 1..Len(file) : new[i] = file[i]
      /\ new[Len(file) + 1] = last
  BY <1>4, AppendProperties DEF Added, last
<1>6. last.line = written + 1 /\ last.end = SizeOf(file) + size
  BY DEF last
<1>7. Increasing(new)
  <2>. SUFFICES ASSUME NEW i \in 1..(Len(file) + 1), NEW j \in 1..(Len(file) + 1), i < j
                PROVE  new[i].line < new[j].line /\ new[i].end < new[j].end
    BY <1>5 DEF Increasing
  <2>0. i \in 1..Len(file) /\ new[i] = file[i]
    BY <1>2, <1>5
  <2>1. CASE j \in 1..Len(file)
    BY <1>2, <1>5, <2>0, <2>1 DEF Increasing
  <2>2. CASE j = Len(file) + 1
    <3>1. file[i].line \in Nat /\ file[i].line <= written /\ file[i].end \in Nat /\ file[i].end <= SizeOf(file)
      BY <1>1, <1>3, <2>0, RecordAt
    <3>2. new[j].line = written + 1 /\ new[j].end = SizeOf(file) + size
      BY <1>5, <1>6, <2>2
    <3>. QED  BY <1>1, <1>3, <2>0, <3>1, <3>2
  <2>. QED  BY <1>2, <2>1, <2>2
<1>. QED  BY <1>5, <1>6, <1>7

\* No record has a number that was not given yet.
Numbered == \A i \in 1..Len(log) : log[i].line <= written

\* Whatever is written, a record stays where it is or moves forward, and the new one
\* is behind all.
LEMMA WriteIs ==
  ASSUME TypeOK, Numbered, NEW size \in Sizes, Write(size)
  PROVE  /\ log' \in Seq(Record) /\ Increasing(log') /\ Numbered'
         /\ written' = written + 1 /\ written' \in 0..MaxLines
         /\ \A i \in 1..Len(log') :
                \/ log'[i].line = 0
                \/ log'[i].line = written + 1
                \/ \E j \in 1..Len(log) : /\ log'[i].line = log[j].line
                                          /\ log'[i].end <= log[j].end
         /\ ~rotated' => /\ ~rotated /\ Len(log') = Len(log) + 1
                         /\ \A i \in 1..Len(log) : log'[i] = log[i]
                         /\ log'[Len(log) + 1].line = written + 1
         /\ rotated' \in BOOLEAN
<1>. DEFINE fits == SizeOf(log) + size <= Cap
            file == IF fits THEN log ELSE Retained(log, size)
<1>0. /\ Cap \in Nat /\ Marker \in Nat \ {0} /\ size \in Nat \ {0} /\ MaxLines \in Nat
      /\ size + Marker < Cap
  BY LogAssumption
<1>1. log \in Seq(Record) /\ Increasing(log) /\ written \in Nat /\ written < MaxLines
      /\ rotated \in BOOLEAN
  BY <1>0 DEF TypeOK, Increasing, Write
<1>2. Len(log) \in Nat
  BY <1>1
<1>3. written' = written + 1 /\ written' \in 0..MaxLines
  BY <1>0, <1>1 DEF Write
<1>4. log' = Added(file, size) /\ rotated' = (rotated \/ ~fits)
  BY DEF Write
<1>4a. \A i \in 1..Len(log) : log[i].line \in Nat /\ log[i].end \in Nat
  BY <1>0, <1>1, RecordAt
<1>5. /\ file \in Seq(Record) /\ Increasing(file) /\ SizeOf(file) + size <= Cap
      /\ \A i \in 1..Len(file) :
            \/ file[i].line = 0
            \/ \E j \in 1..Len(log) : file[i].line = log[j].line /\ file[i].end <= log[j].end
  <2>1. CASE fits
    <3>1. \A i \in 1..Len(log) : log[i].end <= log[i].end
      BY <1>4a
    <3>. QED  BY <1>1, <2>1, <3>1
  <2>2. CASE ~fits
    <3>0. SizeOf(log) \in Nat
      BY <1>1, <1>2, <1>4a DEF SizeOf
    <3>1. SizeOf(log) + size > Cap
      BY <1>0, <2>2, <3>0
    <3>2. PICK gone \in 1..Len(log) :
           /\ Retained(log, size) \in Seq(Record)
           /\ Len(Retained(log, size)) = Len(log) - gone + 1
           /\ Retained(log, size)[1] = [line |-> 0, end |-> Marker]
           /\ \A i \in 2..(Len(log) - gone + 1) :
                /\ Retained(log, size)[i].line = log[gone + i - 1].line
                /\ Retained(log, size)[i].end < log[gone + i - 1].end
           /\ Increasing(Retained(log, size))
           /\ SizeOf(Retained(log, size)) + size <= Cap
      BY <1>1, <3>1, RetainedMoves
    <3>3. file = Retained(log, size)
      BY <2>2
    <3>. HIDE DEF file
    <3>4. ASSUME NEW i \in 1..Len(file)
          PROVE  \/ file[i].line = 0
                 \/ \E j \in 1..Len(log) : file[i].line = log[j].line /\ file[i].end <= log[j].end
      <4>1. CASE i = 1
        BY <3>2, <3>3, <4>1
      <4>2. CASE i # 1
        <5>1. i \in 2..(Len(log) - gone + 1) /\ gone + i - 1 \in 1..Len(log)
          BY <1>2, <3>2, <3>3, <4>2
        <5>2. file[i].line = log[gone + i - 1].line /\ file[i].end < log[gone + i - 1].end
          BY <3>2, <3>3, <5>1
        <5>3. file[i].end \in Nat
          BY <1>0, <3>2, <3>3, RecordAt
        <5>4. file[i].end <= log[gone + i - 1].end
          BY <1>4a, <5>1, <5>2, <5>3
        <5>. QED  BY <5>1, <5>2, <5>4
      <4>. QED  BY <4>1, <4>2
    <3>. QED  BY <3>2, <3>3, <3>4
  <2>. QED  BY <2>1, <2>2
<1>6. fits => file = log
  OBVIOUS
<1>. HIDE DEF file
<1>7. \A i \in 1..Len(file) : file[i].line <= written
  BY <1>1, <1>4a, <1>5 DEF Numbered
<1>8. /\ log' \in Seq(Record) /\ Increasing(log') /\ Len(log') = Len(file) + 1
      /\ \A i \in 1..Len(file) : log'[i] = file[i]
      /\ log'[Len(file) + 1].line = written + 1
  BY <1>1, <1>4, <1>5, <1>7, AddedIs
<1>9. Len(file) \in Nat
  BY <1>5
<1>10. \A i \in 1..Len(log') : i \in 1..Len(file) \/ i = Len(file) + 1
  BY <1>8, <1>9
<1>11. \A i \in 1..Len(log') :
         \/ log'[i].line = 0
         \/ log'[i].line = written + 1
         \/ \E j \in 1..Len(log) : log'[i].line = log[j].line /\ log'[i].end <= log[j].end
  BY <1>5, <1>8, <1>10
<1>12. Numbered'
  BY <1>1, <1>3, <1>4a, <1>11 DEF Numbered
<1>13. ~rotated' => fits /\ ~rotated
  BY <1>1, <1>4
<1>14. rotated' \in BOOLEAN
  BY <1>1, <1>4
<1>. HIDE DEF fits
<1>. QED  BY <1>3, <1>6, <1>8, <1>11, <1>12, <1>13, <1>14

-----------------------------------------------------------------------------
(* What is read and kept *)

FrameRecord == [kind : {"line", "truncated", "end"}, id : Nat, line : 0..MaxLines]

\* How many entries of a sequence a window hides.
Hidden(len, n) == IF len > n THEN len - n ELSE 0

LEMMA HiddenIs ==
  ASSUME NEW len \in Nat, NEW n \in Nat
  PROVE  Hidden(len, n) \in 0..len /\ len - Hidden(len, n) <= n
  BY DEF Hidden

\* A window is the end of what it shows.
LEMMA LastIs ==
  ASSUME NEW S, NEW seq \in Seq(S), NEW n \in Nat
  PROVE  /\ Last_n(seq, n) \in Seq(S)
         /\ Len(Last_n(seq, n)) = Len(seq) - Hidden(Len(seq), n)
         /\ \A i \in 1..(Len(seq) - Hidden(Len(seq), n)) :
              /\ Hidden(Len(seq), n) + i \in 1..Len(seq)
              /\ Last_n(seq, n)[i] = seq[Hidden(Len(seq), n) + i]
<1>. DEFINE m == IF Len(seq) > n THEN Len(seq) - n + 1 ELSE 1
            d == Hidden(Len(seq), n)
<1>1. Len(seq) \in Nat
  OBVIOUS
<1>2. d \in 0..Len(seq) /\ m = d + 1
  BY <1>1, HiddenIs DEF Hidden
<1>3. Last_n(seq, n) = SubSeq(seq, m, Len(seq))
  BY DEF Last_n
<1>. HIDE DEF m, d
<1>5. \A i \in m..Len(seq) : seq[i] \in S
  BY <1>1, <1>2, ElementOfSeq
<1>6. /\ SubSeq(seq, m, Len(seq)) \in Seq(S)
      /\ Len(SubSeq(seq, m, Len(seq))) = IF m <= Len(seq) THEN Len(seq) - m + 1 ELSE 0
      /\ \A i \in 1..(Len(seq) - m + 1) : SubSeq(seq, m, Len(seq))[i] = seq[m + i - 1]
  <2>1. m \in Int /\ Len(seq) \in Int
    BY <1>1, <1>2
  <2>. QED  BY <1>5, <2>1, SubSeqProperties
<1>7. Len(seq) - m + 1 = Len(seq) - d /\ Len(SubSeq(seq, m, Len(seq))) = Len(seq) - d
  BY <1>1, <1>2, <1>6
<1>8. \A i \in 1..(Len(seq) - d) : d + i \in 1..Len(seq) /\ m + i - 1 = d + i
  BY <1>1, <1>2
<1>9. \A i \in 1..(Len(seq) - d) :
        d + i \in 1..Len(seq) /\ Last_n(seq, n)[i] = seq[d + i]
  BY <1>3, <1>6, <1>7, <1>8
<1>. QED  BY <1>3, <1>6, <1>7, <1>9 DEF d

EventOf(record) ==
    IF record.line = 0 THEN Frame("truncated")
    ELSE [kind |-> "line", id |-> record.end, line |-> record.line]

LEMMA EventIs ==
  ASSUME NEW record \in Record
  PROVE  EventOf(record) \in FrameRecord
<1>1. record.line \in 0..MaxLines /\ record.end \in Nat
  BY LogAssumption DEF Record
<1>2. 0 \in 0..MaxLines
  BY LogAssumption
<1>. QED  BY <1>1, <1>2 DEF EventOf, Frame, FrameRecord

LEMMA StartIs ==
  ASSUME log \in Seq(Record)
  PROVE  SizeOf(log) \in Nat /\ \A i \in 1..Len(log) : StartOf(log, i) \in Nat
<1>1. log # <<>> => Len(log) \in 1..Len(log)
  OBVIOUS
<1>2. SizeOf(log) \in Nat
  BY <1>1, RecordAt, LogAssumption DEF SizeOf
<1>3. ASSUME NEW i \in 1..Len(log) PROVE StartOf(log, i) \in Nat
  <2>1. i # 1 => i - 1 \in 1..Len(log)
    OBVIOUS
  <2>. QED  BY <2>1, RecordAt, LogAssumption DEF StartOf
<1>. QED  BY <1>2, <1>3

\* What is read from a place: the events of the records from the first one that
\* starts there or behind it.
LEMMA LinesFromIs ==
  ASSUME log \in Seq(Record), Increasing(log), NEW from \in Nat
  PROVE  \E s \in 0..Len(log) :
           /\ \A i \in 1..Len(log) : StartOf(log, i) < from <=> i <= s
           /\ LinesFrom(from) \in Seq(FrameRecord)
           /\ Len(LinesFrom(from)) = Len(log) - s
           /\ \A k \in 1..(Len(log) - s) :
                s + k \in 1..Len(log) /\ LinesFrom(from)[k] = EventOf(log[s + k])
<1>. DEFINE s == Skipped(log, from)
            lines == [k \in 1..(Len(log) - s) |-> EventOf(log[s + k])]
<1>1. s \in 0..Len(log) /\ \A i \in 1..Len(log) : StartOf(log, i) < from <=> i <= s
  BY SkippedAreFirst
<1>2. LinesFrom(from) = lines
  BY DEF LinesFrom, EventOf
<1>. HIDE DEF s
<1>3. Len(log) \in Nat /\ Len(log) - s \in Nat
  BY <1>1
<1>4. \A k \in 1..(Len(log) - s) : s + k \in 1..Len(log)
  BY <1>1, <1>3
<1>5. \A k \in 1..(Len(log) - s) : EventOf(log[s + k]) \in FrameRecord
  BY <1>4, RecordAt, EventIs
<1>6. lines \in Seq(FrameRecord) /\ Len(lines) = Len(log) - s
  BY <1>3, <1>5, IsASeq
<1>. QED  BY <1>1, <1>2, <1>4, <1>6

\* A file in order has a marker at most in front.
LEMMA MarkerIsFirst ==
  ASSUME log \in Seq(Record), Increasing(log), NEW i \in 1..Len(log), i # 1
  PROVE  log[i].line # 0 /\ StartOf(log, i) > 0
<1>1. 1 \in 1..Len(log) /\ i - 1 \in 1..Len(log) /\ 1 < i /\ DOMAIN log = 1..Len(log)
  OBVIOUS
<1>2. log[1].line \in Nat /\ log[i].line \in Nat /\ log[i - 1].end \in 1..Cap
  <2>1. \A k \in 1..Len(log) : log[k].end \in 1..Cap /\ log[k].line \in 0..MaxLines
    BY RecordAt
  <2>. QED  BY <1>1, <2>1, LogAssumption
<1>3. log[1].line < log[i].line
  BY <1>1 DEF Increasing
<1>. QED  BY <1>2, <1>3, LogAssumption DEF StartOf

\* The last drain leaves the marker out.
LEMMA DrainedIs ==
  ASSUME log \in Seq(Record), Increasing(log), NEW from \in Nat
  PROVE  \E s \in 0..Len(log) :
           /\ \A i \in (s + 1)..Len(log) : StartOf(log, i) >= from /\ log[i].line # 0
           /\ \A i \in 1..s : StartOf(log, i) < from \/ log[i].line = 0
           /\ Lines(LinesFrom(from)) \in Seq(FrameRecord)
           /\ Len(Lines(LinesFrom(from))) = Len(log) - s
           /\ \A k \in 1..(Len(log) - s) :
                s + k \in 1..Len(log) /\ Lines(LinesFrom(from))[k] = EventOf(log[s + k])
<1>. DEFINE all == LinesFrom(from)
<1>1. PICK s \in 0..Len(log) :
           /\ \A i \in 1..Len(log) : StartOf(log, i) < from <=> i <= s
           /\ all \in Seq(FrameRecord)
           /\ Len(all) = Len(log) - s
           /\ \A k \in 1..(Len(log) - s) :
                s + k \in 1..Len(log) /\ all[k] = EventOf(log[s + k])
  BY LinesFromIs
<1>. HIDE DEF all
<1>2. Len(log) \in Nat
  OBVIOUS
<1>a. \A i \in 1..Len(log) : StartOf(log, i) \in Nat
  BY StartIs
<1>3. all # <<>> => Head(all) = all[1] /\ 1 \in 1..(Len(log) - s)
  BY <1>1, <1>2
<1>4. CASE all # <<>> /\ Head(all).line = 0
  <2>1. s + 1 \in 1..Len(log) /\ Head(all) = EventOf(log[s + 1])
    BY <1>1, <1>3, <1>4
  <2>2. log[s + 1].line = 0
    BY <1>4, <2>1 DEF EventOf
  <2>3. s = 0
    BY <1>1, <2>1, <2>2, MarkerIsFirst
  <2>4. Lines(all) = Tail(all)
    BY <1>4 DEF Lines
  <2>5. /\ Tail(all) \in Seq(FrameRecord) /\ Len(Tail(all)) = Len(all) - 1
        /\ \A k \in 1..Len(Tail(all)) : Tail(all)[k] = all[k + 1]
    BY <1>1, <1>4, HeadTailProperties
  <2>6. 1 \in 0..Len(log) /\ Len(Tail(all)) = Len(log) - 1
    BY <1>1, <1>2, <2>1, <2>3, <2>5
  <2>7. \A k \in 1..(Len(log) - 1) : 1 + k \in 1..Len(log) /\ Tail(all)[k] = EventOf(log[1 + k])
    <3>. SUFFICES ASSUME NEW k \in 1..(Len(log) - 1)
                  PROVE  1 + k \in 1..Len(log) /\ Tail(all)[k] = EventOf(log[1 + k])
      OBVIOUS
    <3>1. 1 + k \in 1..Len(log) /\ k + 1 \in 1..(Len(log) - s) /\ k + 1 = 1 + k
      BY <1>2, <2>3
    <3>2. all[k + 1] = EventOf(log[s + (k + 1)]) /\ s + (k + 1) = 1 + k
      BY <1>1, <2>3, <3>1
    <3>. QED  BY <2>5, <2>6, <3>1, <3>2
  <2>8. \A i \in 2..Len(log) : StartOf(log, i) >= from /\ log[i].line # 0
    <3>. SUFFICES ASSUME NEW i \in 2..Len(log)
                  PROVE  StartOf(log, i) >= from /\ log[i].line # 0
      OBVIOUS
    <3>1. i \in 1..Len(log) /\ i # 1 /\ ~(i <= s)
      BY <2>3
    <3>. QED  BY <1>1, <1>a, <3>1, MarkerIsFirst
  <2>9. \A i \in 1..1 : StartOf(log, i) < from \/ log[i].line = 0
    BY <2>2, <2>3
  <2>. QED  BY <2>4, <2>5, <2>6, <2>7, <2>8, <2>9 DEF all
<1>5. CASE ~(all # <<>> /\ Head(all).line = 0)
  <2>1. Lines(all) = all
    BY <1>5 DEF Lines
  <2>2. \A i \in (s + 1)..Len(log) : StartOf(log, i) >= from /\ log[i].line # 0
    <3>. SUFFICES ASSUME NEW i \in (s + 1)..Len(log)
                  PROVE  StartOf(log, i) >= from /\ log[i].line # 0
      OBVIOUS
    <3>1. i \in 1..Len(log) /\ ~(i <= s)
      BY <1>1, <1>2
    <3>2. StartOf(log, i) >= from
      BY <1>1, <1>a, <3>1
    <3>3. ASSUME log[i].line = 0 PROVE FALSE
      <4>1. i = 1 /\ s = 0
        BY <1>1, <1>2, <3>1, <3>3, MarkerIsFirst
      <4>2. 1 \in 1..(Len(log) - s) /\ all # <<>>
        BY <1>1, <1>2, <3>1, <4>1
      <4>3. Head(all) = EventOf(log[1])
        BY <1>1, <1>3, <4>1, <4>2
      <4>4. Head(all).line = 0
        BY <3>3, <4>1, <4>3 DEF EventOf, Frame
      <4>. QED  BY <1>5, <4>2, <4>4
    <3>. QED  BY <3>2, <3>3
  <2>3. \A i \in 1..s : StartOf(log, i) < from \/ log[i].line = 0
    BY <1>1, <1>2
  <2>. QED  BY <1>1, <2>1, <2>2, <2>3 DEF all
<1>. QED  BY <1>4, <1>5

\* The steps of the tail that send lines: those of the records behind the first s.
SendsLines(s) ==
    /\ s \in 0..Len(log)
    /\ frames' \in Seq(FrameRecord)
    /\ \A i \in 1..Len(frames) : frames'[i] = frames[i]
    /\ \A k \in 1..(Len(log) - s) :
          s + k \in 1..Len(log) /\ frames'[Len(frames) + k] = EventOf(log[s + k])

LEMMA ReadLinesIs ==
  ASSUME TypeOK, ReadLines
  PROVE  \E s \in 0..Len(log) :
           /\ SendsLines(s) /\ Len(frames') = Len(frames) + (Len(log) - s)
           /\ \A i \in 1..Len(log) : StartOf(log, i) < tail.offset <=> i <= s
           /\ tail' = [pc |-> "poll", offset |-> Read(tail.offset)]
           /\ Read(tail.offset) \in Nat
<1>1. /\ log \in Seq(Record) /\ Increasing(log) /\ tail.offset \in Nat
      /\ frames \in Seq(FrameRecord) /\ Len(log) \in Nat /\ Len(frames) \in Nat
  BY DEF TypeOK, Increasing, FrameRecord
<1>. DEFINE lines == LinesFrom(tail.offset)
<1>2. PICK s \in 0..Len(log) :
           /\ \A i \in 1..Len(log) : StartOf(log, i) < tail.offset <=> i <= s
           /\ lines \in Seq(FrameRecord)
           /\ Len(lines) = Len(log) - s
           /\ \A k \in 1..(Len(log) - s) :
                s + k \in 1..Len(log) /\ lines[k] = EventOf(log[s + k])
  BY <1>1, LinesFromIs
<1>3. frames' = frames \o lines /\ tail' = [pc |-> "poll", offset |-> Read(tail.offset)]
  BY DEF ReadLines
<1>. HIDE DEF lines
<1>4. /\ frames' \in Seq(FrameRecord) /\ Len(frames') = Len(frames) + Len(lines)
      /\ \A i \in 1..(Len(frames) + Len(lines)) :
            frames'[i] = IF i <= Len(frames) THEN frames[i] ELSE lines[i - Len(frames)]
  BY <1>1, <1>2, <1>3, ConcatProperties
<1>5. \A k \in 1..(Len(log) - s) : frames'[Len(frames) + k] = lines[k]
  <2>. SUFFICES ASSUME NEW k \in 1..(Len(log) - s) PROVE frames'[Len(frames) + k] = lines[k]
    OBVIOUS
  <2>1. /\ Len(frames) + k \in 1..(Len(frames) + Len(lines)) /\ ~(Len(frames) + k <= Len(frames))
        /\ (Len(frames) + k) - Len(frames) = k
    BY <1>1, <1>2
  <2>. QED  BY <1>4, <2>1
<1>6. \A i \in 1..Len(frames) : frames'[i] = frames[i]
  <2>. SUFFICES ASSUME NEW i \in 1..Len(frames) PROVE frames'[i] = frames[i]
    OBVIOUS
  <2>1. i \in 1..(Len(frames) + Len(lines)) /\ i <= Len(frames)
    BY <1>1, <1>2
  <2>. QED  BY <1>4, <2>1
<1>7. SendsLines(s)
  BY <1>2, <1>4, <1>5, <1>6 DEF SendsLines
<1>8. SizeOf(log) \in Nat
  BY <1>1, StartIs
<1>9. Read(tail.offset) \in Nat
  BY <1>1, <1>8 DEF Read
<1>. QED  BY <1>2, <1>3, <1>4, <1>7, <1>9

LEMMA DrainIs ==
  ASSUME TypeOK, Drain
  PROVE  \E s \in 0..Len(log) :
           /\ SendsLines(s) /\ Len(frames') = Len(frames) + (Len(log) - s) + 1
           /\ frames'[Len(frames')] = Frame("end")
           /\ \A i \in (s + 1)..Len(log) : StartOf(log, i) >= tail.offset /\ log[i].line # 0
           /\ \A i \in 1..s : StartOf(log, i) < tail.offset \/ log[i].line = 0
           /\ tail' = Off
<1>1. /\ log \in Seq(Record) /\ Increasing(log) /\ tail.offset \in Nat
      /\ frames \in Seq(FrameRecord) /\ Len(log) \in Nat /\ Len(frames) \in Nat
  BY DEF TypeOK, Increasing, FrameRecord
<1>. DEFINE lines == Lines(LinesFrom(tail.offset))
            sent == frames \o lines
<1>2. PICK s \in 0..Len(log) :
           /\ \A i \in (s + 1)..Len(log) : StartOf(log, i) >= tail.offset /\ log[i].line # 0
           /\ \A i \in 1..s : StartOf(log, i) < tail.offset \/ log[i].line = 0
           /\ lines \in Seq(FrameRecord)
           /\ Len(lines) = Len(log) - s
           /\ \A k \in 1..(Len(log) - s) :
                s + k \in 1..Len(log) /\ lines[k] = EventOf(log[s + k])
  BY <1>1, DrainedIs
<1>3. frames' = Append(sent, Frame("end")) /\ tail' = Off
  BY DEF Drain
<1>. HIDE DEF lines
<1>4. /\ sent \in Seq(FrameRecord) /\ Len(sent) = Len(frames) + Len(lines)
      /\ \A i \in 1..(Len(frames) + Len(lines)) :
            sent[i] = IF i <= Len(frames) THEN frames[i] ELSE lines[i - Len(frames)]
  BY <1>1, <1>2, ConcatProperties
<1>a. Frame("end") \in FrameRecord
  BY LogAssumption DEF Frame, FrameRecord
<1>. HIDE DEF sent
<1>b. /\ frames' \in Seq(FrameRecord) /\ Len(frames') = Len(sent) + 1
      /\ \A i \in 1..Len(sent) : frames'[i] = sent[i]
      /\ frames'[Len(sent) + 1] = Frame("end")
  BY <1>3, <1>4, <1>a, AppendProperties
<1>5. \A k \in 1..(Len(log) - s) : frames'[Len(frames) + k] = lines[k]
  <2>. SUFFICES ASSUME NEW k \in 1..(Len(log) - s) PROVE frames'[Len(frames) + k] = lines[k]
    OBVIOUS
  <2>1. /\ Len(frames) + k \in 1..(Len(frames) + Len(lines)) /\ ~(Len(frames) + k <= Len(frames))
        /\ (Len(frames) + k) - Len(frames) = k
    BY <1>1, <1>2
  <2>. QED  BY <1>4, <1>b, <2>1
<1>6. \A i \in 1..Len(frames) : frames'[i] = frames[i]
  <2>. SUFFICES ASSUME NEW i \in 1..Len(frames) PROVE frames'[i] = frames[i]
    OBVIOUS
  <2>1. i \in 1..(Len(frames) + Len(lines)) /\ i <= Len(frames)
    BY <1>1, <1>2
  <2>. QED  BY <1>4, <1>b, <2>1
<1>7. SendsLines(s)
  BY <1>2, <1>b, <1>5, <1>6 DEF SendsLines
<1>8. Len(frames') = Len(frames) + (Len(log) - s) + 1 /\ frames'[Len(frames')] = Frame("end")
  BY <1>1, <1>2, <1>4, <1>b
<1>. QED  BY <1>2, <1>3, <1>7, <1>8

\* Taking a frame off the connection.
LEMMA ReceiveIs ==
  ASSUME TypeOK, Receive
  PROVE  /\ Len(frames) \in Nat \ {0} /\ Head(frames) = frames[1] /\ frames[1] \in FrameRecord
         /\ frames' \in Seq(FrameRecord) /\ Len(frames') = Len(frames) - 1
         /\ \A i \in 1..(Len(frames) - 1) : frames'[i] = frames[i + 1]
<1>1. frames \in Seq(FrameRecord) /\ frames # <<>> /\ frames' = Tail(frames)
  BY DEF TypeOK, FrameRecord, Receive
<1>2. /\ frames' \in Seq(FrameRecord) /\ Len(frames') = Len(frames) - 1
      /\ \A i \in 1..Len(frames') : frames'[i] = frames[i + 1]
  BY <1>1, HeadTailProperties
<1>3. Len(frames) \in Nat \ {0} /\ Head(frames) = frames[1]
  BY <1>1
<1>4. frames[1] \in FrameRecord
  BY <1>1, <1>3, ElementOfSeq
<1>. QED  BY <1>2, <1>3, <1>4

-----------------------------------------------------------------------------
(* The types *)

CapturedQuery == [known : BOOLEAN, data : Entries,
                  fetch : {"idle", "asked", "read"}, reply : Entries]

\* Only what was written is sent and shown.
Told ==
    /\ \A i \in 1..Len(frames) : frames[i].kind = "line" => frames[i].line \in 1..written
    /\ \A i \in 1..Len(live) : live[i] <= written

Basic == TypeOK /\ Numbered /\ Told

LEMMA CapturedType == Basic => captured \in CapturedQuery
  BY DEF Basic, TypeOK, CapturedQuery

LEMMA InitBasic == Init => Basic
<1>. SUFFICES ASSUME Init PROVE Basic
  OBVIOUS
<1>1. Unknown \in CapturedQuery
  <2>1. <<>> \in Entries
    BY DEF Entries
  <2>. QED  BY <2>1 DEF Unknown, CapturedQuery
<1>2. TypeOK
  <2>1. log \in Seq(Record) /\ live \in Entries /\ Len(live) = 0 /\ frames \in Seq(FrameRecord)
    BY DEF Init, Entries
  <2>2. \A i, j \in DOMAIN log : i < j => log[i].line < log[j].line /\ log[i].end < log[j].end
    BY DEF Init
  <2>3. tail \in [pc : {"off", "poll", "read", "check", "drain"}, offset : Nat]
    BY DEF Init, Off
  <2>4. 0 \in 0..MaxLines /\ 0 \in 0..MaxDrops /\ 0 <= Window
    BY LogAssumption
  <2>. QED  BY <1>1, <2>1, <2>2, <2>3, <2>4 DEF Init, TypeOK, CapturedQuery, FrameRecord
<1>. QED  BY <1>2 DEF Init, Basic, Numbered, Told

\* A step of the file's side.
LEMMA FileBasic ==
  ASSUME Basic, (\E size \in Sizes : Write(size)) \/ Settle \/ Reclaim \/ ProcessEnds
  PROVE  Basic'
<1>1. ASSUME NEW size \in Sizes, Write(size) PROVE Basic'
  <2>1. /\ log' \in Seq(Record) /\ Increasing(log') /\ Numbered'
        /\ written' = written + 1 /\ written' \in 0..MaxLines /\ rotated' \in BOOLEAN
    BY <1>1, WriteIs DEF Basic
  <2>2. UNCHANGED <<attempt, alive, tail, frames>> /\ UNCHANGED clientVars
    BY <1>1 DEF Write
  <2>3. TypeOK'
    BY <2>1, <2>2 DEF Basic, TypeOK, Increasing, clientVars
  <2>4. Told'
    <3>1. written \in Nat
      BY DEF Basic, TypeOK
    <3>2. \A i \in 1..Len(live) : live[i] \in Nat
      <4>. SUFFICES ASSUME NEW i \in 1..Len(live) PROVE live[i] \in Nat
        OBVIOUS
      <4>1. live \in Seq(1..MaxLines)
        BY DEF Basic, TypeOK, Entries
      <4>2. live[i] \in 1..MaxLines
        BY <4>1, ElementOfSeq
      <4>. QED  BY <4>2
    <3>3. \A i \in 1..Len(frames) : frames[i].kind = "line" => frames[i].line \in 1..(written + 1)
      BY <3>1 DEF Basic, Told
    <3>4. \A i \in 1..Len(live) : live[i] <= written + 1
      BY <3>1, <3>2 DEF Basic, Told
    <3>. QED  BY <2>1, <2>2, <3>3, <3>4 DEF Told, clientVars
  <2>. QED  BY <2>1, <2>3, <2>4 DEF Basic
<1>2. CASE Settle \/ Reclaim \/ ProcessEnds
  <2>1. /\ alive' \in {alive, FALSE} /\ attempt' \in {attempt, "settled", "reclaimed"}
        /\ UNCHANGED <<log, written, rotated, tail, frames, offset, live,
                      viewer, stream, captured, drops>>
    BY <1>2 DEF Settle, Reclaim, ProcessEnds, clientVars
  <2>2. TypeOK'
    <3>1. TypeOK /\ alive' \in BOOLEAN /\ attempt' \in {"running", "settled", "reclaimed"}
      BY <2>1 DEF Basic, TypeOK
    <3>. QED  BY ONLY <2>1, <3>1 DEF TypeOK
  <2>3. Numbered' /\ Told'
    BY <2>1 DEF Basic, Numbered, Told
  <2>. QED  BY <2>2, <2>3 DEF Basic
<1>. QED  BY <1>1, <1>2

\* What the tail sends is of records, and those are numbered.
LEMMA SendsTold ==
  ASSUME Basic, NEW s, SendsLines(s), UNCHANGED <<written, live>>,
         NEW n \in Nat, Len(frames') = Len(frames) + n,
         \A i \in 1..n : i <= Len(log) - s \/ frames'[Len(frames) + i].kind # "line"
  PROVE  Told'
<1>. USE DEF Basic
<1>1. /\ log \in Seq(Record) /\ written \in Nat /\ Len(frames) \in Nat /\ Len(log) \in Nat
      /\ s \in 0..Len(log)
  BY DEF TypeOK, SendsLines
<1>2. ASSUME NEW i \in 1..Len(frames'), frames'[i].kind = "line"
      PROVE  frames'[i].line \in 1..written
  <2>1. CASE i <= Len(frames)
    <3>1. i \in 1..Len(frames) /\ frames'[i] = frames[i]
      BY <1>1, <2>1 DEF SendsLines
    <3>. QED  BY <1>2, <3>1 DEF Told
  <2>2. CASE i > Len(frames)
    <3>. DEFINE k == i - Len(frames)
    <3>1. k \in 1..n /\ i = Len(frames) + k
      BY <1>1, <2>2
    <3>. HIDE DEF k
    <3>2. k \in 1..(Len(log) - s)
      BY <1>1, <1>2, <3>1
    <3>3. s + k \in 1..Len(log) /\ frames'[i] = EventOf(log[s + k])
      BY <3>1, <3>2 DEF SendsLines
    <3>4. log[s + k].line \in Nat /\ log[s + k].line <= written
      BY <1>1, <3>3, RecordAt, LogAssumption DEF Numbered
    <3>5. log[s + k].line # 0 /\ frames'[i].line = log[s + k].line
      BY <1>2, <3>3 DEF EventOf, Frame
    <3>. QED  BY <1>1, <3>4, <3>5
  <2>. QED  BY <1>1, <2>1, <2>2
<1>. QED  BY <1>2 DEF Told

LEMMA ServerBasic == ASSUME Basic, Server PROVE Basic'
<1>1. CASE Poll
  <2>1. UNCHANGED <<log, written, rotated, attempt, alive>> /\ UNCHANGED clientVars
    BY <1>1 DEF Poll, serverQuiet
  <2>2. tail' \in [pc : {"off", "poll", "read", "check", "drain"}, offset : Nat]
    BY <1>1 DEF Poll, Basic, TypeOK
  <2>3. CASE UNCHANGED frames
    BY <2>1, <2>2, <2>3 DEF Basic, TypeOK, Numbered, Told, clientVars
  <2>4. CASE frames' = Append(frames, Frame("truncated"))
    <3>1. Frame("truncated") \in FrameRecord /\ frames \in Seq(FrameRecord)
      BY LogAssumption DEF Frame, FrameRecord, Basic, TypeOK
    <3>2. /\ frames' \in Seq(FrameRecord) /\ Len(frames') = Len(frames) + 1
          /\ \A i \in 1..Len(frames) : frames'[i] = frames[i]
          /\ frames'[Len(frames) + 1] = Frame("truncated")
      BY <2>4, <3>1, AppendProperties
    <3>3. Told'
      <4>1. \A i \in 1..Len(frames') : i \in 1..Len(frames) \/ i = Len(frames) + 1
        BY <3>1, <3>2
      <4>. QED  BY <2>1, <3>2, <4>1 DEF Basic, Told, clientVars, Frame
    <3>. QED  BY <2>1, <2>2, <3>2, <3>3 DEF Basic, TypeOK, Numbered, clientVars, FrameRecord
  <2>. QED  BY <1>1, <2>3, <2>4 DEF Poll
<1>2. CASE ReadLines
  <2>1. UNCHANGED <<log, written, rotated, attempt, alive>> /\ UNCHANGED clientVars
    BY <1>2 DEF ReadLines, serverQuiet
  <2>2. PICK s \in 0..Len(log) :
           /\ SendsLines(s) /\ Len(frames') = Len(frames) + (Len(log) - s)
           /\ tail' = [pc |-> "poll", offset |-> Read(tail.offset)]
           /\ Read(tail.offset) \in Nat
    BY <1>2, ReadLinesIs DEF Basic
  <2>3. Len(log) - s \in Nat
    BY DEF Basic, TypeOK
  <2>4. Told'
    BY <2>1, <2>2, <2>3, SendsTold DEF clientVars
  <2>5. frames' \in Seq(FrameRecord)
    BY <2>2 DEF SendsLines
  <2>. QED  BY <2>1, <2>2, <2>4, <2>5 DEF Basic, TypeOK, Numbered, clientVars, FrameRecord
<1>3. CASE CheckTerminal
  BY <1>3 DEF CheckTerminal, serverQuiet, Basic, TypeOK, Numbered, Told, clientVars
<1>4. CASE Drain
  <2>1. UNCHANGED <<log, written, rotated, attempt, alive>> /\ UNCHANGED clientVars
    BY <1>4 DEF Drain, serverQuiet
  <2>2. PICK s \in 0..Len(log) :
           /\ SendsLines(s) /\ Len(frames') = Len(frames) + (Len(log) - s) + 1
           /\ frames'[Len(frames')] = Frame("end")
           /\ tail' = Off
    BY <1>4, DrainIs DEF Basic
  <2>3. Len(log) - s + 1 \in Nat /\ Len(frames) \in Nat
    BY DEF Basic, TypeOK
  <2>4. \A i \in 1..(Len(log) - s + 1) :
           i <= Len(log) - s \/ frames'[Len(frames) + i].kind # "line"
    <3>. SUFFICES ASSUME NEW i \in 1..(Len(log) - s + 1), ~(i <= Len(log) - s)
                  PROVE  frames'[Len(frames) + i].kind # "line"
      OBVIOUS
    <3>1. i = Len(log) - s + 1
      BY <2>3
    <3>2. Len(frames) + i = Len(frames')
      BY <2>2, <2>3, <3>1
    <3>. QED  BY <2>2, <3>2 DEF Frame
  <2>5. Len(frames') = Len(frames) + (Len(log) - s + 1)
    BY <2>2, <2>3 DEF Basic, TypeOK
  <2>6. Told'
    BY <2>1, <2>2, <2>3, <2>4, <2>5, SendsTold DEF clientVars
  <2>7. frames' \in Seq(FrameRecord)
    BY <2>2 DEF SendsLines
  <2>. QED  BY <2>1, <2>2, <2>6, <2>7 DEF Basic, TypeOK, Numbered, clientVars, FrameRecord, Off
<1>. QED  BY <1>1, <1>2, <1>3, <1>4 DEF Server

\* A line is added to the view, which keeps its window.
LEMMA ViewIs ==
  ASSUME live \in Entries, NEW line \in 1..MaxLines, live' = Last_n(Append(live, line), Window),
         NEW d, d = Hidden(Len(live) + 1, Window)
  PROVE  /\ live' \in Entries /\ Len(live') = Len(live) + 1 - d /\ Len(live') <= Window
         /\ \A i \in 1..(Len(live) + 1 - d) :
               /\ d + i \in 1..(Len(live) + 1)
               /\ d + i = Len(live) + 1 => live'[i] = line
               /\ d + i # Len(live) + 1 => d + i \in 1..Len(live) /\ live'[i] = live[d + i]
<1>. DEFINE seq == Append(live, line)
<1>1. live \in Seq(1..MaxLines) /\ Window \in Nat /\ Len(live) \in Nat
  BY LogAssumption DEF Entries
<1>2. /\ seq \in Seq(1..MaxLines) /\ Len(seq) = Len(live) + 1
      /\ \A i \in 1..Len(live) : seq[i] = live[i]
      /\ seq[Len(live) + 1] = line
  BY <1>1, AppendProperties
<1>3. live' = Last_n(seq, Window)
  OBVIOUS
<1>. HIDE DEF seq
<1>4. d = Hidden(Len(seq), Window) /\ d \in Nat /\ Len(live) + 1 - d <= Window
  <2>1. Len(live) + 1 \in Nat
    BY <1>1
  <2>2. /\ Hidden(Len(live) + 1, Window) \in 0..(Len(live) + 1)
        /\ Len(live) + 1 - Hidden(Len(live) + 1, Window) <= Window
    <3>1. Window \in Nat
      BY <1>1
    <3>2. \A len, n \in Nat : Hidden(len, n) \in 0..len /\ len - Hidden(len, n) <= n
      BY HiddenIs
    <3>. DEFINE len == Len(live) + 1
    <3>3. len \in Nat
      BY <2>1
    <3>. HIDE DEF len
    <3>4. Hidden(len, Window) \in 0..len /\ len - Hidden(len, Window) <= Window
      BY <3>1, <3>2, <3>3
    <3>. QED  BY <3>4 DEF len
  <2>3. d = Hidden(Len(seq), Window)
    BY <1>2
  <2>4. d \in 0..(Len(live) + 1)
    BY <2>2
  <2>5. Len(live) + 1 - d <= Window
    BY <2>2
  <2>. QED  BY <2>1, <2>3, <2>4, <2>5
<1>5. /\ live' \in Seq(1..MaxLines) /\ Len(live') = Len(seq) - d
      /\ \A i \in 1..(Len(seq) - d) : d + i \in 1..Len(seq) /\ live'[i] = seq[d + i]
  <2>1. /\ Last_n(seq, Window) \in Seq(1..MaxLines)
        /\ Len(Last_n(seq, Window)) = Len(seq) - Hidden(Len(seq), Window)
        /\ \A i \in 1..(Len(seq) - Hidden(Len(seq), Window)) :
              /\ Hidden(Len(seq), Window) + i \in 1..Len(seq)
              /\ Last_n(seq, Window)[i] = seq[Hidden(Len(seq), Window) + i]
    <3>1. seq \in Seq(1..MaxLines) /\ Window \in Nat
      BY <1>1, <1>2
    <3>. QED  BY ONLY <3>1, LastIs
  <2>. QED  BY <1>3, <1>4, <2>1
<1>6. ASSUME NEW i \in 1..(Len(live) + 1 - d)
      PROVE  /\ d + i \in 1..(Len(live) + 1)
             /\ d + i = Len(live) + 1 => live'[i] = line
             /\ d + i # Len(live) + 1 => d + i \in 1..Len(live) /\ live'[i] = live[d + i]
  <2>1. d + i \in 1..(Len(live) + 1) /\ live'[i] = seq[d + i]
    BY <1>1, <1>2, <1>4, <1>5
  <2>2. d + i = Len(live) + 1 \/ d + i \in 1..Len(live)
    BY <1>1, <2>1
  <2>. QED  BY <1>2, <2>1, <2>2
<1>. QED  BY <1>2, <1>4, <1>5, <1>6 DEF Entries

LEMMA ReceiveBasic == ASSUME Basic, Receive PROVE Basic'
<1>1. UNCHANGED <<tail, viewer, drops, log, written, rotated, attempt, alive>>
  BY DEF Receive, fileQuiet
<1>2. /\ Len(frames) \in Nat \ {0} /\ Head(frames) = frames[1] /\ frames[1] \in FrameRecord
      /\ frames' \in Seq(FrameRecord) /\ Len(frames') = Len(frames) - 1
      /\ \A i \in 1..(Len(frames) - 1) : frames'[i] = frames[i + 1]
  BY ReceiveIs DEF Basic
<1>3. \A i \in 1..Len(frames') : frames'[i].kind = "line" => frames'[i].line \in 1..written
  <2>. SUFFICES ASSUME NEW i \in 1..Len(frames'), frames'[i].kind = "line"
                PROVE  frames'[i].line \in 1..written
    OBVIOUS
  <2>1. i \in 1..(Len(frames) - 1) /\ i + 1 \in 1..Len(frames)
    BY <1>2
  <2>. QED  BY <1>2, <2>1 DEF Basic, Told
<1>4. CASE /\ frames[1].kind = "line" /\ offset' = frames[1].id
           /\ live' = Last_n(Append(live, frames[1].line), Window)
           /\ UNCHANGED <<stream, captured>>
  <2>1. 1 \in 1..Len(frames) /\ frames[1].line \in 1..written /\ written \in 0..MaxLines
    <3>1. 1 \in 1..Len(frames)
      BY <1>2
    <3>2. Told /\ written \in 0..MaxLines
      BY DEF Basic, TypeOK
    <3>. QED  BY <1>4, <3>1, <3>2 DEF Told
  <2>2. frames[1].line \in 1..MaxLines /\ frames[1].line <= written /\ offset' \in Nat
    BY <1>2, <1>4, <2>1, LogAssumption DEF FrameRecord
  <2>3. live \in Entries /\ Len(live) \in Nat
    BY DEF Basic, TypeOK, Entries
  <2>. DEFINE d == Hidden(Len(live) + 1, Window)
  <2>4. /\ live' \in Entries /\ Len(live') = Len(live) + 1 - d /\ Len(live') <= Window
        /\ \A i \in 1..(Len(live) + 1 - d) :
              /\ d + i \in 1..(Len(live) + 1)
              /\ d + i = Len(live) + 1 => live'[i] = frames[1].line
              /\ d + i # Len(live) + 1 => d + i \in 1..Len(live) /\ live'[i] = live[d + i]
    BY <1>4, <2>2, <2>3, ViewIs
  <2>. HIDE DEF d
  <2>5. \A i \in 1..Len(live') : live'[i] <= written
    BY <2>2, <2>4 DEF Basic, Told
  <2>. QED  BY <1>1, <1>2, <1>3, <1>4, <2>2, <2>4, <2>5 DEF Basic, TypeOK, Numbered, Told, FrameRecord, CapturedQuery
<1>5. CASE frames[1].kind = "truncated" /\ live' = <<>> /\ UNCHANGED <<offset, stream, captured>>
  <2>1. live' \in Entries /\ Len(live') = 0
    BY <1>5 DEF Entries
  <2>2. Window \in Nat
    BY LogAssumption
  <2>. QED  BY <1>1, <1>2, <1>3, <1>5, <2>1, <2>2 DEF Basic, TypeOK, Numbered, Told, FrameRecord, CapturedQuery
<1>6. CASE /\ frames[1].kind = "end" /\ stream' = "ended" /\ captured' = Refetch(captured)
           /\ UNCHANGED <<offset, live>>
  <2>1. captured' \in CapturedQuery
    <3>1. <<>> \in Entries
      BY DEF Entries
    <3>. QED  BY <1>6, <3>1, CapturedType DEF Refetch, CapturedQuery
  <2>. QED  BY <1>1, <1>2, <1>3, <1>6, <2>1 DEF Basic, TypeOK, Numbered, Told, FrameRecord, CapturedQuery
<1>. QED  BY <1>2, <1>4, <1>5, <1>6 DEF Receive

\* The captured log is of lines as well.
LEMMA CaptureReadBasic == ASSUME Basic, CaptureRead PROVE Basic'
<1>. DEFINE lines == Lines(log)
            numbers == Numbers(lines)
<1>1. log \in Seq(Record) /\ Increasing(log) /\ Len(log) \in Nat
  BY DEF Basic, TypeOK, Increasing
<1>2. lines \in Seq(Record) /\ \A i \in 1..Len(lines) : lines[i].line # 0
  <2>1. CASE log # <<>> /\ Head(log).line = 0
    <3>1. lines = Tail(log)
      BY <2>1 DEF Lines
    <3>2. /\ lines \in Seq(Record) /\ Len(lines) = Len(log) - 1
          /\ \A i \in 1..Len(lines) : lines[i] = log[i + 1]
      BY <1>1, <2>1, <3>1, HeadTailProperties
    <3>3. \A i \in 1..Len(lines) : i + 1 \in 1..Len(log) /\ i + 1 # 1
      BY <1>1, <3>2
    <3>. QED  BY <1>1, <3>2, <3>3, MarkerIsFirst
  <2>2. CASE ~(log # <<>> /\ Head(log).line = 0)
    <3>1. lines = log
      BY <2>2 DEF Lines
    <3>2. log # <<>> => Head(log) = log[1]
      OBVIOUS
    <3>3. \A i \in 1..Len(log) : log # <<>>
      BY <1>1
    <3>. QED  BY <1>1, <2>2, <3>1, <3>2, <3>3, MarkerIsFirst
  <2>. QED  BY <2>1, <2>2
<1>3. numbers \in Seq(1..MaxLines)
  <2>. HIDE DEF lines
  <2>1. \A i \in 1..Len(lines) : lines[i].line \in 1..MaxLines
    BY <1>2, RecordAt, LogAssumption
  <2>2. numbers = [i \in 1..Len(lines) |-> lines[i].line] /\ Len(lines) \in Nat
    BY <1>2 DEF Numbers
  <2>. QED  BY <2>1, <2>2, IsASeq
<1>. HIDE DEF numbers
<1>4. Last_n(numbers, Captured) \in Entries
  BY <1>3, LastIs, LogAssumption DEF Entries
<1>5. captured' = [captured EXCEPT !.fetch = "read", !.reply = Last_n(numbers, Captured)]
  BY DEF CaptureRead, numbers
<1>6. captured' \in CapturedQuery
  BY <1>4, <1>5, CapturedType DEF CapturedQuery
<1>. QED  BY <1>6 DEF CaptureRead, fileQuiet, Basic, TypeOK, Numbered, Told, CapturedQuery

LEMMA ClientBasic ==
  ASSUME Basic, \/ Connect \/ Disconnect \/ Receive \/ (\E terminal \in BOOLEAN : Open(terminal))
                \/ CaptureRead \/ CaptureArrives \/ CaptureFails
  PROVE  Basic'
<1>. USE DEF fileQuiet
<1>1. CASE Connect
  BY <1>1 DEF Connect, Basic, TypeOK, Numbered, Told
<1>2. CASE Disconnect
  BY <1>2, LogAssumption DEF Disconnect, Basic, TypeOK, Numbered, Told, Off
<1>3. ASSUME NEW terminal \in BOOLEAN, Open(terminal) PROVE Basic'
  <2>1. captured' \in CapturedQuery
    BY <1>3, CapturedType DEF Open, CapturedQuery
  <2>. QED  BY <1>3, <2>1 DEF Open, Basic, TypeOK, Numbered, Told, CapturedQuery
<1>4. CASE CaptureArrives
  <2>1. captured' \in CapturedQuery
    <3>1. <<>> \in Entries
      BY DEF Entries
    <3>. QED  BY <1>4, <3>1, CapturedType DEF CaptureArrives, Unknown, CapturedQuery
  <2>. QED  BY <1>4, <2>1 DEF CaptureArrives, Basic, TypeOK, Numbered, Told, CapturedQuery
<1>5. CASE CaptureFails
  <2>1. captured' \in CapturedQuery
    BY <1>5, CapturedType DEF CaptureFails, CapturedQuery
  <2>2. drops' \in 0..MaxDrops
    BY <1>5, LogAssumption DEF CaptureFails, Basic, TypeOK
  <2>. QED  BY <1>5, <2>1, <2>2 DEF CaptureFails, Basic, TypeOK, Numbered, Told, CapturedQuery
<1>. QED  BY <1>1, <1>2, <1>3, <1>4, <1>5, ReceiveBasic, CaptureReadBasic

LEMMA NextBasic == Basic /\ [Next]_vars => Basic'
<1>1. ASSUME Basic, UNCHANGED vars PROVE Basic'
  BY <1>1 DEF vars, Basic, TypeOK, Numbered, Told
<1>. QED  BY <1>1, FileBasic, ServerBasic, ClientBasic DEF Next

\* The types; the file keeps to its cap and to the order of writing, and the view to
\* its window: for any cap, sizes and numbers of records.
THEOREM LogTypeOK == Spec => []TypeOK
<1>1. Basic => TypeOK
  BY DEF Basic
<1>. QED  BY <1>1, InitBasic, NextBasic, PTL DEF Spec

-----------------------------------------------------------------------------
(* The order of the lines *)

\* What is read from a place is newer than the line.
Behind(line, place) ==
    \A i \in 1..Len(log) : log[i].line # 0 /\ log[i].end > place => log[i].line > line

IsLine(i) == i \in 1..Len(frames) /\ frames[i].kind = "line"
Uncut(i, j) == \A k \in 1..Len(frames) : i <= k /\ k <= j => frames[k].kind # "truncated"

\* The frames under way go on where the view ends, up to a truncation; the client's
\* cursor and, if nothing is truncated, the tail's offset are behind all of it.
FramesInOrder ==
    /\ \A j \in 1..Len(frames) : IsLine(j) => Behind(frames[j].line, frames[j].id)
    /\ \A i, j \in 1..Len(frames) :
          i < j /\ IsLine(i) /\ IsLine(j) /\ Uncut(i, j) => frames[i].line < frames[j].line

LiveGoesOn ==
    /\ \A i, j \in 1..Len(live) : i < j => live[i] < live[j]
    /\ \A i \in 1..Len(live) : Behind(live[i], offset)
    /\ \A j \in 1..Len(frames) : IsLine(j) /\ Uncut(1, j) =>
          \A i \in 1..Len(live) : live[i] < frames[j].line

TailGoesOn ==
    tail.pc # "off" =>
        /\ \A i \in 1..Len(frames) : IsLine(i) /\ Uncut(i, Len(frames)) =>
              Behind(frames[i].line, tail.offset)
        /\ Uncut(1, Len(frames)) => \A i \in 1..Len(live) : Behind(live[i], tail.offset)

InOrder == FramesInOrder /\ LiveGoesOn /\ TailGoesOn

\* What the view and the frames hold are numbers that were given.
LEMMA GivenNumbers ==
  ASSUME Basic
  PROVE  /\ written \in Nat /\ Len(log) \in Nat /\ Len(frames) \in Nat /\ Len(live) \in Nat
         /\ \A i \in 1..Len(log) : log[i].line \in Nat /\ log[i].line <= written /\ log[i].end \in Nat
         /\ \A i \in 1..Len(live) : live[i] \in Nat /\ live[i] <= written
         /\ \A i \in 1..Len(frames) :
                frames[i] \in FrameRecord /\ frames[i].id \in Nat
                /\ (frames[i].kind = "line" => frames[i].line \in 1..written)
         /\ offset \in Nat /\ tail.offset \in Nat
<1>. USE DEF Basic
<1>1. /\ log \in Seq(Record) /\ frames \in Seq(FrameRecord) /\ live \in Seq(1..MaxLines)
      /\ written \in Nat /\ offset \in Nat /\ tail.offset \in Nat
  BY DEF TypeOK, FrameRecord, Entries
<1>2. \A i \in 1..Len(log) : log[i].line \in Nat /\ log[i].line <= written /\ log[i].end \in Nat
  BY <1>1, RecordAt, LogAssumption DEF Numbered
<1>3. \A i \in 1..Len(live) : live[i] \in Nat /\ live[i] <= written
  <2>. SUFFICES ASSUME NEW i \in 1..Len(live) PROVE live[i] \in Nat /\ live[i] <= written
    OBVIOUS
  <2>1. live[i] \in 1..MaxLines
    BY <1>1, ElementOfSeq
  <2>. QED  BY <2>1 DEF Told
<1>4. \A i \in 1..Len(frames) :
        frames[i] \in FrameRecord /\ frames[i].id \in Nat
        /\ (frames[i].kind = "line" => frames[i].line \in 1..written)
  <2>. SUFFICES ASSUME NEW i \in 1..Len(frames)
                PROVE  frames[i] \in FrameRecord /\ frames[i].id \in Nat
                       /\ (frames[i].kind = "line" => frames[i].line \in 1..written)
    OBVIOUS
  <2>1. frames[i] \in FrameRecord
    BY <1>1, ElementOfSeq
  <2>2. frames[i].id \in Nat
    BY <2>1 DEF FrameRecord
  <2>. QED  BY <2>1, <2>2 DEF Told
<1>. QED  BY <1>1, <1>2, <1>3, <1>4

\* A write leaves behind a place what was behind it.
LEMMA WriteBehind ==
  ASSUME Basic, NEW size \in Sizes, Write(size),
         NEW line \in Nat, line <= written, NEW place \in Nat, Behind(line, place)
  PROVE  Behind(line, place)'
<1>1. /\ written \in Nat
      /\ \A i \in 1..Len(log) : log[i].line \in Nat /\ log[i].end \in Nat
  BY GivenNumbers
<1>2. /\ log' \in Seq(Record)
      /\ \A i \in 1..Len(log') :
                \/ log'[i].line = 0
                \/ log'[i].line = written + 1
                \/ \E j \in 1..Len(log) : /\ log'[i].line = log[j].line
                                          /\ log'[i].end <= log[j].end
  BY WriteIs DEF Basic
<1>. SUFFICES ASSUME NEW i \in 1..Len(log'), log'[i].line # 0, log'[i].end > place
              PROVE  log'[i].line > line
  BY DEF Behind
<1>3. log'[i].end \in Nat
  BY <1>2, RecordAt, LogAssumption
<1>4. CASE log'[i].line = written + 1
  BY <1>1, <1>4
<1>5. ASSUME NEW j \in 1..Len(log), log'[i].line = log[j].line, log'[i].end <= log[j].end
      PROVE  log'[i].line > line
  <2>1. log[j].end > place /\ log[j].line # 0
    BY <1>1, <1>3, <1>5
  <2>. QED  BY <1>5, <2>1 DEF Behind
<1>. QED  BY <1>2, <1>4, <1>5

\* What leaves the file, the frames and the client alone keeps the order.
LEMMA QuietInOrder ==
  ASSUME InOrder, UNCHANGED <<log, frames, live, offset>>,
         tail'.pc # "off" => tail.pc # "off" /\ tail'.offset = tail.offset
  PROVE  InOrder'
<1>1. FramesInOrder'
  BY DEF InOrder, FramesInOrder, IsLine, Uncut, Behind
<1>2. LiveGoesOn'
  BY DEF InOrder, LiveGoesOn, IsLine, Uncut, Behind
<1>3. TailGoesOn'
  BY DEF InOrder, TailGoesOn, IsLine, Uncut, Behind
<1>. QED  BY <1>1, <1>2, <1>3 DEF InOrder

LEMMA WriteInOrder ==
  ASSUME Basic, InOrder, NEW size \in Sizes, Write(size)
  PROVE  InOrder'
<1>1. UNCHANGED <<frames, live, offset, tail>>
  BY DEF Write, clientVars
<1>2. /\ Len(frames) \in Nat /\ offset \in Nat /\ tail.offset \in Nat
      /\ \A i \in 1..Len(live) : live[i] \in Nat /\ live[i] <= written
      /\ \A i \in 1..Len(frames) : IsLine(i) =>
            frames[i].line \in Nat /\ frames[i].line <= written /\ frames[i].id \in Nat
  BY GivenNumbers DEF IsLine
<1>3. \A line, place \in Nat : line <= written /\ Behind(line, place) => Behind(line, place)'
  BY WriteBehind
<1>4. \A i, j : Uncut(i, j)' <=> Uncut(i, j)
  BY <1>1 DEF Uncut
<1>5. \A i : IsLine(i)' <=> IsLine(i)
  BY <1>1 DEF IsLine
<1>6. FramesInOrder'
  <2>1. ASSUME NEW j \in 1..Len(frames), IsLine(j) PROVE Behind(frames[j].line, frames[j].id)'
    <3>1. Behind(frames[j].line, frames[j].id)
      BY <2>1 DEF InOrder, FramesInOrder
    <3>2. frames[j].line \in Nat /\ frames[j].line <= written /\ frames[j].id \in Nat
      BY <1>2, <2>1
    <3>. QED  BY <1>1, <1>3, <3>1, <3>2 DEF Behind
  <2>2. ASSUME NEW i \in 1..Len(frames), NEW j \in 1..Len(frames),
               i < j, IsLine(i), IsLine(j), Uncut(i, j)
        PROVE  frames[i].line < frames[j].line
    BY <2>2 DEF InOrder, FramesInOrder
  <2>. QED  BY <1>1, <1>2, <1>4, <1>5, <2>1, <2>2 DEF FramesInOrder
<1>7. LiveGoesOn'
  <2>1. ASSUME NEW i \in 1..Len(live) PROVE Behind(live[i], offset)'
    <3>1. Behind(live[i], offset)
      BY DEF InOrder, LiveGoesOn
    <3>. QED  BY <1>1, <1>2, <1>3, <3>1 DEF Behind
  <2>2. \A i, j \in 1..Len(live) : i < j => live[i] < live[j]
    BY DEF InOrder, LiveGoesOn
  <2>3. ASSUME NEW j \in 1..Len(frames), IsLine(j), Uncut(1, j), NEW i \in 1..Len(live)
        PROVE  live[i] < frames[j].line
    BY <2>3 DEF InOrder, LiveGoesOn
  <2>4. \A j \in 1..Len(frames) : IsLine(j)' /\ Uncut(1, j)' =>
           \A i \in 1..Len(live) : live[i] < frames[j].line
    BY <1>4, <1>5, <2>3
  <2>. QED  BY <1>1, <2>1, <2>2, <2>4 DEF LiveGoesOn
<1>8. TailGoesOn'
  <2>. SUFFICES ASSUME tail.pc # "off" PROVE TailGoesOn'
    BY <1>1 DEF TailGoesOn
  <2>1. ASSUME NEW i \in 1..Len(frames), IsLine(i), Uncut(i, Len(frames))
        PROVE  Behind(frames[i].line, tail.offset)'
    <3>1. Behind(frames[i].line, tail.offset)
      BY <2>1 DEF InOrder, TailGoesOn
    <3>2. frames[i].line \in Nat /\ frames[i].line <= written
      BY <1>2, <2>1
    <3>. QED  BY <1>1, <1>2, <1>3, <3>1, <3>2 DEF Behind
  <2>2. ASSUME Uncut(1, Len(frames)), NEW i \in 1..Len(live)
        PROVE  Behind(live[i], tail.offset)'
    <3>1. Behind(live[i], tail.offset)
      BY <2>2 DEF InOrder, TailGoesOn
    <3>. QED  BY <1>1, <1>2, <1>3, <3>1 DEF Behind
  <2>3. Uncut(1, Len(frames))' <=> Uncut(1, Len(frames))
    BY <1>1 DEF Uncut
  <2>4. \A i \in 1..Len(frames) : Uncut(i, Len(frames))' <=> Uncut(i, Len(frames))
    BY <1>1 DEF Uncut
  <2>. QED  BY <1>1, <1>5, <2>1, <2>2, <2>3, <2>4 DEF TailGoesOn
<1>. QED  BY <1>6, <1>7, <1>8 DEF InOrder

\* Lines are sent from the tail's offset, and then everything there is was sent.
LEMMA SendsInOrder ==
  ASSUME Basic, InOrder, NEW s, SendsLines(s), UNCHANGED <<log, live, offset>>, tail.pc # "off",
         NEW n \in Nat, Len(frames') = Len(frames) + n,
         \A i \in 1..n : i <= Len(log) - s \/ frames'[Len(frames) + i].kind # "line",
         \A i \in 1..Len(log) : i > s /\ log[i].line # 0 => StartOf(log, i) >= tail.offset,
         tail'.pc = "off" \/ (tail'.offset \in Nat /\ tail'.offset >= SizeOf(log))
  PROVE  InOrder'
<1>1. /\ Len(log) \in Nat /\ Len(frames) \in Nat /\ Len(live) \in Nat /\ log \in Seq(Record)
      /\ \A i \in 1..Len(log) : log[i].line \in Nat /\ log[i].end \in Nat
      /\ tail.offset \in Nat /\ s \in 0..Len(log) /\ Increasing(log) /\ offset \in Nat
      /\ \A i \in 1..Len(live) : live[i] \in Nat
      /\ \A i \in 1..Len(frames) : IsLine(i) => frames[i].line \in Nat
  <2>1. log \in Seq(Record) /\ Increasing(log) /\ s \in 0..Len(log)
    BY DEF SendsLines, Basic, TypeOK, Increasing
  <2>2. \A i \in 1..Len(frames) : IsLine(i) => frames[i].line \in Nat
    BY GivenNumbers DEF IsLine
  <2>. QED  BY <2>1, <2>2, GivenNumbers
<1>2. \A i \in 1..Len(frames) : frames'[i] = frames[i]
  BY DEF SendsLines
\* A frame is an old one or of a record behind the tail's offset.
<1>3. ASSUME NEW j \in 1..Len(frames'), IsLine(j)', ~(j <= Len(frames))
      PROVE  \E m \in 1..Len(log) :
                /\ s < m /\ m = s + (j - Len(frames)) /\ log[m].line # 0
                /\ frames'[j].line = log[m].line /\ frames'[j].id = log[m].end
                /\ log[m].end > tail.offset
  <2>. DEFINE k == j - Len(frames)
  <2>1. k \in 1..n /\ j = Len(frames) + k
    BY <1>1, <1>3
  <2>. HIDE DEF k
  <2>a. frames'[Len(frames) + k].kind = "line"
    BY <1>3, <2>1 DEF IsLine
  <2>b. k <= Len(log) - s
    BY <2>1, <2>a
  <2>2. k \in 1..(Len(log) - s)
    BY <1>1, <2>1, <2>b
  <2>3. s + k \in 1..Len(log) /\ frames'[j] = EventOf(log[s + k])
    BY <2>1, <2>2 DEF SendsLines
  <2>4. log[s + k].line # 0 /\ frames'[j].line = log[s + k].line /\ frames'[j].id = log[s + k].end
    BY <1>3, <2>3 DEF EventOf, Frame, IsLine
  <2>. DEFINE m == s + k
  <2>5. m \in 1..Len(log) /\ s < m /\ m = s + (j - Len(frames))
    BY <1>1, <2>1, <2>2, <2>3
  <2>6. log[m].line # 0 /\ frames'[j].line = log[m].line /\ frames'[j].id = log[m].end
    BY <2>4
  <2>. HIDE DEF m
  <2>7. StartOf(log, m) >= tail.offset
    BY <1>1, <2>5, <2>6
  <2>8. log[m].end > StartOf(log, m) /\ StartOf(log, m) \in Nat
    <3>1. CASE m = 1
      BY <2>5, <3>1, RecordAt, <1>1, LogAssumption DEF StartOf
    <3>2. CASE m # 1
      <4>1. m - 1 \in 1..Len(log) /\ m - 1 < m /\ DOMAIN log = 1..Len(log)
        BY <1>1, <2>5, <3>2
      <4>2. log[m - 1].end < log[m].end
        BY <1>1, <2>5, <4>1 DEF Increasing
      <4>. QED  BY <1>1, <3>2, <4>1, <4>2 DEF StartOf
    <3>. QED  BY <3>1, <3>2
  <2>9. log[m].end > tail.offset
    <3>1. log[m].end \in Nat /\ tail.offset \in Nat
      BY <1>1, <2>5
    <3>. QED  BY ONLY <2>7, <2>8, <3>1
  <2>. QED  BY <2>5, <2>6, <2>9
<1>4. \A i \in 1..Len(frames) : IsLine(i)' <=> IsLine(i)
  <2>1. \A i \in 1..Len(frames) : i \in 1..Len(frames')
    BY <1>1
  <2>. QED  BY ONLY <1>2, <2>1 DEF IsLine
<1>5. \A i, j \in 1..Len(frames) : Uncut(i, j)' => Uncut(i, j)
  <2>1. \A k \in 1..Len(frames) : k \in 1..Len(frames')
    BY <1>1
  <2>. QED  BY <1>2, <2>1 DEF Uncut
<1>6. \A i, j \in Nat : Uncut(i, j)' /\ Len(frames) <= j => Uncut(i, Len(frames))
  BY <1>1, <1>2 DEF Uncut
<1>7. \A j \in 1..Len(frames') : j <= Len(frames) => j \in 1..Len(frames)
  BY <1>1
<1>8. ASSUME NEW j \in 1..Len(frames'), IsLine(j)'
      PROVE  Behind(frames[j].line, frames[j].id)'
  <2>1. CASE j <= Len(frames)
    <3>1. Behind(frames[j].line, frames[j].id)
      BY <1>4, <1>7, <1>8, <2>1 DEF InOrder, FramesInOrder
    <3>. QED  BY <1>2, <1>7, <2>1, <3>1 DEF Behind
  <2>2. CASE ~(j <= Len(frames))
    <3>1. PICK m \in 1..Len(log) : frames'[j].line = log[m].line /\ frames'[j].id = log[m].end
      BY ONLY <1>3, <1>8, <2>2
    <3>2. ASSUME NEW i \in 1..Len(log), log[i].end > log[m].end PROVE log[i].line > log[m].line
      <4>1. ~(i < m)
        <5>. SUFFICES ASSUME i < m PROVE FALSE
          OBVIOUS
        <5>1. DOMAIN log = 1..Len(log)
          BY <1>1
        <5>2. log[i].end < log[m].end
          BY <1>1, <5>1 DEF Increasing
        <5>3. log[i].end \in Nat /\ log[m].end \in Nat
          BY <1>1
        <5>. QED  BY ONLY <3>2, <5>2, <5>3
      <4>2. i # m
        BY <1>1, <3>2
      <4>3. m < i
        BY <1>1, <4>1, <4>2
      <4>. QED  BY <1>1, <4>3 DEF Increasing
    <3>. QED  BY <3>1, <3>2 DEF Behind
  <2>. QED  BY <2>1, <2>2
<1>9. ASSUME NEW i \in 1..Len(frames'), NEW j \in 1..Len(frames'),
             i < j, IsLine(i)', IsLine(j)', Uncut(i, j)'
      PROVE  frames'[i].line < frames'[j].line
  <2>1. CASE j <= Len(frames)
    <3>1. i \in 1..Len(frames) /\ j \in 1..Len(frames)
      BY <1>1, <1>9, <2>1
    <3>. QED  BY <1>2, <1>4, <1>5, <1>9, <3>1 DEF InOrder, FramesInOrder
  <2>2. CASE ~(j <= Len(frames))
    <3>1. PICK m \in 1..Len(log) :
                /\ s < m /\ m = s + (j - Len(frames)) /\ log[m].line # 0
                /\ frames'[j].line = log[m].line
                /\ log[m].end > tail.offset
      BY <1>3, <1>9, <2>2
    <3>2. CASE i <= Len(frames)
      <4>1. i \in 1..Len(frames) /\ IsLine(i) /\ frames'[i] = frames[i]
        BY <1>2, <1>4, <1>7, <1>9, <3>2
      <4>2. Uncut(i, Len(frames))
        BY <1>1, <1>6, <1>9, <2>2
      <4>3. Behind(frames[i].line, tail.offset)
        BY <4>1, <4>2 DEF InOrder, TailGoesOn
      <4>. QED  BY <1>1, <3>1, <4>1, <4>3 DEF Behind
    <3>3. CASE ~(i <= Len(frames))
      <4>1. PICK l \in 1..Len(log) : l = s + (i - Len(frames)) /\ frames'[i].line = log[l].line
        BY <1>3, <1>9, <3>3
      <4>2. l < m
        BY <1>1, <1>9, <3>1, <4>1
      <4>3. Increasing(log) /\ DOMAIN log = 1..Len(log)
        BY <1>1
      <4>4. log[l].line < log[m].line
        BY ONLY <4>2, <4>3, l \in 1..Len(log), m \in 1..Len(log) DEF Increasing
      <4>. QED  BY ONLY <3>1, <4>1, <4>4
    <3>. QED  BY <3>2, <3>3
  <2>. QED  BY <2>1, <2>2
<1>10. ASSUME NEW j \in 1..Len(frames'), IsLine(j)', Uncut(1, j)', NEW i \in 1..Len(live)
       PROVE  live[i] < frames'[j].line
  <2>1. CASE j <= Len(frames)
    <3>1. 1 \in 1..Len(frames) /\ j \in 1..Len(frames)
      BY <1>1, <2>1
    <3>. QED  BY <1>2, <1>4, <1>5, <1>10, <3>1 DEF InOrder, LiveGoesOn
  <2>2. CASE ~(j <= Len(frames))
    <3>1. PICK m \in 1..Len(log) :
                /\ log[m].line # 0 /\ frames'[j].line = log[m].line
                /\ log[m].end > tail.offset
      BY <1>3, <1>10, <2>2
    <3>2. Uncut(1, Len(frames))
      BY <1>1, <1>6, <1>10, <2>2
    <3>3. Behind(live[i], tail.offset)
      BY <3>2 DEF InOrder, TailGoesOn
    <3>. QED  BY <1>1, <3>1, <3>3 DEF Behind
  <2>. QED  BY <2>1, <2>2
<1>11. FramesInOrder'
  <2>1. (\A j \in 1..Len(frames) : IsLine(j) => Behind(frames[j].line, frames[j].id))'
    BY <1>8
  <2>. QED  BY <1>9, <2>1 DEF FramesInOrder
<1>12. LiveGoesOn'
  <2>1. \A i \in 1..Len(live) : Behind(live[i], offset)'
    BY DEF InOrder, LiveGoesOn, Behind
  <2>2. \A i, j \in 1..Len(live) : i < j => live[i] < live[j]
    BY DEF InOrder, LiveGoesOn
  <2>. QED  BY <1>10, <2>1, <2>2 DEF LiveGoesOn
<1>13. TailGoesOn'
  <2>. SUFFICES ASSUME tail'.pc # "off" PROVE \A line : Behind(line, tail.offset)'
    BY DEF TailGoesOn
  <2>1. \A i \in 1..Len(log) : ~(log[i].end > tail'.offset)
    <3>. SUFFICES ASSUME NEW i \in 1..Len(log) PROVE ~(log[i].end > tail'.offset)
      OBVIOUS
    <3>1. log # <<>> /\ Len(log) \in 1..Len(log) /\ SizeOf(log) = log[Len(log)].end
      BY <1>1 DEF SizeOf
    <3>2. i = Len(log) \/ i < Len(log)
      BY <1>1
    <3>3. log[i].end <= SizeOf(log)
      BY <1>1, <3>1, <3>2 DEF Increasing
    <3>. QED  BY <1>1, <3>1, <3>3
  <2>. QED  BY <2>1 DEF Behind
<1>. QED  BY <1>11, <1>12, <1>13 DEF InOrder

LEMMA PollInOrder ==
  ASSUME Basic, InOrder, Poll
  PROVE  InOrder'
<1>1. UNCHANGED <<log, live, offset>>
  BY DEF Poll, serverQuiet, clientVars
<1>2. CASE /\ tail' = [tail EXCEPT !.offset = 0] /\ frames' = Append(frames, Frame("truncated"))
  <2>1. Frame("truncated") \in FrameRecord /\ frames \in Seq(FrameRecord) /\ Len(frames) \in Nat
    BY LogAssumption DEF Frame, FrameRecord, Basic, TypeOK
  <2>2. /\ Len(frames') = Len(frames) + 1
        /\ \A i \in 1..Len(frames) : frames'[i] = frames[i]
        /\ frames'[Len(frames) + 1] = Frame("truncated")
    BY <1>2, <2>1, AppendProperties
  <2>3. \A i \in 1..Len(frames') : i \in 1..Len(frames) \/ i = Len(frames) + 1
    BY <2>1, <2>2
  <2>4. frames'[Len(frames')].kind = "truncated" /\ Len(frames') \in 1..Len(frames') /\ Len(frames') \in Nat
    BY <2>1, <2>2 DEF Frame
  <2>5. \A i : IsLine(i)' => IsLine(i) /\ i \in 1..Len(frames) /\ frames'[i] = frames[i]
    BY <2>1, <2>2, <2>3 DEF IsLine, Frame
  <2>6. \A i, j \in 1..Len(frames) : Uncut(i, j)' => Uncut(i, j)
    <3>1. \A k \in 1..Len(frames) : k \in 1..Len(frames')
      BY <2>1, <2>2
    <3>. QED  BY <2>2, <3>1 DEF Uncut
  <2>7. \A i \in 1..Len(frames') : ~Uncut(i, Len(frames))'
    BY <2>4 DEF Uncut
  <2>8. FramesInOrder'
    <3>1. ASSUME NEW j \in 1..Len(frames'), IsLine(j)' PROVE Behind(frames[j].line, frames[j].id)'
      <4>1. Behind(frames[j].line, frames[j].id)
        BY <2>5, <3>1 DEF InOrder, FramesInOrder
      <4>. QED  BY <1>1, <2>5, <3>1, <4>1 DEF Behind
    <3>2. ASSUME NEW i \in 1..Len(frames'), NEW j \in 1..Len(frames'),
                 i < j, IsLine(i)', IsLine(j)', Uncut(i, j)'
          PROVE  frames'[i].line < frames'[j].line
      BY <2>5, <2>6, <3>2 DEF InOrder, FramesInOrder
    <3>3. (\A j \in 1..Len(frames) : IsLine(j) => Behind(frames[j].line, frames[j].id))'
      BY <3>1
    <3>. QED  BY <3>2, <3>3 DEF FramesInOrder
  <2>9. LiveGoesOn'
    <3>1. \A i \in 1..Len(live) : Behind(live[i], offset)'
      BY <1>1 DEF InOrder, LiveGoesOn, Behind
    <3>2. \A i, j \in 1..Len(live) : i < j => live[i] < live[j]
      BY DEF InOrder, LiveGoesOn
    <3>3. ASSUME NEW j \in 1..Len(frames'), IsLine(j)', Uncut(1, j)', NEW i \in 1..Len(live)
          PROVE  live[i] < frames'[j].line
      <4>1. 1 \in 1..Len(frames)
        BY <2>1, <2>5, <3>3
      <4>. QED  BY <2>5, <2>6, <3>3, <4>1 DEF InOrder, LiveGoesOn
    <3>. QED  BY <1>1, <3>1, <3>2, <3>3 DEF LiveGoesOn
  <2>10. TailGoesOn'
    <3>1. 1 \in 1..Len(frames')
      BY <2>1, <2>2
    <3>. QED  BY <2>7, <3>1 DEF TailGoesOn
  <2>. QED  BY <2>8, <2>9, <2>10 DEF InOrder
<1>3. CASE UNCHANGED frames /\ (tail' = [tail EXCEPT !.pc = "read"] \/ tail' = [tail EXCEPT !.pc = "check"])
  <2>1. tail.pc # "off" /\ tail'.offset = tail.offset
    BY <1>3 DEF Poll, Basic, TypeOK
  <2>. QED  BY <1>1, <1>3, <2>1, QuietInOrder
<1>. QED  BY <1>2, <1>3 DEF Poll

LEMMA ServerInOrder == ASSUME Basic, InOrder, Server PROVE InOrder'
<1>1. CASE ReadLines
  <2>1. PICK s \in 0..Len(log) :
           /\ SendsLines(s) /\ Len(frames') = Len(frames) + (Len(log) - s)
           /\ \A i \in 1..Len(log) : StartOf(log, i) < tail.offset <=> i <= s
           /\ tail' = [pc |-> "poll", offset |-> Read(tail.offset)]
           /\ Read(tail.offset) \in Nat
    BY <1>1, ReadLinesIs DEF Basic
  <2>2. UNCHANGED <<log, live, offset>> /\ tail.pc # "off"
    BY <1>1 DEF ReadLines, serverQuiet, clientVars
  <2>3. Len(log) \in Nat /\ Len(log) - s \in Nat /\ log \in Seq(Record) /\ tail.offset \in Nat
    BY GivenNumbers DEF Basic, TypeOK
  <2>4. \A i \in 1..Len(log) : StartOf(log, i) \in Nat
    BY <2>3, StartIs
  <2>5. \A i \in 1..Len(log) : i > s /\ log[i].line # 0 => StartOf(log, i) >= tail.offset
    BY <2>1, <2>3, <2>4
  <2>6. SizeOf(log) \in Nat
    BY <2>3, StartIs
  <2>7. tail'.offset \in Nat /\ tail'.offset >= SizeOf(log)
    BY <2>1, <2>3, <2>6 DEF Read
  <2>. DEFINE n == Len(log) - s
  <2>8. n \in Nat /\ Len(frames') = Len(frames) + n
    BY <2>1, <2>3
  <2>9. \A i \in 1..n : i <= Len(log) - s \/ frames'[Len(frames) + i].kind # "line"
    BY <2>3
  <2>. HIDE DEF n
  <2>. QED  BY <2>1, <2>2, <2>5, <2>7, <2>8, <2>9, SendsInOrder
<1>2. CASE Drain
  <2>1. PICK s \in 0..Len(log) :
           /\ SendsLines(s) /\ Len(frames') = Len(frames) + (Len(log) - s) + 1
           /\ frames'[Len(frames')] = Frame("end")
           /\ \A i \in (s + 1)..Len(log) : StartOf(log, i) >= tail.offset /\ log[i].line # 0
           /\ tail' = Off
    BY <1>2, DrainIs DEF Basic
  <2>2. UNCHANGED <<log, live, offset>> /\ tail.pc # "off"
    BY <1>2 DEF Drain, serverQuiet, clientVars
  <2>3. Len(log) \in Nat /\ Len(log) - s \in Nat /\ Len(frames) \in Nat
    BY GivenNumbers
  <2>4. \A i \in 1..Len(log) : i > s /\ log[i].line # 0 => StartOf(log, i) >= tail.offset
    BY <2>1, <2>3
  <2>. DEFINE n == Len(log) - s + 1
  <2>5. n \in Nat /\ Len(frames') = Len(frames) + n
    BY <2>1, <2>3
  <2>6. \A i \in 1..n : i <= Len(log) - s \/ frames'[Len(frames) + i].kind # "line"
    <3>. SUFFICES ASSUME NEW i \in 1..n, ~(i <= Len(log) - s)
                  PROVE  frames'[Len(frames) + i].kind # "line"
      OBVIOUS
    <3>1. i = n
      BY <2>3
    <3>. QED  BY <2>1, <2>5, <3>1 DEF Frame
  <2>7. tail'.pc = "off"
    BY <2>1 DEF Off
  <2>. HIDE DEF n
  <2>. QED  BY <2>1, <2>2, <2>4, <2>5, <2>6, <2>7, SendsInOrder
<1>3. CASE CheckTerminal
  <2>1. UNCHANGED <<log, live, offset, frames>>
    BY <1>3 DEF CheckTerminal, serverQuiet, clientVars
  <2>2. tail.pc # "off" /\ tail'.offset = tail.offset
    BY <1>3 DEF CheckTerminal, Basic, TypeOK
  <2>. QED  BY <2>1, <2>2, QuietInOrder
<1>. QED  BY <1>1, <1>2, <1>3, PollInOrder DEF Server

\* Without frames under way the tail is where the client is, or off.
LEMMA RestartInOrder ==
  ASSUME Basic, InOrder, UNCHANGED <<log, live, offset>>, frames' = <<>>,
         tail'.pc = "off" \/ tail'.offset = offset
  PROVE  InOrder'
<1>1. FramesInOrder'
  BY DEF FramesInOrder
<1>2. LiveGoesOn'
  <2>1. \A i \in 1..Len(live) : Behind(live[i], offset)'
    BY DEF InOrder, LiveGoesOn, Behind
  <2>2. \A i, j \in 1..Len(live) : i < j => live[i] < live[j]
    BY DEF InOrder, LiveGoesOn
  <2>. QED  BY <2>1, <2>2 DEF LiveGoesOn
<1>3. TailGoesOn'
  <2>. SUFFICES ASSUME tail'.pc # "off", NEW i \in 1..Len(live) PROVE Behind(live[i], tail.offset)'
    BY DEF TailGoesOn
  <2>1. Behind(live[i], offset)
    BY DEF InOrder, LiveGoesOn
  <2>. QED  BY <2>1 DEF Behind
<1>. QED  BY <1>1, <1>2, <1>3 DEF InOrder

LEMMA ReceiveInOrder == ASSUME Basic, InOrder, Receive PROVE InOrder'
<1>1. UNCHANGED <<log, tail>>
  BY DEF Receive, fileQuiet
<1>2. /\ Len(frames) \in Nat \ {0} /\ Head(frames) = frames[1] /\ frames[1] \in FrameRecord
      /\ Len(frames') = Len(frames) - 1
      /\ \A i \in 1..(Len(frames) - 1) : frames'[i] = frames[i + 1]
  BY ReceiveIs DEF Basic
<1>3. /\ Len(live) \in Nat
      /\ \A i \in 1..Len(live) : live[i] \in Nat
      /\ \A i \in 1..Len(frames) : frames[i].kind = "line" => frames[i].line \in Nat
      /\ \A i \in 1..Len(log) : log[i].line \in Nat /\ log[i].end \in Nat
  BY GivenNumbers
<1>4. \A j \in 1..Len(frames') : j + 1 \in 1..Len(frames) /\ frames'[j] = frames[j + 1]
  BY <1>2
<1>5. \A j \in 1..Len(frames') : IsLine(j)' => IsLine(j + 1)
  BY <1>4 DEF IsLine
<1>6. \A i, j \in 1..Len(frames') : Uncut(i, j)' => Uncut(i + 1, j + 1)
  <2>. SUFFICES ASSUME NEW i \in 1..Len(frames'), NEW j \in 1..Len(frames'), Uncut(i, j)',
                       NEW k \in 1..Len(frames), i + 1 <= k, k <= j + 1
                PROVE  frames[k].kind # "truncated"
    BY DEF Uncut
  <2>1. k - 1 \in 1..Len(frames') /\ i <= k - 1 /\ k - 1 <= j /\ (k - 1) + 1 = k
    BY <1>2
  <2>2. frames'[k - 1].kind # "truncated"
    BY <2>1 DEF Uncut
  <2>. QED  BY <1>4, <2>1, <2>2
<1>7. FramesInOrder'
  <2>1. ASSUME NEW j \in 1..Len(frames'), IsLine(j)' PROVE Behind(frames[j].line, frames[j].id)'
    <3>1. Behind(frames[j + 1].line, frames[j + 1].id)
      BY <1>4, <1>5, <2>1 DEF InOrder, FramesInOrder
    <3>. QED  BY <1>1, <1>4, <3>1 DEF Behind
  <2>2. ASSUME NEW i \in 1..Len(frames'), NEW j \in 1..Len(frames'),
               i < j, IsLine(i)', IsLine(j)', Uncut(i, j)'
        PROVE  frames'[i].line < frames'[j].line
    <3>1. i + 1 < j + 1 /\ IsLine(i + 1) /\ IsLine(j + 1) /\ Uncut(i + 1, j + 1)
      BY <1>2, <1>5, <1>6, <2>2
    <3>2. frames[i + 1].line < frames[j + 1].line
      BY <1>4, <3>1 DEF InOrder, FramesInOrder
    <3>. QED  BY <1>4, <3>2
  <2>3. (\A j \in 1..Len(frames) : IsLine(j) => Behind(frames[j].line, frames[j].id))'
    BY <2>1
  <2>. QED  BY <2>2, <2>3 DEF FramesInOrder
\* The frames behind the one received, and their place relative to the tail.
<1>8. ASSUME tail'.pc # "off", NEW i \in 1..Len(frames'), IsLine(i)', Uncut(i, Len(frames))'
      PROVE  Behind(frames[i].line, tail.offset)'
  <2>1. Uncut(i + 1, Len(frames))
    <3>1. Len(frames') \in 1..Len(frames') /\ Len(frames') + 1 = Len(frames)
      BY <1>2
    <3>. QED  BY <1>6, <1>8, <3>1
  <2>2. Behind(frames[i + 1].line, tail.offset)
    BY <1>1, <1>4, <1>5, <1>8, <2>1 DEF InOrder, TailGoesOn
  <2>. QED  BY <1>1, <1>4, <2>2 DEF Behind
<1>9. ASSUME Uncut(1, Len(frames))', frames[1].kind # "truncated"
      PROVE  Uncut(1, Len(frames))
  <2>. SUFFICES ASSUME NEW k \in 1..Len(frames) PROVE frames[k].kind # "truncated"
    BY DEF Uncut
  <2>1. k = 1 \/ (k - 1 \in 1..Len(frames') /\ (k - 1) + 1 = k)
    BY <1>2
  <2>2. ASSUME k - 1 \in 1..Len(frames'), (k - 1) + 1 = k PROVE frames[k].kind # "truncated"
    <3>1. 1 <= k - 1 /\ k - 1 <= Len(frames')
      BY <1>2, <2>2
    <3>2. frames'[k - 1].kind # "truncated"
      BY <1>9, <2>2, <3>1 DEF Uncut
    <3>. QED  BY <1>4, <2>2, <3>2
  <2>. QED  BY <1>9, <2>1, <2>2
<1>10. ASSUME frames[1].kind # "truncated", NEW j \in 1..Len(frames'), Uncut(1, j)'
       PROVE  Uncut(1, j + 1)
  <2>. SUFFICES ASSUME NEW k \in 1..Len(frames), k <= j + 1 PROVE frames[k].kind # "truncated"
    BY DEF Uncut
  <2>1. k = 1 \/ (k - 1 \in 1..Len(frames') /\ (k - 1) + 1 = k)
    BY <1>2
  <2>2. ASSUME k - 1 \in 1..Len(frames'), (k - 1) + 1 = k PROVE frames[k].kind # "truncated"
    <3>1. 1 <= k - 1 /\ k - 1 <= j
      BY <1>2, <2>2
    <3>2. frames'[k - 1].kind # "truncated"
      BY <1>10, <2>2, <3>1 DEF Uncut
    <3>. QED  BY <1>4, <2>2, <3>2
  <2>. QED  BY <1>10, <2>1, <2>2
<1>11. CASE /\ frames[1].kind = "line" /\ offset' = frames[1].id
            /\ live' = Last_n(Append(live, frames[1].line), Window)
  <2>1. /\ 1 \in 1..Len(frames) /\ IsLine(1) /\ frames[1].kind # "truncated"
        /\ frames[1].line \in Nat /\ live \in Entries /\ frames[1].line \in 1..MaxLines
    <3>1. 1 \in 1..Len(frames)
      BY <1>2
    <3>2. frames[1].line \in 1..written /\ written \in 0..MaxLines
      BY <1>11, <3>1 DEF Basic, Told, TypeOK
    <3>3. frames[1].line \in 1..MaxLines
      BY <3>2, LogAssumption
    <3>. QED  BY <1>11, <3>1, <3>3 DEF IsLine, Basic, TypeOK
  <2>. DEFINE d == Hidden(Len(live) + 1, Window)
  <2>2. /\ Len(live') = Len(live) + 1 - d
        /\ \A i \in 1..(Len(live) + 1 - d) :
              /\ d + i \in 1..(Len(live) + 1)
              /\ d + i = Len(live) + 1 => live'[i] = frames[1].line
              /\ d + i # Len(live) + 1 => d + i \in 1..Len(live) /\ live'[i] = live[d + i]
    BY <1>11, <2>1, ViewIs
  <2>3. d \in Nat
    <3>. DEFINE len == Len(live) + 1
    <3>1. len \in Nat /\ Window \in Nat
      BY <1>3, LogAssumption
    <3>. HIDE DEF len
    <3>2. Hidden(len, Window) \in 0..len
      BY <3>1, HiddenIs
    <3>. QED  BY <3>1, <3>2 DEF len
  <2>. HIDE DEF d
  <2>4. \A i \in 1..Len(live) : live[i] < frames[1].line
    <3>1. Uncut(1, 1)
      BY <1>11 DEF Uncut
    <3>. QED  BY <2>1, <3>1 DEF InOrder, LiveGoesOn
  \* What is shown now was shown before or is the line.
  <2>5. ASSUME NEW i \in 1..Len(live')
        PROVE  \/ live'[i] = frames[1].line
               \/ d + i \in 1..Len(live) /\ live'[i] = live[d + i]
    BY <2>2
  <2>6. ASSUME NEW i \in 1..Len(live'), NEW j \in 1..Len(live'), i < j
        PROVE  live'[i] < live'[j]
    <3>1. /\ d + i \in 1..(Len(live) + 1) /\ d + j \in 1..(Len(live) + 1) /\ d + i < d + j
      BY <2>2, <2>3, <2>6
    <3>2. d + i # Len(live) + 1
      BY <1>3, <3>1
    <3>3. d + i \in 1..Len(live) /\ live'[i] = live[d + i]
      BY <2>2, <3>2
    <3>4. CASE d + j = Len(live) + 1
      BY <2>2, <2>4, <3>3, <3>4
    <3>5. CASE d + j # Len(live) + 1
      <4>1. d + j \in 1..Len(live) /\ live'[j] = live[d + j]
        BY <2>2, <3>5
      <4>. QED  BY <3>1, <3>3, <4>1 DEF InOrder, LiveGoesOn
    <3>. QED  BY <3>4, <3>5
  <2>7. ASSUME NEW place, Behind(frames[1].line, place), NEW i \in 1..Len(live')
        PROVE  Behind(live'[i], place)
    <3>1. CASE live'[i] = frames[1].line
      BY <2>7, <3>1
    <3>2. CASE d + i \in 1..Len(live) /\ live'[i] = live[d + i]
      <4>1. live[d + i] < frames[1].line /\ live[d + i] \in Nat
        BY <1>3, <2>4, <3>2
      <4>. QED  BY <1>3, <2>1, <2>7, <3>2, <4>1 DEF Behind
    <3>. QED  BY <2>5, <3>1, <3>2
  <2>8. LiveGoesOn'
    <3>1. ASSUME NEW i \in 1..Len(live') PROVE Behind(live[i], offset)'
      <4>1. Behind(frames[1].line, frames[1].id)
        BY <2>1 DEF InOrder, FramesInOrder
      <4>2. Behind(live'[i], frames[1].id)
        BY <2>7, <4>1
      <4>. QED  BY <1>1, <1>11, <4>2 DEF Behind
    <3>2. ASSUME NEW j \in 1..Len(frames'), IsLine(j)', Uncut(1, j)', NEW i \in 1..Len(live')
          PROVE  live'[i] < frames'[j].line
      <4>1. Uncut(1, j + 1) /\ IsLine(j + 1) /\ j + 1 \in 1..Len(frames) /\ 1 < j + 1
        BY <1>2, <1>4, <1>5, <1>10, <2>1, <3>2
      <4>2. frames[1].line < frames[j + 1].line /\ frames[j + 1].line \in Nat
        BY <1>3, <2>1, <4>1 DEF InOrder, FramesInOrder, IsLine
      <4>3. CASE live'[i] = frames[1].line
        BY <1>4, <4>2, <4>3
      <4>4. CASE d + i \in 1..Len(live) /\ live'[i] = live[d + i]
        BY <1>4, <4>1, <4>4 DEF InOrder, LiveGoesOn
      <4>. QED  BY <2>5, <4>3, <4>4
    <3>3. (\A i \in 1..Len(live) : Behind(live[i], offset))'
      BY <3>1
    <3>. QED  BY <2>6, <3>2, <3>3 DEF LiveGoesOn
  <2>9. TailGoesOn'
    <3>. SUFFICES ASSUME tail'.pc # "off" PROVE TailGoesOn'
      BY DEF TailGoesOn
    <3>1. ASSUME Uncut(1, Len(frames))', NEW i \in 1..Len(live') PROVE Behind(live[i], tail.offset)'
      <4>1. Uncut(1, Len(frames))
        BY <1>9, <2>1, <3>1
      <4>2. Behind(frames[1].line, tail.offset)
        BY <1>1, <2>1, <4>1 DEF InOrder, TailGoesOn
      <4>3. Behind(live'[i], tail.offset)
        BY <2>7, <4>2
      <4>. QED  BY <1>1, <4>3 DEF Behind
    <3>2. (\A i \in 1..Len(frames) : IsLine(i) /\ Uncut(i, Len(frames)) =>
              Behind(frames[i].line, tail.offset))'
      BY <1>8
    <3>3. (Uncut(1, Len(frames)) => \A i \in 1..Len(live) : Behind(live[i], tail.offset))'
      BY <3>1
    <3>. QED  BY <3>2, <3>3 DEF TailGoesOn
  <2>. QED  BY <1>7, <2>8, <2>9 DEF InOrder
<1>12. CASE frames[1].kind = "truncated" /\ live' = <<>>
  <2>1. LiveGoesOn'
    BY <1>12 DEF LiveGoesOn
  <2>2. TailGoesOn'
    <3>1. (\A i \in 1..Len(frames) : tail.pc # "off" /\ IsLine(i) /\ Uncut(i, Len(frames)) =>
              Behind(frames[i].line, tail.offset))'
      BY <1>8
    <3>. QED  BY <1>12, <3>1 DEF TailGoesOn
  <2>. QED  BY <1>7, <2>1, <2>2 DEF InOrder
<1>13. CASE frames[1].kind = "end" /\ UNCHANGED <<offset, live>>
  <2>1. LiveGoesOn'
    <3>1. \A i \in 1..Len(live) : Behind(live[i], offset)'
      BY <1>1, <1>13 DEF InOrder, LiveGoesOn, Behind
    <3>2. \A i, j \in 1..Len(live) : i < j => live[i] < live[j]
      BY DEF InOrder, LiveGoesOn
    <3>3. ASSUME NEW j \in 1..Len(frames'), IsLine(j)', Uncut(1, j)', NEW i \in 1..Len(live)
          PROVE  live[i] < frames'[j].line
      <4>1. Uncut(1, j + 1) /\ IsLine(j + 1) /\ j + 1 \in 1..Len(frames)
        BY <1>4, <1>5, <1>10, <1>13, <3>3
      <4>. QED  BY <1>4, <4>1 DEF InOrder, LiveGoesOn
    <3>. QED  BY <1>13, <3>1, <3>2, <3>3 DEF LiveGoesOn
  <2>2. TailGoesOn'
    <3>. SUFFICES ASSUME tail'.pc # "off" PROVE TailGoesOn'
      BY DEF TailGoesOn
    <3>1. ASSUME Uncut(1, Len(frames))', NEW i \in 1..Len(live) PROVE Behind(live[i], tail.offset)'
      <4>1. Uncut(1, Len(frames))
        BY <1>9, <1>13, <3>1
      <4>2. Behind(live[i], tail.offset)
        BY <1>1, <4>1 DEF InOrder, TailGoesOn
      <4>. QED  BY <1>1, <1>13, <4>2 DEF Behind
    <3>2. (\A i \in 1..Len(frames) : IsLine(i) /\ Uncut(i, Len(frames)) =>
              Behind(frames[i].line, tail.offset))'
      BY <1>8
    <3>3. (Uncut(1, Len(frames)) => \A i \in 1..Len(live) : Behind(live[i], tail.offset))'
      BY <1>13, <3>1
    <3>. QED  BY <3>2, <3>3 DEF TailGoesOn
  <2>. QED  BY <1>7, <2>1, <2>2 DEF InOrder
<1>. QED  BY <1>2, <1>11, <1>12, <1>13 DEF Receive

LEMMA NextInOrder == Basic /\ InOrder /\ [Next]_vars => InOrder'
<1>. SUFFICES ASSUME Basic, InOrder, [Next]_vars PROVE InOrder'
  OBVIOUS
<1>1. ASSUME NEW size \in Sizes, Write(size) PROVE InOrder'
  BY <1>1, WriteInOrder
<1>2. CASE Settle \/ Reclaim \/ ProcessEnds \/ UNCHANGED vars
  BY <1>2, QuietInOrder DEF Settle, Reclaim, ProcessEnds, clientVars, vars
<1>3. CASE Server
  BY <1>3, ServerInOrder
<1>4. CASE Connect
  BY <1>4, RestartInOrder DEF Connect, fileQuiet
<1>5. CASE Disconnect
  BY <1>5, RestartInOrder DEF Disconnect, fileQuiet, Off
<1>6. CASE Receive
  BY <1>6, ReceiveInOrder
<1>7. ASSUME NEW terminal \in BOOLEAN, Open(terminal) PROVE InOrder'
  BY <1>7, QuietInOrder DEF Open, fileQuiet
<1>8. CASE CaptureRead \/ CaptureArrives \/ CaptureFails
  BY <1>8, QuietInOrder DEF CaptureRead, CaptureArrives, CaptureFails, fileQuiet
<1>. QED  BY <1>1, <1>2, <1>3, <1>4, <1>5, <1>6, <1>7, <1>8 DEF Next

\* However often the file is rotated and the connection lost, the live view shows each
\* line once and in the order of writing.
THEOREM LogLiveInOrder == Spec => []LiveInOrder
<1>1. Init => InOrder
  BY DEF Init, InOrder, FramesInOrder, LiveGoesOn, TailGoesOn, Off
<1>2. Basic /\ InOrder => LiveInOrder
  <2>. SUFFICES ASSUME Basic, InOrder PROVE LiveInOrder
    OBVIOUS
  <2>1. DOMAIN live = 1..Len(live)
    BY DEF Basic, TypeOK, Entries
  <2>. QED  BY <2>1 DEF InOrder, LiveGoesOn, LiveInOrder
<1>. QED  BY <1>1, <1>2, InitBasic, NextBasic, NextInOrder, PTL DEF Spec
-----------------------------------------------------------------------------
(* As long as the file is not rotated *)

\* Every record is there and has its number, and none comes after the attempt was
\* settled.
Complete ==
    /\ Len(log) = written /\ \A i \in 1..Len(log) : log[i].line = i
    /\ attempt = "settled" => ~alive

\* The view has the first k lines, the cursor is behind them, the frames are the lines
\* that follow, and the tail is behind those.
Following(k) ==
    /\ offset = StartOf(log, k + 1)
    /\ Len(live) = k - Hidden(k, Window)
    /\ \A i \in 1..Len(live) : live[i] = Hidden(k, Window) + i
    /\ \A j \in 1..Len(frames) : frames[j].kind = "line" =>
          /\ k + j \in 1..Len(log)
          /\ frames[j].line = k + j /\ frames[j].id = log[k + j].end
    /\ tail.pc # "off" =>
          k + Len(frames) <= Len(log) /\ tail.offset = StartOf(log, k + Len(frames) + 1)

\* The end comes last, not before the attempt is terminal, and behind everything if its
\* worker settled it.
Ending(k) ==
    /\ \A j \in 1..Len(frames) : frames[j].kind # "line" =>
          /\ frames[j].kind = "end" /\ j = Len(frames) /\ tail.pc = "off"
          /\ attempt # "running"
          /\ attempt = "settled" => k + j = Len(log) + 1
    /\ tail.pc = "drain" => attempt # "running"
    /\ viewer = "tail" /\ stream = "ended" =>
          attempt # "running" /\ (attempt = "settled" => k = Len(log))

Unbroken == ~rotated => Complete /\ \E k \in 0..Len(log) : Following(k) /\ Ending(k)

\* Where the records start.
LEMMA Starts ==
  ASSUME log \in Seq(Record), Increasing(log), NEW m \in 0..Len(log)
  PROVE  /\ StartOf(log, m + 1) \in Nat /\ SizeOf(log) \in Nat /\ StartOf(log, m + 1) <= SizeOf(log)
         /\ StartOf(log, Len(log) + 1) = SizeOf(log)
         /\ SizeOf(log) = StartOf(log, m + 1) => m = Len(log)
         /\ \A i \in 1..Len(log) : StartOf(log, i) < StartOf(log, m + 1) <=> i <= m
         /\ \A i \in 1..Len(log) : log[i].end <= StartOf(log, m + 1) <=> i <= m
<1>1. Len(log) \in Nat /\ DOMAIN log = 1..Len(log) /\ (log = <<>> <=> Len(log) = 0)
  OBVIOUS
<1>2. \A i \in 1..Len(log) : log[i].end \in Nat /\ log[i].end > 0
  BY RecordAt, LogAssumption
<1>3. \A i, j \in 1..Len(log) : i < j => log[i].end < log[j].end
  BY <1>1 DEF Increasing
<1>4. \A i \in 1..(Len(log) + 1) : StartOf(log, i) = IF i = 1 THEN 0 ELSE log[i - 1].end
  BY DEF StartOf
<1>5. SizeOf(log) = IF Len(log) = 0 THEN 0 ELSE log[Len(log)].end
  BY <1>1 DEF SizeOf
<1>6. StartOf(log, m + 1) = IF m = 0 THEN 0 ELSE log[m].end
  BY <1>1, <1>4
<1>7. \A i \in 1..Len(log) : i # m => i < m \/ m < i
  BY <1>1
<1>8. m # 0 => m \in 1..Len(log)
  BY <1>1
<1>9. Len(log) # 0 => Len(log) \in 1..Len(log)
  BY <1>1
<1>10. \A i \in 1..Len(log) : log[i].end <= StartOf(log, m + 1) <=> i <= m
  <2>. SUFFICES ASSUME NEW i \in 1..Len(log)
                PROVE  log[i].end <= StartOf(log, m + 1) <=> i <= m
    OBVIOUS
  <2>1. CASE m = 0
    BY <1>2, <1>6, <2>1
  <2>2. CASE m # 0 /\ i < m
    BY <1>2, <1>3, <1>6, <1>8, <2>2
  <2>3. CASE m # 0 /\ i = m
    BY <1>2, <1>6, <1>8, <2>3
  <2>4. CASE m # 0 /\ m < i
    BY <1>2, <1>3, <1>6, <1>8, <2>4
  <2>. QED  BY <1>7, <2>1, <2>2, <2>3, <2>4
<1>11. StartOf(log, m + 1) \in Nat /\ SizeOf(log) \in Nat
  BY <1>2, <1>5, <1>6, <1>8, <1>9
<1>12. m # Len(log) => StartOf(log, m + 1) < SizeOf(log)
  <2>. SUFFICES ASSUME m # Len(log) PROVE StartOf(log, m + 1) < SizeOf(log)
    OBVIOUS
  <2>1. m < Len(log) /\ Len(log) # 0
    <3>1. \A n \in Nat : \A l \in 0..n : l # n => l < n /\ n # 0
      OBVIOUS
    <3>. QED  BY <1>1, <3>1
  <2>. QED  BY <1>2, <1>3, <1>5, <1>6, <1>8, <1>9, <2>1
<1>13. StartOf(log, Len(log) + 1) = SizeOf(log)
  <2>1. Len(log) + 1 \in 1..(Len(log) + 1) /\ (Len(log) + 1 = 1 <=> Len(log) = 0)
        /\ (Len(log) + 1) - 1 = Len(log)
    BY <1>1
  <2>. QED  BY <1>4, <1>5, <2>1
<1>14. \A i \in 1..Len(log) : StartOf(log, i) < StartOf(log, m + 1) <=> i <= m
  <2>. SUFFICES ASSUME NEW i \in 1..Len(log)
                PROVE  StartOf(log, i) < StartOf(log, m + 1) <=> i <= m
    OBVIOUS
  <2>1. CASE i = 1
    <3>1. StartOf(log, i) = 0
      BY <2>1 DEF StartOf
    <3>2. StartOf(log, m + 1) > 0 <=> m # 0
      BY <1>2, <1>6, <1>8
    <3>. QED  BY <2>1, <3>1, <3>2
  <2>2. CASE i # 1
    <3>1. i - 1 \in 1..Len(log) /\ StartOf(log, i) = log[i - 1].end
      BY <1>1, <2>2 DEF StartOf
    <3>2. m = i - 1 \/ i - 1 < m \/ m < i - 1
      BY <1>1
    <3>3. CASE m = i - 1
      BY <1>2, <1>6, <3>1, <3>3
    <3>4. CASE i - 1 < m
      <4>1. m \in 1..Len(log) /\ m # 0 /\ i <= m
        BY <3>1, <3>4
      <4>. QED  BY <1>2, <1>3, <1>6, <3>1, <3>4, <4>1
    <3>5. CASE m < i - 1
      <4>1. ~(i <= m)
        BY <3>5
      <4>2. ~(log[i - 1].end <= StartOf(log, m + 1))
        BY <1>10, <3>1, <3>5
      <4>3. log[i - 1].end \in Nat
        BY <1>2, <3>1
      <4>. QED  BY <1>11, <3>1, <4>1, <4>2, <4>3
    <3>. QED  BY <3>2, <3>3, <3>4, <3>5
  <2>. QED  BY <2>1, <2>2
<1>. QED  BY <1>10, <1>11, <1>12, <1>13, <1>14

\* Nothing happens to what is sent and shown.
LEMMA QuietUnbroken ==
  ASSUME Unbroken, UNCHANGED <<log, written, rotated, frames, offset, live>>,
         tail'.pc = "off" \/ (tail.pc # "off" /\ tail'.offset = tail.offset),
         tail.pc = "off" => tail'.pc = "off",
         tail'.pc = "drain" => attempt' # "running",
         attempt = "running" \/ attempt' = attempt, attempt' = "running" => attempt = "running",
         attempt' = "settled" => ~alive',
         viewer' = "tail" /\ stream' = "ended" => viewer = "tail" /\ stream = "ended"
  PROVE  Unbroken'
<1>. SUFFICES ASSUME ~rotated' PROVE Unbroken'
  BY DEF Unbroken
<1>1. PICK k \in 0..Len(log) : Following(k) /\ Ending(k)
  BY DEF Unbroken
<1>2. Complete'
  BY DEF Complete, Unbroken
<1>3. Following(k)'
  BY <1>1 DEF Following, StartOf
<1>4. Ending(k)'
  BY <1>1 DEF Ending
<1>. QED  BY <1>1, <1>2, <1>3, <1>4 DEF Unbroken

\* Without frames under way the tail is where the client is, or off.
LEMMA RestartUnbroken ==
  ASSUME Basic, Unbroken, UNCHANGED <<log, written, rotated, attempt, alive, live, offset>>,
         frames' = <<>>, tail'.pc = "off" \/ tail'.offset = offset, tail'.pc # "drain", stream' # "ended"
  PROVE  Unbroken'
<1>. SUFFICES ASSUME ~rotated' PROVE Unbroken'
  BY DEF Unbroken
<1>1. PICK k \in 0..Len(log) : Following(k) /\ Ending(k)
  BY DEF Unbroken
<1>2. Complete'
  BY DEF Complete, Unbroken
<1>3. Len(frames') = 0 /\ k + Len(frames') = k /\ k \in Nat /\ k <= Len(log)
  BY GivenNumbers
<1>4. Following(k)'
  BY <1>1, <1>3 DEF Following, StartOf
<1>5. Ending(k)'
  BY <1>1, <1>3 DEF Ending
<1>. QED  BY <1>1, <1>2, <1>4, <1>5 DEF Unbroken

LEMMA WriteUnbroken ==
  ASSUME Basic, Unbroken, NEW size \in Sizes, Write(size)
  PROVE  Unbroken'
<1>. SUFFICES ASSUME ~rotated' PROVE Unbroken'
  BY DEF Unbroken
<1>1. /\ written' = written + 1 /\ ~rotated /\ Len(log') = Len(log) + 1
      /\ \A i \in 1..Len(log) : log'[i] = log[i]
      /\ log'[Len(log) + 1].line = written + 1
  BY WriteIs DEF Basic
<1>2. /\ UNCHANGED <<attempt, alive, tail, frames, offset, live, viewer, stream>> /\ alive
  BY DEF Write, clientVars
<1>3. Complete /\ attempt # "settled"
  BY <1>1, <1>2 DEF Unbroken, Complete
<1>4. PICK k \in 0..Len(log) : Following(k) /\ Ending(k)
  BY <1>1 DEF Unbroken
<1>5. Len(log) \in Nat /\ Len(frames) \in Nat /\ written \in Nat
  BY GivenNumbers
<1>6. Complete'
  <2>1. \A i \in 1..Len(log') : i \in 1..Len(log) \/ i = Len(log) + 1
    BY <1>1, <1>5
  <2>2. \A i \in 1..Len(log') : log'[i].line = i
    BY <1>1, <1>3, <2>1 DEF Complete
  <2>. QED  BY <1>1, <1>2, <1>3, <2>2 DEF Complete
<1>7. \A m \in 0..Len(log) : StartOf(log, m + 1)' = StartOf(log, m + 1)
  <2>. SUFFICES ASSUME NEW m \in 0..Len(log) PROVE StartOf(log, m + 1)' = StartOf(log, m + 1)
    OBVIOUS
  <2>1. m = 0 \/ (m \in 1..Len(log) /\ (m + 1) - 1 = m /\ m + 1 # 1)
    BY <1>5
  <2>. QED  BY <1>1, <2>1 DEF StartOf
<1>8. Following(k)'
  <2>1. offset' = StartOf(log, k + 1)'
    BY <1>2, <1>4, <1>7 DEF Following
  <2>2. \A j \in 1..Len(frames) : frames[j].kind = "line" =>
          /\ k + j \in 1..Len(log')
          /\ frames[j].line = k + j /\ frames[j].id = log'[k + j].end
    <3>. SUFFICES ASSUME NEW j \in 1..Len(frames), frames[j].kind = "line"
                  PROVE  /\ k + j \in 1..Len(log')
                         /\ frames[j].line = k + j /\ frames[j].id = log'[k + j].end
      OBVIOUS
    <3>1. k + j \in 1..Len(log) /\ frames[j].line = k + j /\ frames[j].id = log[k + j].end
      BY <1>4 DEF Following
    <3>. QED  BY <1>1, <1>5, <3>1
  <2>3. tail.pc # "off" =>
          k + Len(frames) <= Len(log') /\ tail.offset = StartOf(log, k + Len(frames) + 1)'
    <3>. SUFFICES ASSUME tail.pc # "off"
                  PROVE  k + Len(frames) <= Len(log') /\ tail.offset = StartOf(log, k + Len(frames) + 1)'
      OBVIOUS
    <3>1. k + Len(frames) <= Len(log) /\ tail.offset = StartOf(log, k + Len(frames) + 1)
      BY <1>4 DEF Following
    <3>2. k + Len(frames) \in 0..Len(log) /\ k + Len(frames) <= Len(log')
      BY <1>1, <1>5, <3>1
    <3>3. StartOf(log, k + Len(frames) + 1)' = StartOf(log, k + Len(frames) + 1)
      BY <1>2, <1>7, <3>2
    <3>. QED  BY <3>1, <3>2, <3>3
  <2>. QED  BY <1>2, <1>4, <2>1, <2>2, <2>3 DEF Following
<1>9. Ending(k)'
  BY <1>2, <1>3, <1>4 DEF Ending
<1>. QED  BY <1>1, <1>5, <1>6, <1>8, <1>9 DEF Unbroken

\* The tail sends exactly what follows the frames.
LEMMA SentFollow ==
  ASSUME Basic, Complete, NEW k \in 0..Len(log), Following(k), Ending(k), tail.pc # "off",
         NEW s, SendsLines(s),
         \A i \in 1..Len(log) : i <= s <=> StartOf(log, i) < tail.offset
  PROVE  /\ Len(frames) + (Len(log) - s) = Len(log) - k
         /\ \A j \in 1..(Len(log) - k) :
               /\ frames'[j].kind = "line" /\ k + j \in 1..Len(log)
               /\ frames'[j].line = k + j /\ frames'[j].id = log[k + j].end
<1>. DEFINE m == k + Len(frames)
<1>1. /\ Len(log) \in Nat /\ Len(frames) \in Nat /\ k \in Nat
      /\ log \in Seq(Record) /\ Increasing(log)
  BY GivenNumbers DEF Basic, TypeOK, Increasing
<1>2. m <= Len(log) /\ tail.offset = StartOf(log, m + 1)
  BY DEF Following
<1>3. m \in 0..Len(log) /\ s \in 0..Len(log)
  BY <1>1, <1>2 DEF SendsLines
<1>4. \A i \in 1..Len(log) : i <= s <=> i <= m
  <2>. HIDE DEF m
  <2>1. \A i \in 1..Len(log) : StartOf(log, i) < StartOf(log, m + 1) <=> i <= m
    BY ONLY <1>1, <1>3, Starts
  <2>. QED  BY ONLY <1>2, <2>1, \A i \in 1..Len(log) : i <= s <=> StartOf(log, i) < tail.offset
<1>5. s = m
  <2>1. s < m => s + 1 \in 1..Len(log) /\ s + 1 <= m /\ ~(s + 1 <= s)
    BY <1>1, <1>3
  <2>2. m < s => m + 1 \in 1..Len(log) /\ m + 1 <= s /\ ~(m + 1 <= m)
    BY <1>1, <1>3
  <2>3. s < m \/ m < s \/ s = m
    BY <1>1, <1>3
  <2>. QED  BY <1>4, <2>1, <2>2, <2>3
<1>6. Len(frames) + (Len(log) - s) = Len(log) - k
  BY <1>1, <1>5
<1>7. ASSUME NEW j \in 1..(Len(log) - k)
      PROVE  /\ frames'[j].kind = "line" /\ k + j \in 1..Len(log)
             /\ frames'[j].line = k + j /\ frames'[j].id = log[k + j].end
  <2>1. k + j \in 1..Len(log)
    BY <1>1
  <2>2. CASE j <= Len(frames)
    <3>1. j \in 1..Len(frames) /\ frames'[j] = frames[j]
      BY <1>1, <2>2 DEF SendsLines
    <3>2. frames[j].kind = "line"
      BY <3>1 DEF Ending
    <3>. QED  BY <2>1, <3>1, <3>2 DEF Following
  <2>3. CASE j > Len(frames)
    <3>. DEFINE e == j - Len(frames)
    <3>1. e \in 1..(Len(log) - s) /\ Len(frames) + e = j /\ s + e = k + j
      BY <1>1, <1>5, <2>3
    <3>. HIDE DEF e
    <3>2. frames'[j] = EventOf(log[k + j])
      BY <3>1 DEF SendsLines
    <3>3. log[k + j].line = k + j /\ k + j # 0
      BY <2>1 DEF Complete
    <3>. QED  BY <2>1, <3>2, <3>3 DEF EventOf
  <2>. QED  BY <1>1, <2>2, <2>3
<1>. QED  BY <1>6, <1>7

LEMMA ServerUnbroken == ASSUME Basic, Unbroken, Server PROVE Unbroken'
<1>1. UNCHANGED <<log, written, rotated, attempt, alive, offset, live, viewer, stream>>
  BY DEF Server, Poll, ReadLines, CheckTerminal, Drain, serverQuiet, clientVars
<1>. SUFFICES ASSUME ~rotated PROVE Unbroken'
  BY <1>1 DEF Unbroken
<1>2. PICK k \in 0..Len(log) : Following(k) /\ Ending(k)
  BY DEF Unbroken
<1>3. Complete /\ Complete'
  BY <1>1 DEF Unbroken, Complete
<1>4. /\ Len(log) \in Nat /\ Len(frames) \in Nat /\ k \in Nat /\ k <= Len(log)
      /\ log \in Seq(Record) /\ Increasing(log)
  BY GivenNumbers DEF Basic, TypeOK, Increasing
<1>5. tail.pc # "off" => /\ tail.offset \in Nat /\ SizeOf(log) \in Nat /\ tail.offset <= SizeOf(log)
                         /\ SizeOf(log) = StartOf(log, Len(log) + 1)
  <2>. SUFFICES ASSUME tail.pc # "off"
                PROVE  /\ tail.offset \in Nat /\ SizeOf(log) \in Nat /\ tail.offset <= SizeOf(log)
                       /\ SizeOf(log) = StartOf(log, Len(log) + 1)
    OBVIOUS
  <2>. DEFINE m == k + Len(frames)
  <2>1. m <= Len(log) /\ tail.offset = StartOf(log, m + 1)
    BY <1>2 DEF Following
  <2>2. m \in 0..Len(log)
    BY <1>4, <2>1
  <2>. HIDE DEF m
  <2>. QED  BY <1>4, <2>1, <2>2, Starts
<1>6. CASE Poll
  <2>1. ~(SizeOf(log) < tail.offset)
    BY <1>5, <1>6 DEF Poll
  <2>2. UNCHANGED frames /\ tail.pc # "off" /\ tail'.offset = tail.offset /\ tail'.pc # "drain"
    BY <1>6, <2>1 DEF Poll, Basic, TypeOK
  <2>3. alive' = alive /\ (attempt' = "settled" => ~alive')
    BY <1>1, <1>3 DEF Complete
  <2>. QED  BY <1>1, <2>2, <2>3, QuietUnbroken
<1>7. CASE CheckTerminal
  <2>1. UNCHANGED frames /\ tail.pc # "off" /\ tail'.offset = tail.offset
        /\ (tail'.pc = "drain" => attempt' # "running")
    BY <1>1, <1>7 DEF CheckTerminal, serverQuiet, Basic, TypeOK
  <2>2. alive' = alive /\ (attempt' = "settled" => ~alive')
    BY <1>1, <1>3 DEF Complete
  <2>. QED  BY <1>1, <2>1, <2>2, QuietUnbroken
<1>8. CASE ReadLines
  <2>1. PICK s \in 0..Len(log) :
           /\ SendsLines(s) /\ Len(frames') = Len(frames) + (Len(log) - s)
           /\ \A i \in 1..Len(log) : StartOf(log, i) < tail.offset <=> i <= s
           /\ tail' = [pc |-> "poll", offset |-> Read(tail.offset)]
    BY <1>8, ReadLinesIs DEF Basic
  <2>2. tail.pc # "off"
    BY <1>8 DEF ReadLines
  <2>3. /\ Len(frames') = Len(log) - k
        /\ \A j \in 1..(Len(log) - k) :
               /\ frames'[j].kind = "line" /\ k + j \in 1..Len(log)
               /\ frames'[j].line = k + j /\ frames'[j].id = log[k + j].end
    BY <1>2, <1>3, <2>1, <2>2, SentFollow
  <2>4. tail'.offset = SizeOf(log) /\ tail'.pc = "poll"
    BY <1>5, <2>1, <2>2 DEF Read
  <2>5. k + Len(frames') = Len(log)
    BY <1>4, <2>3
  <2>6. Following(k)'
    <3>1. StartOf(log, k + Len(frames) + 1)' = SizeOf(log)
      BY <1>1, <1>5, <2>2, <2>5 DEF StartOf
    <3>2. offset' = StartOf(log, k + 1)' /\ Len(live') = k - Hidden(k, Window)
          /\ \A i \in 1..Len(live') : live'[i] = Hidden(k, Window) + i
      BY <1>1, <1>2 DEF Following, StartOf
    <3>3. k + Len(frames') <= Len(log')
      BY <1>1, <1>4, <2>5
    <3>. QED  BY <1>1, <2>3, <2>4, <3>1, <3>2, <3>3 DEF Following
  <2>7. Ending(k)'
    BY <1>1, <1>2, <2>3, <2>4 DEF Ending
  <2>. QED  BY <1>1, <1>3, <2>6, <2>7 DEF Unbroken
<1>9. CASE Drain
  <2>1. PICK s \in 0..Len(log) :
           /\ SendsLines(s) /\ Len(frames') = Len(frames) + (Len(log) - s) + 1
           /\ frames'[Len(frames')] = Frame("end")
           /\ \A i \in (s + 1)..Len(log) : StartOf(log, i) >= tail.offset /\ log[i].line # 0
           /\ \A i \in 1..s : StartOf(log, i) < tail.offset \/ log[i].line = 0
           /\ tail' = Off
    BY <1>9, DrainIs DEF Basic
  <2>2. tail.pc # "off" /\ attempt # "running"
    BY <1>2, <1>9 DEF Drain, Ending
  <2>3. \A i \in 1..Len(log) : i <= s <=> StartOf(log, i) < tail.offset
    <3>. SUFFICES ASSUME NEW i \in 1..Len(log) PROVE i <= s <=> StartOf(log, i) < tail.offset
      OBVIOUS
    <3>1. StartOf(log, i) \in Nat /\ tail.offset \in Nat /\ log[i].line # 0
      BY <1>3, <1>4, <1>5, <2>2, StartIs DEF Complete
    <3>2. i \in 1..s \/ (i \in (s + 1)..Len(log) /\ ~(i <= s))
      BY <1>4, <2>1
    <3>. QED  BY <2>1, <3>1, <3>2
  <2>4. /\ Len(frames) + (Len(log) - s) = Len(log) - k
        /\ \A j \in 1..(Len(log) - k) :
               /\ frames'[j].kind = "line" /\ k + j \in 1..Len(log)
               /\ frames'[j].line = k + j /\ frames'[j].id = log[k + j].end
    BY <1>2, <1>3, <2>1, <2>2, <2>3, SentFollow
  <2>5. Len(frames') = Len(log) - k + 1
    BY <2>1, <2>4
  <2>6. \A j \in 1..Len(frames') :
           j \in 1..(Len(log) - k) \/ (j = Len(frames') /\ k + j = Len(log) + 1)
    BY <1>4, <2>5
  <2>7. tail'.pc = "off" /\ frames'[Len(frames')].kind = "end"
    BY <2>1 DEF Off, Frame
  <2>8. Following(k)'
    <3>1. offset' = StartOf(log, k + 1)' /\ Len(live') = k - Hidden(k, Window)
          /\ \A i \in 1..Len(live') : live'[i] = Hidden(k, Window) + i
      BY <1>1, <1>2 DEF Following, StartOf
    <3>2. \A j \in 1..Len(frames') : frames'[j].kind = "line" =>
             /\ k + j \in 1..Len(log)
             /\ frames'[j].line = k + j /\ frames'[j].id = log[k + j].end
      BY <2>4, <2>6, <2>7
    <3>. QED  BY <1>1, <2>7, <3>1, <3>2 DEF Following
  <2>9. Ending(k)'
    <3>1. \A j \in 1..Len(frames') : frames'[j].kind # "line" =>
             j = Len(frames') /\ k + j = Len(log) + 1
      BY <2>4, <2>6
    <3>. QED  BY <1>1, <1>2, <2>2, <2>7, <3>1 DEF Ending
  <2>. QED  BY <1>1, <1>3, <2>8, <2>9 DEF Unbroken
<1>. QED  BY <1>6, <1>7, <1>8, <1>9 DEF Server

\* A window that is shown goes on as the window of everything does.
LEMMA HiddenGoesOn ==
  ASSUME NEW k \in Nat, NEW n \in Nat
  PROVE  Hidden(k + 1, n) = Hidden(k, n) + Hidden(k - Hidden(k, n) + 1, n)
  BY DEF Hidden

LEMMA ReceiveUnbroken == ASSUME Basic, Unbroken, Receive PROVE Unbroken'
<1>1. UNCHANGED <<tail, viewer, log, written, rotated, attempt, alive>> /\ stream = "live"
  BY DEF Receive, fileQuiet
<1>. SUFFICES ASSUME ~rotated PROVE Unbroken'
  BY <1>1 DEF Unbroken
<1>2. PICK k \in 0..Len(log) : Following(k) /\ Ending(k)
  BY DEF Unbroken
<1>3. Complete'
  BY <1>1 DEF Unbroken, Complete
<1>4. /\ Len(frames) \in Nat \ {0} /\ Head(frames) = frames[1]
      /\ Len(frames') = Len(frames) - 1
      /\ \A i \in 1..(Len(frames) - 1) : frames'[i] = frames[i + 1]
  BY ReceiveIs DEF Basic
<1>5. Len(log) \in Nat /\ Len(live) \in Nat /\ k \in Nat /\ 1 \in 1..Len(frames) /\ Window \in Nat
  BY <1>4, GivenNumbers, LogAssumption
<1>6. CASE /\ frames[1].kind = "line" /\ offset' = frames[1].id
           /\ live' = Last_n(Append(live, frames[1].line), Window)
           /\ UNCHANGED <<stream, captured>>
  <2>1. k + 1 \in 1..Len(log) /\ frames[1].line = k + 1 /\ offset' = log[k + 1].end
    BY <1>2, <1>5, <1>6 DEF Following
  <2>2. live \in Entries /\ frames[1].line \in 1..MaxLines
    <3>1. frames[1].line \in 1..written /\ written \in 0..MaxLines
      BY <1>5, <1>6 DEF Basic, Told, TypeOK
    <3>2. frames[1].line \in 1..MaxLines
      BY <3>1, LogAssumption
    <3>. QED  BY <3>2 DEF Basic, TypeOK
  <2>. DEFINE d == Hidden(Len(live) + 1, Window)
              h == Hidden(k, Window)
  <2>3. /\ Len(live') = Len(live) + 1 - d
        /\ \A i \in 1..(Len(live) + 1 - d) :
              /\ d + i \in 1..(Len(live) + 1)
              /\ d + i = Len(live) + 1 => live'[i] = frames[1].line
              /\ d + i # Len(live) + 1 => d + i \in 1..Len(live) /\ live'[i] = live[d + i]
    BY <1>6, <2>2, ViewIs
  <2>4. h \in 0..k /\ Len(live) = k - h /\ \A i \in 1..Len(live) : live[i] = h + i
    BY <1>2, <1>5, HiddenIs DEF Following
  <2>5. Hidden(k + 1, Window) = h + d
    BY <1>5, <2>4, HiddenGoesOn
  <2>6. d \in Nat
    <3>. DEFINE len == Len(live) + 1
    <3>1. len \in Nat
      BY <1>5
    <3>. HIDE DEF len
    <3>2. Hidden(len, Window) \in 0..len
      BY <1>5, <3>1, HiddenIs
    <3>. QED  BY <3>2 DEF len
  <2>. HIDE DEF d, h
  <2>7. Len(live') = (k + 1) - Hidden(k + 1, Window)
    BY <1>5, <2>3, <2>4, <2>5, <2>6
  <2>8. ASSUME NEW i \in 1..Len(live') PROVE live'[i] = Hidden(k + 1, Window) + i
    <3>1. i \in Nat /\ h \in Nat
      BY <2>4
    <3>2. CASE d + i = Len(live) + 1
      <4>1. live'[i] = k + 1
        BY <2>1, <2>3, <3>2
      <4>. QED  BY <1>5, <2>4, <2>5, <2>6, <3>1, <3>2, <4>1
    <3>3. CASE d + i # Len(live) + 1
      <4>1. d + i \in 1..Len(live) /\ live'[i] = live[d + i]
        BY <2>3, <3>3
      <4>2. live[d + i] = h + (d + i)
        BY <2>4, <4>1
      <4>. QED  BY <2>5, <2>6, <3>1, <4>1, <4>2
    <3>. QED  BY <3>2, <3>3
  <2>9. /\ k + 1 \in 0..Len(log) /\ (k + 1) + Len(frames') = k + Len(frames)
        /\ \A j \in 1..Len(frames') :
              j + 1 \in 1..Len(frames) /\ frames'[j] = frames[j + 1] /\ (k + 1) + j = k + (j + 1)
    <3>1. k + 1 \in 0..Len(log) /\ (k + 1) + Len(frames') = k + Len(frames)
      BY <1>4, <1>5, <2>1
    <3>2. \A j \in 1..Len(frames') : j + 1 \in 1..Len(frames) /\ (k + 1) + j = k + (j + 1)
      BY <1>4, <1>5
    <3>3. \A j \in 1..Len(frames') : frames'[j] = frames[j + 1]
      BY <1>4
    <3>. QED  BY <3>1, <3>2, <3>3
  <2>10. Following(k + 1)'
    <3>1. offset' = StartOf(log, (k + 1) + 1)'
      <4>1. (k + 1) + 1 # 1 /\ ((k + 1) + 1) - 1 = k + 1
        BY <1>5
      <4>. QED  BY <1>1, <2>1, <4>1 DEF StartOf
    <3>2. \A j \in 1..Len(frames') : frames'[j].kind = "line" =>
             /\ (k + 1) + j \in 1..Len(log)
             /\ frames'[j].line = (k + 1) + j /\ frames'[j].id = log[(k + 1) + j].end
      BY <1>2, <2>9 DEF Following
    <3>3. tail.pc # "off" =>
             /\ (k + 1) + Len(frames') <= Len(log)
             /\ tail.offset = StartOf(log, (k + 1) + Len(frames') + 1)
      BY <1>2, <2>9 DEF Following
    <3>. QED  BY <1>1, <2>7, <2>8, <3>1, <3>2, <3>3 DEF Following, StartOf
  <2>11. Ending(k + 1)'
    <3>1. \A j \in 1..Len(frames') : frames'[j].kind # "line" =>
             /\ frames'[j].kind = "end" /\ j = Len(frames') /\ tail.pc = "off"
             /\ attempt # "running"
             /\ attempt = "settled" => (k + 1) + j = Len(log) + 1
      <4>. SUFFICES ASSUME NEW j \in 1..Len(frames'), frames'[j].kind # "line"
                    PROVE  /\ frames'[j].kind = "end" /\ j = Len(frames') /\ tail.pc = "off"
                           /\ attempt # "running"
                           /\ attempt = "settled" => (k + 1) + j = Len(log) + 1
        OBVIOUS
      <4>1. /\ frames[j + 1].kind = "end" /\ j + 1 = Len(frames) /\ tail.pc = "off"
            /\ attempt # "running"
            /\ attempt = "settled" => k + (j + 1) = Len(log) + 1
        BY <1>2, <2>9 DEF Ending
      <4>2. j = Len(frames')
        BY <1>4, <4>1
      <4>. QED  BY <2>9, <4>1, <4>2
    <3>. QED  BY <1>1, <1>2, <1>6, <3>1 DEF Ending
  <2>. QED  BY <1>1, <1>3, <2>9, <2>10, <2>11 DEF Unbroken
<1>7. CASE frames[1].kind = "truncated"
  BY <1>2, <1>5, <1>7 DEF Ending
<1>8. CASE frames[1].kind = "end" /\ stream' = "ended" /\ UNCHANGED <<offset, live>>
  <2>1. /\ Len(frames) = 1 /\ tail.pc = "off" /\ attempt # "running"
        /\ attempt = "settled" => k + 1 = Len(log) + 1
    BY <1>2, <1>5, <1>8 DEF Ending
  <2>2. Len(frames') = 0 /\ (attempt = "settled" => k = Len(log))
    BY <1>4, <1>5, <2>1
  <2>3. Following(k)'
    BY <1>1, <1>2, <1>8, <2>1, <2>2 DEF Following, StartOf
  <2>4. Ending(k)'
    BY <1>1, <2>1, <2>2 DEF Ending
  <2>. QED  BY <1>1, <1>2, <1>3, <2>3, <2>4 DEF Unbroken
<1>. QED  BY <1>4, <1>6, <1>7, <1>8 DEF Receive

LEMMA InitUnbroken == Init => Unbroken
<1>. SUFFICES ASSUME Init PROVE Unbroken
  OBVIOUS
<1>1. Len(log) = 0 /\ Len(frames) = 0 /\ Len(live) = 0
  BY DEF Init
<1>2. Complete
  BY <1>1 DEF Init, Complete
<1>3. 0 - Hidden(0, Window) = 0
  <2>1. Hidden(0, Window) \in 0..0
    BY HiddenIs, LogAssumption
  <2>. QED  BY <2>1
<1>4. Following(0)
  BY <1>1, <1>3 DEF Init, Off, Following, StartOf
<1>5. Ending(0)
  BY <1>1 DEF Init, Off, Ending
<1>. QED  BY <1>1, <1>2, <1>4, <1>5 DEF Unbroken

LEMMA NextUnbroken == Basic /\ Unbroken /\ [Next]_vars => Unbroken'
<1>. SUFFICES ASSUME Basic, Unbroken, [Next]_vars PROVE Unbroken'
  OBVIOUS
<1>1. ASSUME NEW size \in Sizes, Write(size) PROVE Unbroken'
  BY <1>1, WriteUnbroken
<1>2. CASE Server
  BY <1>2, ServerUnbroken
<1>3. CASE Connect
  BY <1>3, RestartUnbroken DEF Connect, fileQuiet
<1>4. CASE Disconnect
  BY <1>4, RestartUnbroken DEF Disconnect, fileQuiet, Off
<1>5. CASE Receive
  BY <1>5, ReceiveUnbroken
<1>6. CASE rotated /\ (\/ Settle \/ Reclaim \/ ProcessEnds \/ UNCHANGED vars
                      \/ (\E terminal \in BOOLEAN : Open(terminal))
                      \/ CaptureRead \/ CaptureArrives \/ CaptureFails)
  <2>1. rotated'
    BY <1>6 DEF Settle, Reclaim, ProcessEnds, clientVars, vars, Open, CaptureRead, CaptureArrives,
                CaptureFails, fileQuiet
  <2>. QED  BY <2>1 DEF Unbroken
<1>7. ASSUME ~rotated PROVE Complete /\ (tail.pc = "drain" => attempt # "running")
  BY <1>7 DEF Unbroken, Ending
<1>8. CASE ~rotated /\ (Settle \/ Reclaim \/ ProcessEnds)
  <2>1. /\ UNCHANGED <<log, written, rotated, frames, offset, live, tail, viewer, stream>>
        /\ (attempt = "running" \/ attempt' = attempt)
        /\ (attempt' = "running" => attempt = "running")
        /\ (attempt' = "settled" => ~alive')
    BY <1>7, <1>8 DEF Settle, Reclaim, ProcessEnds, clientVars, Complete
  <2>2. tail'.pc = "drain" => attempt' # "running"
    BY <1>7, <1>8, <2>1
  <2>. QED  BY <2>1, <2>2, QuietUnbroken
<1>9. CASE ~rotated /\ (\/ UNCHANGED vars \/ CaptureRead \/ CaptureArrives \/ CaptureFails)
  <2>1. UNCHANGED <<log, written, rotated, attempt, alive, frames, offset, live, tail, viewer, stream>>
    BY <1>9 DEF vars, CaptureRead, CaptureArrives, CaptureFails, fileQuiet
  <2>2. (attempt' = "settled" => ~alive') /\ (tail'.pc = "drain" => attempt' # "running")
    BY <1>7, <1>9, <2>1 DEF Complete
  <2>. QED  BY <2>1, <2>2, QuietUnbroken
<1>10. ASSUME ~rotated, NEW terminal \in BOOLEAN, Open(terminal) PROVE Unbroken'
  <2>1. /\ UNCHANGED <<log, written, rotated, attempt, alive, frames, offset, live, tail>>
        /\ ~(viewer' = "tail" /\ stream' = "ended")
    BY <1>10 DEF Open, fileQuiet
  <2>2. (attempt' = "settled" => ~alive') /\ (tail'.pc = "drain" => attempt' # "running")
    BY <1>7, <1>10, <2>1 DEF Complete
  <2>. QED  BY <2>1, <2>2, QuietUnbroken
<1>. QED  BY <1>1, <1>2, <1>3, <1>4, <1>5, <1>6, <1>8, <1>9, <1>10 DEF Next

\* A view with the last of the first k lines is their window.
LEMMA WindowIs ==
  ASSUME live \in Entries, NEW k \in Nat, Len(live) = k - Hidden(k, Window),
         \A i \in 1..Len(live) : live[i] = Hidden(k, Window) + i
  PROVE  live = Last_n([i \in 1..k |-> i], Window)
<1>. DEFINE all == [i \in 1..k |-> i]
            shown == Last_n(all, Window)
            h == Hidden(k, Window)
<1>1. all \in Seq(Nat) /\ Len(all) = k /\ \A i \in 1..k : all[i] = i
  <2>1. \A i \in 1..k : i \in Nat
    OBVIOUS
  <2>. QED  BY <2>1, IsASeq
<1>. HIDE DEF all
<1>2. Window \in Nat
  BY LogAssumption
<1>3. /\ shown \in Seq(Nat) /\ Len(shown) = k - h
      /\ \A i \in 1..(k - h) : h + i \in 1..k /\ shown[i] = all[h + i]
  <2>1. /\ Last_n(all, Window) \in Seq(Nat)
        /\ Len(Last_n(all, Window)) = Len(all) - Hidden(Len(all), Window)
        /\ \A i \in 1..(Len(all) - Hidden(Len(all), Window)) :
              /\ Hidden(Len(all), Window) + i \in 1..Len(all)
              /\ Last_n(all, Window)[i] = all[Hidden(Len(all), Window) + i]
    BY ONLY <1>1, <1>2, LastIs
  <2>. QED  BY <1>1, <2>1
<1>. HIDE DEF shown, h
<1>4. \A i \in 1..Len(live) : live[i] = shown[i]
  BY <1>1, <1>3 DEF h
<1>5. live \in Seq(Nat)
  <2>1. live \in Seq(1..MaxLines)
    BY DEF Entries
  <2>2. \A i \in 1..Len(live) : live[i] \in Nat
    <3>1. \A i \in 1..Len(live) : live[i] \in 1..MaxLines
      BY <2>1, ElementOfSeq
    <3>. QED  BY <3>1
  <2>. QED  BY <2>1, <2>2
<1>6. Len(live) = Len(shown)
  BY <1>3 DEF h
<1>7. live = shown
  BY <1>3, <1>4, <1>5, <1>6, SeqEqual
<1>. QED  BY <1>7 DEF shown, all

\* As long as the file is not rotated, a lost connection neither repeats nor drops a
\* line: the view is what lies before the cursor.
THEOREM LogResumesExactly == Spec => []ResumesExactly
<1>1. Basic /\ Unbroken => ResumesExactly
  <2>. SUFFICES ASSUME Basic, Unbroken, ~rotated
                PROVE  LET before == {i \in DOMAIN log : log[i].end <= offset}
                       IN  live = Last_n([i \in 1..Cardinality(before) |-> i], Window)
    BY DEF ResumesExactly
  <2>. DEFINE before == {i \in DOMAIN log : log[i].end <= offset}
  <2>1. PICK k \in 0..Len(log) : Following(k)
    BY DEF Unbroken
  <2>2. log \in Seq(Record) /\ Increasing(log) /\ Len(log) \in Nat /\ k \in Nat /\ live \in Entries
    BY GivenNumbers DEF Basic, TypeOK, Increasing
  <2>3. \A i \in 1..Len(log) : log[i].end <= offset <=> i <= k
    BY <2>1, <2>2, Starts DEF Following
  <2>4. before = 1..k
    BY <2>2, <2>3
  <2>5. Cardinality(before) = k
    <3>1. \A m \in Nat : Cardinality(1..m) = m
      BY FS_Interval
    <3>. QED  BY <2>2, <2>4, <3>1
  <2>. HIDE DEF before
  <2>6. live = Last_n([i \in 1..k |-> i], Window)
    BY <2>1, <2>2, WindowIs DEF Following
  <2>. QED  BY <2>5, <2>6 DEF before
<1>. QED  BY <1>1, InitBasic, NextBasic, InitUnbroken, NextUnbroken, PTL DEF Spec

\* The stream of an attempt that its worker settled ends after everything that was
\* written.
THEOREM LogEndIsComplete == Spec => []EndIsComplete
<1>1. Basic /\ Unbroken => EndIsComplete
  <2>. SUFFICES ASSUME Basic, Unbroken, ~rotated, viewer = "tail", stream = "ended", attempt = "settled"
                PROVE  live = Last_n([i \in 1..written |-> i], Window)
    BY DEF EndIsComplete
  <2>1. PICK k \in 0..Len(log) : Following(k) /\ Ending(k)
    BY DEF Unbroken
  <2>2. k \in Nat /\ k = written
    BY <2>1, GivenNumbers DEF Unbroken, Complete, Ending
  <2>3. live \in Entries
    BY DEF Basic, TypeOK
  <2>4. live = Last_n([i \in 1..k |-> i], Window)
    BY <2>1, <2>2, <2>3, WindowIs DEF Following
  <2>. QED  BY <2>2, <2>4
<1>. QED  BY <1>1, InitBasic, NextBasic, InitUnbroken, NextUnbroken, PTL DEF Spec
=============================================================================
