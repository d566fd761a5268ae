---------------------------- MODULE LinksProofs -----------------------------
(***************************************************************************)
(* Proofs about the messages on their way (Links): whatever arrives is     *)
(* what was sent, in every class of message and with any number of         *)
(* characters, bytes or entries in what varies.                            *)
(*                                                                         *)
(* The argument has two parts.                                             *)
(*   Formats   For each class: its fields lie one behind the other, from   *)
(*             the first byte to the last; the sender's length and the     *)
(*             receiver's are the place where the last one ends; and what  *)
(*             the receiver reads lies where a field of that name was      *)
(*             written.  That is Laid, one lemma for each class and form.  *)
(*             A lemma goes along the fields of its class, one after the   *)
(*             other, with the place each starts and ends at.              *)
(*   Carrying  What is on the wire, and behind it in the connection's      *)
(*             write buffer, is a beginning of the message, in order and   *)
(*             without a gap (Underway), whatever the writes take and the  *)
(*             iovecs hold.                                                *)
(***************************************************************************)
EXTENDS Links, SequenceFacts, TLAPS

-----------------------------------------------------------------------------
(***************************************************************************)
(* Widths and places of fields.                                            *)
(***************************************************************************)

\* A list of fields, each a name and a width; and where fields are.
IsFields(fs) ==
  /\ Len(fs) \in Nat /\ fs = [i \in 1..Len(fs) |-> fs[i]]
  /\ \A i \in 1..Len(fs) : fs[i] = <<fs[i][1], fs[i][2]>> /\ fs[i][2] \in Nat
IsMarks(rs) ==
  /\ Len(rs) \in Nat /\ rs = [i \in 1..Len(rs) |-> rs[i]]
  /\ \A i \in 1..Len(rs) : rs[i] = <<rs[i][1], rs[i][2], rs[i][3]>> /\ rs[i][2] \in Nat /\ rs[i][3] \in Nat

\* The places that fs takes up as a whole, from the front: f[i] behind the first i.
Sums(fs, f) ==
  /\ f \in [0..Len(fs) -> Nat] /\ f[0] = 0
  /\ \A i \in 1..Len(fs) : f[i] = f[i - 1] + fs[i][2]

\* Width adds the widths up, one field after the other.
LEMMA WidthIs ==
  ASSUME NEW fs, IsFields(fs)
  PROVE  \E f : Sums(fs, f) /\ Width(fs) = f[Len(fs)]
<1> DEFINE n == Len(fs)
           step == [p \in Nat \X (1..n) |-> p[1] + fs[p[2]][2]]
           up(g) == [i \in 0..n |-> IF i = 0 THEN 0 ELSE g[i - 1] + fs[i][2]]
           it == CHOOSE g : g = up(g)
<1>1. n \in Nat /\ \A i \in 1..n : fs[i][2] \in Nat
  BY DEF IsFields
<1>2. PICK f : Recurs(n, Nat, 0, step, f)
  <2>1. \A i \in 1..n : \A x \in Nat : step[<<x, i>>] \in Nat
    BY <1>1
  <2> HIDE DEF step, n
  <2> QED
    BY <1>1, <2>1, RecursionExists
<1>3. \A i \in 1..n : i - 1 \in 0..n
  BY <1>1
<1>4. Sums(fs, f)
  <2>1. \A i \in 1..n : f[i - 1] \in Nat
    BY <1>2, <1>3 DEF Recurs
  <2> QED
    BY <1>2, <2>1 DEF Recurs, Sums
<1>5. f = up(f)
  <2>1. f = [i \in 0..n |-> f[i]]
    BY <1>2 DEF Recurs
  <2>2. \A i \in 0..n : f[i] = IF i = 0 THEN 0 ELSE f[i - 1] + fs[i][2]
    <3>1. \A i \in 0..n : i # 0 => i \in 1..n
      BY <1>1
    <3> QED
      BY <1>4, <3>1 DEF Sums
  <2> QED
    BY <2>1, <2>2
<1>6. it = up(it)
  <2> HIDE DEF up
  <2> QED
    BY <1>5
<1>7. Width(fs) = it[n]
  BY DEF Width
<1> HIDE DEF it
<1>8. \A i \in 0..n : it[i] = IF i = 0 THEN 0 ELSE it[i - 1] + fs[i][2]
  BY <1>6
<1> DEFINE T == {i \in 0..n : it[i] = f[i]}
<1>9. 0 \in T
  <2>1. 0 \in 0..n
    BY <1>1
  <2> QED
    BY <1>4, <1>8, <2>1 DEF Sums
<1>10. ASSUME NEW i \in Nat, i < n, i \in T  PROVE i + 1 \in T
  <2>1. i + 1 \in 1..n /\ i + 1 \in 0..n /\ i + 1 # 0 /\ (i + 1) - 1 = i
    BY <1>1, <1>10
  <2>2. it[i + 1] = it[i] + fs[i + 1][2] /\ f[i + 1] = f[i] + fs[i + 1][2]
    <3>1. it[i + 1] = it[(i + 1) - 1] + fs[i + 1][2]
      BY <1>8, <2>1
    <3>2. f[i + 1] = f[(i + 1) - 1] + fs[i + 1][2]
      BY <1>4, <2>1 DEF Sums
    <3> QED
      BY <2>1, <3>1, <3>2
  <2> QED
    BY <1>10, <2>1, <2>2
<1> HIDE DEF T
<1>11. n \in T
  <2>1. \A i \in 0..n : i \in T
    BY <1>1, <1>9, <1>10, UpTo
  <2> QED
    BY <1>1, <2>1
<1> QED
  BY <1>4, <1>7, <1>11 DEF T

\* Two ways to add them up agree.
LEMMA SumsAgree ==
  ASSUME NEW fs, IsFields(fs), NEW f, Sums(fs, f), NEW g, Sums(fs, g)
  PROVE  f[Len(fs)] = g[Len(fs)]
<1> DEFINE n == Len(fs)
           T == {i \in 0..n : f[i] = g[i]}
<1>1. n \in Nat
  BY DEF IsFields
<1>2. 0 \in T
  BY <1>1 DEF Sums
<1>3. ASSUME NEW i \in Nat, i < n, i \in T  PROVE i + 1 \in T
  <2>1. i + 1 \in 1..n /\ i + 1 \in 0..n /\ (i + 1) - 1 = i
    BY <1>1, <1>3
  <2>2. f[i + 1] = f[(i + 1) - 1] + fs[i + 1][2] /\ g[i + 1] = g[(i + 1) - 1] + fs[i + 1][2]
    BY <2>1 DEF Sums
  <2> QED
    BY <1>3, <2>1, <2>2
<1> HIDE DEF T
<1>4. n \in T
  <2>1. \A i \in 0..n : i \in T
    BY <1>1, <1>2, <1>3, UpTo
  <2> QED
    BY <1>1, <2>1
<1> QED
  BY <1>4 DEF T

\* So what adds the widths up comes to Width.
LEMMA WidthOf ==
  ASSUME NEW fs, IsFields(fs), NEW f, Sums(fs, f)
  PROVE  Width(fs) = f[Len(fs)] /\ Width(fs) \in Nat
<1>1. PICK g : Sums(fs, g) /\ Width(fs) = g[Len(fs)]
  BY WidthIs
<1>2. f[Len(fs)] = g[Len(fs)]
  BY <1>1, SumsAgree
<1>3. Len(fs) \in 0..Len(fs)
  BY DEF IsFields
<1> QED
  BY <1>1, <1>2, <1>3 DEF Sums

\* Joining two sequences, without saying of what.
LEMMA JoinIs ==
  ASSUME NEW a, NEW b, Len(a) \in Nat, a = [i \in 1..Len(a) |-> a[i]],
         Len(b) \in Nat, b = [i \in 1..Len(b) |-> b[i]]
  PROVE  /\ Len(a \o b) = Len(a) + Len(b)
         /\ a \o b = [i \in 1..(Len(a) + Len(b)) |-> (a \o b)[i]]
         /\ \A i \in 1..Len(a) : (a \o b)[i] = a[i]
         /\ \A i \in 1..Len(b) : (a \o b)[Len(a) + i] = b[i]
         /\ \A i \in 1..(Len(a) + Len(b)) :
              (a \o b)[i] = IF i <= Len(a) THEN a[i] ELSE b[i - Len(a)]
<1> DEFINE S == {a[i] : i \in 1..Len(a)} \cup {b[i] : i \in 1..Len(b)}
<1>1. a \in Seq(S) /\ b \in Seq(S)
  <2>1. a \in [1..Len(a) -> S] /\ b \in [1..Len(b) -> S]
    OBVIOUS
  <2> HIDE DEF S
  <2> QED
    BY <2>1, SeqDef
<1> HIDE DEF S
<1>2. /\ a \o b \in Seq(S) /\ Len(a \o b) = Len(a) + Len(b)
      /\ \A i \in 1..(Len(a) + Len(b)) :
           (a \o b)[i] = IF i <= Len(a) THEN a[i] ELSE b[i - Len(a)]
  BY <1>1, ConcatProperties
<1>3. a \o b = [i \in 1..(Len(a) + Len(b)) |-> (a \o b)[i]]
  <2> DEFINE c == a \o b
  <2>1. c \in [1..Len(c) -> S] /\ Len(c) = Len(a) + Len(b)
    BY <1>2, LenProperties
  <2> HIDE DEF c
  <2>2. c = [i \in 1..Len(c) |-> c[i]]
    BY <2>1
  <2>3. c = [i \in 1..(Len(a) + Len(b)) |-> c[i]]
    BY <2>1, <2>2
  <2> QED
    BY <2>3 DEF c
<1>4. \A i \in 1..Len(a) : i \in 1..(Len(a) + Len(b)) /\ i <= Len(a)
  OBVIOUS
<1>5. \A i \in 1..Len(b) : Len(a) + i \in 1..(Len(a) + Len(b)) /\ ~(Len(a) + i <= Len(a))
                            /\ (Len(a) + i) - Len(a) = i
  OBVIOUS
<1> QED
  BY <1>2, <1>3, <1>4, <1>5

\* Cutting one off in front.
LEMMA PrefixIs ==
  ASSUME NEW a, Len(a) \in Nat, a = [i \in 1..Len(a) |-> a[i]], NEW k \in 0..Len(a)
  PROVE  /\ Len(SubSeq(a, 1, k)) = k
         /\ SubSeq(a, 1, k) = [i \in 1..k |-> a[i]]
<1> DEFINE S == {a[i] : i \in 1..Len(a)}
<1>1. a \in Seq(S)
  <2>1. a \in [1..Len(a) -> S]
    OBVIOUS
  <2> HIDE DEF S
  <2> QED
    BY <2>1, SeqDef
<1> HIDE DEF S
<1>2. SubSeq(a, 1, k) \in Seq(S) /\ Len(SubSeq(a, 1, k)) = k
      /\ \A i \in 1..k : SubSeq(a, 1, k)[i] = a[i]
  BY <1>1, FirstPlaces
<1> DEFINE p == SubSeq(a, 1, k)
<1>3. p \in [1..k -> S] /\ \A i \in 1..k : p[i] = a[i]
  BY <1>2, LenProperties
<1> HIDE DEF p
<1>4. p = [i \in 1..k |-> a[i]]
  <2>1. p = [i \in 1..k |-> p[i]]
    BY <1>3
  <2> QED
    BY <1>3, <2>1
<1> QED
  BY <1>2, <1>4 DEF p

\* Where the fields of a list are.
LEMMA FromIs ==
  ASSUME NEW fs, IsFields(fs), NEW f, Sums(fs, f), NEW at \in Nat
  PROVE  /\ IsMarks(From(at, fs)) /\ Len(From(at, fs)) = Len(fs)
         /\ \A i \in 1..Len(fs) : From(at, fs)[i] = <<fs[i][1], at + f[i - 1], fs[i][2]>>
<1> DEFINE n == Len(fs)
<1>1. n \in Nat /\ fs = [i \in 1..n |-> fs[i]] /\ DOMAIN fs = 1..n
  BY DEF IsFields
<1>2. ASSUME NEW i \in 1..n
      PROVE  Width(SubSeq(fs, 1, i - 1)) = f[i - 1] /\ f[i - 1] \in Nat
  <2> DEFINE p == SubSeq(fs, 1, i - 1)
             g == [j \in 0..(i - 1) |-> f[j]]
  <2>1. i - 1 \in 0..n
    BY <1>1
  <2>2. Len(p) = i - 1 /\ p = [j \in 1..(i - 1) |-> fs[j]]
    BY <1>1, <2>1, PrefixIs
  <2> HIDE DEF p
  <2>3. \A j \in 1..(i - 1) : j \in 1..n /\ j \in 0..(i - 1) /\ j - 1 \in 0..(i - 1)
      /\ p[j] = fs[j]
    BY <1>1, <2>2
  <2>4. IsFields(p)
    BY <2>1, <2>2, <2>3 DEF IsFields
  <2>5. Sums(p, g)
    <3>1. \A j \in 0..(i - 1) : j \in 0..n
      BY <1>1
    <3>2. g \in [0..(i - 1) -> Nat] /\ g[0] = 0
      BY <2>1, <3>1 DEF Sums
    <3>3. \A j \in 1..(i - 1) : g[j] = g[j - 1] + p[j][2]
      BY <2>3 DEF Sums
    <3> QED
      BY <2>2, <3>2, <3>3 DEF Sums
  <2>6. Width(p) = g[i - 1]
    BY <2>2, <2>4, <2>5, WidthOf
  <2>7. g[i - 1] = f[i - 1] /\ f[i - 1] \in Nat
    BY <2>1 DEF Sums
  <2> QED
    BY <2>6, <2>7 DEF p
<1> DEFINE r == From(at, fs)
<1>3. DOMAIN r = 1..n /\ \A i \in 1..n : r[i] = <<fs[i][1], at + f[i - 1], fs[i][2]>>
  <2>1. r = [i \in 1..n |-> <<fs[i][1], at + Width(SubSeq(fs, 1, i - 1)), fs[i][2]>>]
    BY <1>1 DEF From
  <2> HIDE DEF r
  <2> QED
    BY <1>2, <2>1
<1>4. r = [i \in 1..n |-> r[i]]
  BY <1>1 DEF From
<1> HIDE DEF r
<1>5. Len(r) = n
  BY <1>1, <1>3, <1>4
<1>6. IsMarks(r)
  <2>1. ASSUME NEW i \in 1..n
        PROVE  r[i] = <<r[i][1], r[i][2], r[i][3]>> /\ r[i][2] \in Nat /\ r[i][3] \in Nat
    <3>1. f[i - 1] \in Nat /\ fs[i][2] \in Nat
      BY <1>2 DEF IsFields
    <3>2. r[i] = <<fs[i][1], at + f[i - 1], fs[i][2]>>
      BY <1>3
    <3> QED
      BY <3>1, <3>2
  <2> QED
    BY <1>1, <1>4, <1>5, <2>1 DEF IsMarks
<1> QED
  BY <1>3, <1>5, <1>6 DEF r

Marks(at, fs) == {From(at, fs)[i] : i \in 1..Len(fs)}
Adds(a, b) == \A at \in Nat : Marks(at, a \o b) = Marks(at, a) \cup Marks(at + Width(a), b)

\* Fields one list after the other: their widths add up, and the second starts where the first ends.
LEMMA CatIs ==
  ASSUME NEW a, IsFields(a), NEW b, IsFields(b)
  PROVE  /\ IsFields(a \o b) /\ Len(a \o b) = Len(a) + Len(b)
         /\ Width(a \o b) = Width(a) + Width(b) /\ Adds(a, b)
<1> DEFINE n == Len(a)
           k == Len(b)
           c == a \o b
<1>1. PICK f : Sums(a, f) /\ Width(a) = f[n] /\ Width(a) \in Nat
  BY WidthIs, WidthOf
<1>2. PICK g : Sums(b, g) /\ Width(b) = g[k] /\ Width(b) \in Nat
  BY WidthIs, WidthOf
<1>3. /\ n \in Nat /\ a = [i \in 1..n |-> a[i]] /\ k \in Nat /\ b = [i \in 1..k |-> b[i]]
      /\ \A i \in 1..n : a[i] = <<a[i][1], a[i][2]>> /\ a[i][2] \in Nat
      /\ \A i \in 1..k : b[i] = <<b[i][1], b[i][2]>> /\ b[i][2] \in Nat
  BY DEF IsFields
<1>4. /\ Len(c) = n + k /\ c = [i \in 1..(n + k) |-> c[i]]
      /\ \A i \in 1..n : c[i] = a[i]
      /\ \A i \in 1..k : c[n + i] = b[i]
      /\ \A i \in 1..(n + k) : c[i] = IF i <= n THEN a[i] ELSE b[i - n]
  BY <1>3, JoinIs
<1> HIDE DEF c
<1>5. \A i \in 1..(n + k) : i <= n => i \in 1..n
  BY <1>3
<1>6. \A i \in 1..(n + k) : ~(i <= n) => i - n \in 1..k /\ (i - n) - 1 = (i - 1) - n
  BY <1>3
<1>7. IsFields(c)
  <2>1. ASSUME NEW i \in 1..(n + k)  PROVE  c[i] = <<c[i][1], c[i][2]>> /\ c[i][2] \in Nat
    <3>1. CASE i <= n
      BY <1>3, <1>4, <1>5, <3>1
    <3>2. CASE ~(i <= n)
      <4>1. i - n \in 1..k /\ c[i] = b[i - n]
        BY <1>4, <1>6, <3>2
      <4> QED
        BY <1>3, <4>1
    <3> QED
      BY <3>1, <3>2
  <2> QED
    BY <1>3, <1>4, <2>1 DEF IsFields
<1> DEFINE h == [i \in 0..(n + k) |-> IF i <= n THEN f[i] ELSE f[n] + g[i - n]]
<1>8. h \in [0..(n + k) -> Nat] /\ h[0] = 0
  <2>1. \A i \in 0..(n + k) : (i <= n => i \in 0..n) /\ (~(i <= n) => i - n \in 0..k)
    BY <1>3
  <2>2. \A i \in 0..(n + k) : (IF i <= n THEN f[i] ELSE f[n] + g[i - n]) \in Nat
    <3>1. (\A i \in 0..n : f[i] \in Nat) /\ (\A i \in 0..k : g[i] \in Nat) /\ f[n] \in Nat
      BY <1>1, <1>2, <1>3 DEF Sums
    <3>2. ASSUME NEW i \in 0..(n + k)
          PROVE  (IF i <= n THEN f[i] ELSE f[n] + g[i - n]) \in Nat
      <4>1. CASE i <= n
        BY <2>1, <3>1, <4>1
      <4>2. CASE ~(i <= n)
        <5>1. g[i - n] \in Nat
          BY <2>1, <3>1, <4>2
        <5> QED
          BY <3>1, <4>2, <5>1
      <4> QED
        BY <4>1, <4>2
    <3> QED
      BY <3>2
  <2>3. 0 \in 0..(n + k) /\ 0 <= n /\ f[0] = 0
    BY <1>1, <1>3 DEF Sums
  <2> QED
    BY <2>2, <2>3
<1>9. \A i \in 1..(n + k) : h[i] = h[i - 1] + c[i][2]
  <2>1. ASSUME NEW i \in 1..(n + k)  PROVE  h[i] = h[i - 1] + c[i][2]
    <3>1. i \in 0..(n + k) /\ i - 1 \in 0..(n + k) /\ i - 1 \in Int
      BY <1>3
    <3>2. CASE i <= n
      <4>1. i \in 1..n /\ i - 1 <= n
        BY <1>3, <3>2
      <4>2. f[i] = f[i - 1] + a[i][2] /\ c[i] = a[i]
        BY <1>1, <1>4, <4>1 DEF Sums
      <4> QED
        BY <3>1, <3>2, <4>1, <4>2
    <3>3. CASE ~(i <= n)
      <4>1. i - n \in 1..k /\ (i - n) - 1 = (i - 1) - n /\ c[i] = b[i - n]
        BY <1>4, <1>6, <3>3
      <4>2. g[i - n] = g[(i - 1) - n] + b[i - n][2]
        BY <1>2, <4>1 DEF Sums
      <4>3. h[i - 1] = f[n] + g[(i - 1) - n]
        <5>1. CASE i - 1 <= n
          <6>1. i - 1 = n /\ (i - 1) - n = 0
            BY <1>3, <3>1, <3>3, <5>1
          <6>2. g[0] = 0 /\ f[n] \in Nat
            BY <1>1, <1>2 DEF Sums
          <6> QED
            BY <3>1, <5>1, <6>1, <6>2
        <5>2. CASE ~(i - 1 <= n)
          BY <3>1, <5>2
        <5> QED
          BY <5>1, <5>2
      <4>4. f[n] \in Nat /\ g[(i - 1) - n] \in Nat /\ b[i - n][2] \in Nat
        <5>1. (i - 1) - n \in 0..k /\ n \in 0..n
          BY <1>3, <4>1
        <5> QED
          BY <1>1, <1>2, <1>3, <4>1, <5>1 DEF Sums
      <4>5. h[i] = f[n] + g[i - n]
        BY <3>1, <3>3
      <4> HIDE DEF h
      <4> QED
        BY <4>1, <4>2, <4>3, <4>4, <4>5
    <3> QED
      BY <3>2, <3>3
  <2> QED
    BY <2>1
<1>10. Sums(c, h)
  <2> HIDE DEF h
  <2> QED
    BY <1>4, <1>8, <1>9 DEF Sums
<1>11. h[n + k] = f[n] + g[k] /\ \A i \in 1..n : h[i - 1] = f[i - 1]
  <2>1. n + k \in 0..(n + k) /\ f[n] \in Nat /\ g[0] = 0
    <3>1. n \in 0..n
      BY <1>3
    <3> QED
      BY <1>1, <1>2, <1>3, <3>1 DEF Sums
  <2>2. h[n + k] = f[n] + g[k]
    <3>1. CASE n + k <= n
      <4>1. k = 0 /\ n + k = n
        <5>1. n \in Nat /\ k \in Nat
          BY <1>3
        <5> HIDE DEF n, k
        <5> QED
          BY ONLY <3>1, <5>1
      <4> QED
        BY <2>1, <3>1, <4>1
    <3>2. CASE ~(n + k <= n)
      <4>1. (n + k) - n = k
        BY <1>3
      <4> QED
        BY <2>1, <3>2, <4>1
    <3> QED
      BY <3>1, <3>2
  <2>3. \A i \in 1..n : i - 1 \in 0..(n + k) /\ i - 1 <= n
    BY <1>3
  <2> QED
    BY <2>2, <2>3
<1>12. \A i \in 1..k : h[(n + i) - 1] = f[n] + g[i - 1]
  <2>1. ASSUME NEW i \in 1..k  PROVE  h[(n + i) - 1] = f[n] + g[i - 1]
    <3>1. (n + i) - 1 \in 0..(n + k) /\ ((n + i) - 1) - n = i - 1 /\ i \in Int
      BY <1>3
    <3>2. CASE (n + i) - 1 <= n
      <4>1. i = 1 /\ (n + i) - 1 = n /\ i - 1 = 0
        BY <1>3, <3>2
      <4>2. g[0] = 0 /\ f[n] \in Nat
        BY <1>1, <1>2 DEF Sums
      <4> QED
        BY <3>1, <3>2, <4>1, <4>2
    <3>3. CASE ~((n + i) - 1 <= n)
      BY <3>1, <3>3
    <3> QED
      BY <3>2, <3>3
  <2> QED
    BY <2>1
<1> HIDE DEF h
<1>13. Width(c) = Width(a) + Width(b)
  <2>1. Width(c) = h[n + k]
    BY <1>4, <1>7, <1>10, WidthOf
  <2> QED
    BY <1>1, <1>2, <1>11, <2>1
<1>14. ASSUME NEW at \in Nat
       PROVE  Marks(at, c) = Marks(at, a) \cup Marks(at + Width(a), b)
  <2> DEFINE r == From(at, c)
             p == From(at, a)
             q == From(at + Width(a), b)
  <2>1. \A i \in 1..(n + k) : r[i] = <<c[i][1], at + h[i - 1], c[i][2]>>
    <3>1. \A i \in 1..Len(c) : r[i] = <<c[i][1], at + h[i - 1], c[i][2]>>
      BY <1>7, <1>10, FromIs
    <3> QED
      BY <1>4, <3>1
  <2>2. \A i \in 1..n : p[i] = <<a[i][1], at + f[i - 1], a[i][2]>>
    BY <1>1, FromIs
  <2>3. \A i \in 1..k : q[i] = <<b[i][1], (at + Width(a)) + g[i - 1], b[i][2]>>
    BY <1>1, <1>2, FromIs
  <2> HIDE DEF r, p, q
  <2>4. \A i \in 1..n : i \in 1..(n + k) /\ r[i] = p[i]
    <3>1. \A i \in 1..n : i \in 1..(n + k)
      BY <1>3
    <3> QED
      BY <1>4, <1>11, <2>1, <2>2, <3>1
  <2>5. \A i \in 1..k : n + i \in 1..(n + k) /\ r[n + i] = q[i]
    <3>1. \A i \in 1..k : n + i \in 1..(n + k) /\ i - 1 \in 0..k
      BY <1>3
    <3>2. \A i \in 1..k : at + (f[n] + g[i - 1]) = (at + Width(a)) + g[i - 1]
      <4>1. \A i \in 1..k : g[i - 1] \in Nat
        BY <1>2, <3>1 DEF Sums
      <4> QED
        BY <1>1, <4>1
    <3>3. ASSUME NEW i \in 1..k  PROVE  r[n + i] = q[i]
      <4>1. r[n + i] = <<c[n + i][1], at + h[(n + i) - 1], c[n + i][2]>>
        BY <2>1, <3>1
      <4>2. c[n + i] = b[i] /\ h[(n + i) - 1] = f[n] + g[i - 1]
        BY <1>4, <1>12
      <4>3. at + (f[n] + g[i - 1]) = (at + Width(a)) + g[i - 1]
        BY <3>2
      <4>4. q[i] = <<b[i][1], (at + Width(a)) + g[i - 1], b[i][2]>>
        BY <2>3
      <4> QED
        BY ONLY <4>1, <4>2, <4>3, <4>4
    <3> QED
      BY <3>1, <3>3
  <2>6. \A i \in 1..(n + k) : (i \in 1..n /\ r[i] = p[i]) \/ \E j \in 1..k : r[i] = q[j]
    <3>1. ASSUME NEW i \in 1..(n + k), ~(i <= n)  PROVE  \E j \in 1..k : r[i] = q[j]
      <4>1. i - n \in 1..k /\ n + (i - n) = i
        BY <1>3, <1>6, <3>1
      <4>2. r[n + (i - n)] = q[i - n]
        BY <2>5, <4>1
      <4> QED
        BY <4>1, <4>2
    <3> QED
      BY <1>5, <2>4, <3>1
  <2>7. {r[i] : i \in 1..(n + k)} = {p[i] : i \in 1..n} \cup {q[i] : i \in 1..k}
    <3>1. \A x \in {p[i] : i \in 1..n} \cup {q[i] : i \in 1..k} : x \in {r[i] : i \in 1..(n + k)}
      BY <2>4, <2>5
    <3>2. \A x \in {r[i] : i \in 1..(n + k)} : x \in {p[i] : i \in 1..n} \cup {q[i] : i \in 1..k}
      BY <2>6
    <3> QED
      BY ONLY <3>1, <3>2
  <2> QED
    BY <1>4, <2>7 DEF Marks, r, p, q
<1> QED
  BY <1>4, <1>7, <1>13, <1>14 DEF c, Adds

\* No fields, and one.
LEMMA NoField ==
  /\ IsFields(<<>>) /\ Len(<<>>) = 0 /\ Width(<<>>) = 0
  /\ \A at \in Nat : Marks(at, <<>>) = {}
<1> DEFINE f == [i \in 0..0 |-> 0]
<1>1. IsFields(<<>>) /\ Len(<<>>) = 0
  BY DEF IsFields
<1>2. Sums(<<>>, f)
  BY DEF Sums
<1>3. Width(<<>>) = 0
  BY <1>1, <1>2, WidthOf
<1> QED
  BY <1>1, <1>3 DEF Marks

\* One field alone.
LEMMA OneField ==
  ASSUME NEW name, NEW width \in Nat
  PROVE  /\ IsFields(Buf(name, width)) /\ Len(Buf(name, width)) = 1
         /\ Width(Buf(name, width)) = width
         /\ \A at \in Nat : Marks(at, Buf(name, width)) = {<<name, at, width>>}
<1> DEFINE b == Buf(name, width)
           f == [i \in 0..1 |-> IF i = 0 THEN 0 ELSE width]
<1>1. Len(b) = 1 /\ b = [i \in 1..1 |-> b[i]] /\ b[1] = <<name, width>>
  BY DEF Buf
<1> HIDE DEF b
<1>2. IsFields(b)
  BY <1>1 DEF IsFields
<1>3. Sums(b, f)
  <2>1. f \in [0..1 -> Nat] /\ f[0] = 0 /\ f[1] = width
    OBVIOUS
  <2>2. \A i \in 1..1 : f[i] = f[i - 1] + b[i][2]
    BY <1>1, <2>1
  <2> HIDE DEF f
  <2> QED
    BY <1>1, <2>1, <2>2 DEF Sums
<1>4. Width(b) = width
  <2>1. Width(b) = f[1]
    BY <1>1, <1>2, <1>3, WidthOf
  <2> QED
    BY <2>1
<1>5. ASSUME NEW at \in Nat  PROVE Marks(at, b) = {<<name, at, width>>}
  <2>1. From(at, b)[1] = <<b[1][1], at + f[0], b[1][2]>>
    BY <1>1, <1>2, <1>3, FromIs
  <2>2. From(at, b)[1] = <<name, at, width>>
    BY <1>1, <2>1
  <2> QED
    BY <1>1, <2>2 DEF Marks
<1> QED
  BY <1>1, <1>2, <1>4, <1>5 DEF b

-----------------------------------------------------------------------------
(***************************************************************************)
(* Where a list of fields lies, and what is read of it.                    *)
(***************************************************************************)

With(S, T) == S \cup T

\* fs lies from one place to another, and these are its marks.
Lays(fs, at, S, end) ==
  /\ at \in Nat /\ end \in Nat /\ end = at + Width(fs)
  /\ IsFields(fs) /\ Marks(at, fs) = S

\* rs reads these marks.
Reads(rs, S) ==
  /\ Len(rs) \in Nat /\ rs = [i \in 1..Len(rs) |-> rs[i]]
  /\ {rs[i] : i \in 1..Len(rs)} = S

\* fs are fields of this width together.
Wide(fs, w) == IsFields(fs) /\ Width(fs) = w /\ w \in Nat

\* No field at all lies where it starts.
LEMMA LaysNone ==
  ASSUME NEW at \in Nat
  PROVE  Lays(<<>>, at, {}, at)
BY NoField DEF Lays

\* One field lies from its place to its end.
LEMMA LaysOne ==
  ASSUME NEW name, NEW width \in Nat, NEW at \in Nat, NEW end, end = at + width
  PROVE  Lays(Buf(name, width), at, {<<name, at, width>>}, end)
BY OneField DEF Lays

\* Two lists of fields, one from where the other ends.
LEMMA LaysCat ==
  ASSUME NEW a, NEW b, NEW at, NEW mid, NEW end, NEW S, NEW T,
         Lays(a, at, S, mid), Lays(b, mid, T, end)
  PROVE  Lays(a \o b, at, With(S, T), end)
<1>1. at \in Nat /\ mid \in Nat /\ mid = at + Width(a) /\ IsFields(a) /\ Marks(at, a) = S
  BY DEF Lays
<1>2. end \in Nat /\ end = mid + Width(b) /\ IsFields(b) /\ Marks(mid, b) = T
  BY DEF Lays
<1>3. Width(a) \in Nat /\ Width(b) \in Nat
  BY <1>1, <1>2, WidthIs, WidthOf
<1>4. IsFields(a \o b) /\ Width(a \o b) = Width(a) + Width(b) /\ Adds(a, b)
  BY <1>1, <1>2, CatIs
<1>5. Marks(at, a \o b) = S \cup T
  BY <1>1, <1>2, <1>4 DEF Adds
<1>6. end = at + Width(a \o b)
  BY <1>1, <1>2, <1>3, <1>4
<1> QED
  BY <1>1, <1>2, <1>4, <1>5, <1>6 DEF Lays, With

\* The width of fields that lie from one place to another.
LEMMA WideLays ==
  ASSUME NEW fs, NEW at, NEW S, NEW end, Lays(fs, at, S, end)
  PROVE  Wide(fs, end - at)
<1>1. IsFields(fs) /\ at \in Nat /\ end \in Nat /\ end = at + Width(fs)
  BY DEF Lays
<1>2. Width(fs) \in Nat
  BY <1>1, WidthIs, WidthOf
<1> QED
  BY <1>1, <1>2 DEF Wide

\* No field has no width.
LEMMA WideNone == Wide(<<>>, 0)
BY NoField DEF Wide

\* One field has its own.
LEMMA WideOne ==
  ASSUME NEW name, NEW width \in Nat
  PROVE  Wide(Buf(name, width), width)
BY OneField DEF Wide

\* Widths add up.
LEMMA WideCat ==
  ASSUME NEW a, NEW b, NEW v, NEW w, NEW z, Wide(a, v), Wide(b, w), z = v + w
  PROVE  Wide(a \o b, z)
<1>1. IsFields(a \o b) /\ Width(a \o b) = Width(a) + Width(b)
  BY CatIs DEF Wide
<1> QED
  BY <1>1 DEF Wide

\* The members of a class by their names, up to five in a row.
LEMMA FixedOne ==
  ASSUME NEW M, NEW a
  PROVE  Fixed(M, <<a>>) = Buf(a, M[a])
BY DEF Fixed, Buf

\* Two members.
LEMMA FixedTwo ==
  ASSUME NEW M, NEW a, NEW b
  PROVE  Fixed(M, <<a, b>>) = Fixed(M, <<a>>) \o Buf(b, M[b])
<1> DEFINE x == Fixed(M, <<a>>)
           y == Buf(b, M[b])
<1>1. Len(x) = 1 /\ x = [i \in 1..1 |-> x[i]] /\ x[1] = <<a, M[a]>>
  BY DEF Fixed
<1>2. Len(y) = 1 /\ y = [i \in 1..1 |-> y[i]] /\ y[1] = <<b, M[b]>>
  BY DEF Buf
<1> HIDE DEF x, y
<1>3. /\ x \o y = [i \in 1..(1 + 1) |-> (x \o y)[i]]
      /\ \A i \in 1..1 : (x \o y)[i] = x[i]
      /\ \A i \in 1..1 : (x \o y)[1 + i] = y[i]
  BY <1>1, <1>2, JoinIs
<1> DEFINE z == x \o y
           w == Fixed(M, <<a, b>>)
<1>4. w = [i \in 1..2 |-> w[i]] /\ w[1] = <<a, M[a]>> /\ w[2] = <<b, M[b]>>
  BY DEF Fixed
<1>5. z = [i \in 1..2 |-> z[i]] /\ z[1] = <<a, M[a]>> /\ z[2] = <<b, M[b]>>
  BY <1>1, <1>2, <1>3
<1> HIDE DEF w, z
<1>6. \A i \in 1..2 : w[i] = z[i]
  BY <1>4, <1>5
<1>7. w = z
  BY <1>4, <1>5, <1>6
<1> QED
  BY <1>7 DEF w, x, y, z

\* Three members.
LEMMA FixedThree ==
  ASSUME NEW M, NEW a, NEW b, NEW c
  PROVE  Fixed(M, <<a, b, c>>) = Fixed(M, <<a, b>>) \o Buf(c, M[c])
<1> DEFINE x == Fixed(M, <<a, b>>)
           y == Buf(c, M[c])
<1>1. Len(x) = 2 /\ x = [i \in 1..2 |-> x[i]] /\ x[1] = <<a, M[a]>> /\ x[2] = <<b, M[b]>>
  BY DEF Fixed
<1>2. Len(y) = 1 /\ y = [i \in 1..1 |-> y[i]] /\ y[1] = <<c, M[c]>>
  BY DEF Buf
<1> HIDE DEF x, y
<1>3. /\ x \o y = [i \in 1..(2 + 1) |-> (x \o y)[i]]
      /\ \A i \in 1..2 : (x \o y)[i] = x[i]
      /\ \A i \in 1..1 : (x \o y)[2 + i] = y[i]
  BY <1>1, <1>2, JoinIs
<1> DEFINE z == x \o y
           w == Fixed(M, <<a, b, c>>)
<1>4. w = [i \in 1..3 |-> w[i]] /\ w[1] = <<a, M[a]>> /\ w[2] = <<b, M[b]>> /\ w[3] = <<c,
          M[c]>>
  BY DEF Fixed
<1>5. z = [i \in 1..3 |-> z[i]] /\ z[1] = <<a, M[a]>> /\ z[2] = <<b, M[b]>> /\ z[3] = <<c,
          M[c]>>
  BY <1>1, <1>2, <1>3
<1> HIDE DEF w, z
<1>6. \A i \in 1..3 : w[i] = z[i]
  BY <1>4, <1>5
<1>7. w = z
  BY <1>4, <1>5, <1>6
<1> QED
  BY <1>7 DEF w, x, y, z

\* Four members.
LEMMA FixedFour ==
  ASSUME NEW M, NEW a, NEW b, NEW c, NEW d
  PROVE  Fixed(M, <<a, b, c, d>>) = Fixed(M, <<a, b, c>>) \o Buf(d, M[d])
<1> DEFINE x == Fixed(M, <<a, b, c>>)
           y == Buf(d, M[d])
<1>1. Len(x) = 3 /\ x = [i \in 1..3 |-> x[i]] /\ x[1] = <<a, M[a]>> /\ x[2] = <<b, M[b]>>
          /\ x[3] = <<c, M[c]>>
  BY DEF Fixed
<1>2. Len(y) = 1 /\ y = [i \in 1..1 |-> y[i]] /\ y[1] = <<d, M[d]>>
  BY DEF Buf
<1> HIDE DEF x, y
<1>3. /\ x \o y = [i \in 1..(3 + 1) |-> (x \o y)[i]]
      /\ \A i \in 1..3 : (x \o y)[i] = x[i]
      /\ \A i \in 1..1 : (x \o y)[3 + i] = y[i]
  BY <1>1, <1>2, JoinIs
<1> DEFINE z == x \o y
           w == Fixed(M, <<a, b, c, d>>)
<1>4. w = [i \in 1..4 |-> w[i]] /\ w[1] = <<a, M[a]>> /\ w[2] = <<b, M[b]>> /\ w[3] = <<c,
          M[c]>> /\ w[4] = <<d, M[d]>>
  BY DEF Fixed
<1>5. z = [i \in 1..4 |-> z[i]] /\ z[1] = <<a, M[a]>> /\ z[2] = <<b, M[b]>> /\ z[3] = <<c,
          M[c]>> /\ z[4] = <<d, M[d]>>
  BY <1>1, <1>2, <1>3
<1> HIDE DEF w, z
<1>6. \A i \in 1..4 : w[i] = z[i]
  BY <1>4, <1>5
<1>7. w = z
  BY <1>4, <1>5, <1>6
<1> QED
  BY <1>7 DEF w, x, y, z

\* Five members.
LEMMA FixedFive ==
  ASSUME NEW M, NEW a, NEW b, NEW c, NEW d, NEW e
  PROVE  Fixed(M, <<a, b, c, d, e>>) = Fixed(M, <<a, b, c, d>>) \o Buf(e, M[e])
<1> DEFINE x == Fixed(M, <<a, b, c, d>>)
           y == Buf(e, M[e])
<1>1. Len(x) = 4 /\ x = [i \in 1..4 |-> x[i]] /\ x[1] = <<a, M[a]>> /\ x[2] = <<b, M[b]>>
          /\ x[3] = <<c, M[c]>> /\ x[4] = <<d, M[d]>>
  BY DEF Fixed
<1>2. Len(y) = 1 /\ y = [i \in 1..1 |-> y[i]] /\ y[1] = <<e, M[e]>>
  BY DEF Buf
<1> HIDE DEF x, y
<1>3. /\ x \o y = [i \in 1..(4 + 1) |-> (x \o y)[i]]
      /\ \A i \in 1..4 : (x \o y)[i] = x[i]
      /\ \A i \in 1..1 : (x \o y)[4 + i] = y[i]
  BY <1>1, <1>2, JoinIs
<1> DEFINE z == x \o y
           w == Fixed(M, <<a, b, c, d, e>>)
<1>4. w = [i \in 1..5 |-> w[i]] /\ w[1] = <<a, M[a]>> /\ w[2] = <<b, M[b]>> /\ w[3] = <<c,
          M[c]>> /\ w[4] = <<d, M[d]>> /\ w[5] = <<e, M[e]>>
  BY DEF Fixed
<1>5. z = [i \in 1..5 |-> z[i]] /\ z[1] = <<a, M[a]>> /\ z[2] = <<b, M[b]>> /\ z[3] = <<c,
          M[c]>> /\ z[4] = <<d, M[d]>> /\ z[5] = <<e, M[e]>>
  BY <1>1, <1>2, <1>3
<1> HIDE DEF w, z
<1>6. \A i \in 1..5 : w[i] = z[i]
  BY <1>4, <1>5
<1>7. w = z
  BY <1>4, <1>5, <1>6
<1> QED
  BY <1>7 DEF w, x, y, z

\* And where they lie.
LEMMA LaysFixedOne ==
  ASSUME NEW M, NEW a, NEW v \in Nat,
         M[a] = v, NEW at \in Nat,
         NEW end, end = at + v
  PROVE  Lays(Fixed(M, <<a>>), at, {<<a, at, v>>}, end)
<1>1. Fixed(M, <<a>>) = Buf(a, v)
  BY FixedOne
<1>2. Lays(Buf(a, v), at, {<<a, at, v>>}, end)
  BY LaysOne
<1> QED
  BY <1>1, <1>2

\* Where two members lie.
LEMMA LaysFixedTwo ==
  ASSUME NEW M, NEW a, NEW b, NEW v \in Nat, NEW w \in Nat,
         M[a] = v, M[b] = w, NEW at \in Nat,
         NEW p, p = at + v, NEW end, end = p + w
  PROVE  Lays(Fixed(M, <<a, b>>), at, With({<<a, at, v>>}, {<<b, p, w>>}), end)
<1>1. Fixed(M, <<a, b>>) = Fixed(M, <<a>>) \o Buf(b, w)
  BY FixedTwo
<1>2. Lays(Fixed(M, <<a>>), at, {<<a, at, v>>}, p)
  BY LaysFixedOne
<1>3. p \in Nat
  BY <1>2 DEF Lays
<1>4. Lays(Buf(b, w), p, {<<b, p, w>>}, end)
  BY <1>3, LaysOne
<1>5. Lays(Fixed(M, <<a>>) \o Buf(b, w), at, With({<<a, at, v>>}, {<<b, p, w>>}), end)
  BY <1>2, <1>4, LaysCat
<1> QED
  BY <1>1, <1>5

\* Where three members lie.
LEMMA LaysFixedThree ==
  ASSUME NEW M, NEW a, NEW b, NEW c, NEW v \in Nat, NEW w \in Nat, NEW x \in Nat,
         M[a] = v, M[b] = w, M[c] = x, NEW at \in Nat,
         NEW p, p = at + v, NEW q, q = p + w, NEW end, end = q + x
  PROVE  Lays(Fixed(M, <<a, b, c>>), at,
              With(With({<<a, at, v>>}, {<<b, p, w>>}), {<<c, q, x>>}), end)
<1>1. Fixed(M, <<a, b, c>>) = Fixed(M, <<a, b>>) \o Buf(c, x)
  BY FixedThree
<1>2. Lays(Fixed(M, <<a, b>>), at, With({<<a, at, v>>}, {<<b, p, w>>}), q)
  BY LaysFixedTwo
<1>3. q \in Nat
  BY <1>2 DEF Lays
<1>4. Lays(Buf(c, x), q, {<<c, q, x>>}, end)
  BY <1>3, LaysOne
<1>5. Lays(Fixed(M, <<a, b>>) \o Buf(c, x), at,
              With(With({<<a, at, v>>}, {<<b, p, w>>}), {<<c, q, x>>}), end)
  BY <1>2, <1>4, LaysCat
<1> QED
  BY <1>1, <1>5

\* Where four members lie.
LEMMA LaysFixedFour ==
  ASSUME NEW M, NEW a, NEW b, NEW c, NEW d, NEW v \in Nat, NEW w \in Nat, NEW x \in Nat, NEW y \in Nat,
         M[a] = v, M[b] = w, M[c] = x, M[d] = y, NEW at \in Nat,
         NEW p, p = at + v, NEW q, q = p + w, NEW r, r = q + x, NEW end, end = r + y
  PROVE  Lays(Fixed(M, <<a, b, c, d>>), at,
              With(With(With({<<a, at, v>>}, {<<b, p, w>>}), {<<c, q, x>>}), {<<d, r,
                  y>>}), end)
<1>1. Fixed(M, <<a, b, c, d>>) = Fixed(M, <<a, b, c>>) \o Buf(d, y)
  BY FixedFour
<1>2. Lays(Fixed(M, <<a, b, c>>), at,
              With(With({<<a, at, v>>}, {<<b, p, w>>}), {<<c, q, x>>}), r)
  BY LaysFixedThree
<1>3. r \in Nat
  BY <1>2 DEF Lays
<1>4. Lays(Buf(d, y), r, {<<d, r, y>>}, end)
  BY <1>3, LaysOne
<1>5. Lays(Fixed(M, <<a, b, c>>) \o Buf(d, y), at,
              With(With(With({<<a, at, v>>}, {<<b, p, w>>}), {<<c, q, x>>}), {<<d, r,
                  y>>}), end)
  BY <1>2, <1>4, LaysCat
<1> QED
  BY <1>1, <1>5

\* Where five members lie.
LEMMA LaysFixedFive ==
  ASSUME NEW M, NEW a, NEW b, NEW c, NEW d, NEW e,
         NEW v \in Nat, NEW w \in Nat, NEW x \in Nat, NEW y \in Nat, NEW z \in Nat,
         M[a] = v, M[b] = w, M[c] = x, M[d] = y, M[e] = z, NEW at \in Nat,
         NEW p, p = at + v, NEW q, q = p + w, NEW r, r = q + x, NEW s, s = r + y, NEW end,
             end = s + z
  PROVE  Lays(Fixed(M, <<a, b, c, d, e>>), at,
              With(With(With(With({<<a, at, v>>}, {<<b, p, w>>}), {<<c, q, x>>}), {<<d, r,
                  y>>}), {<<e, s, z>>}), end)
<1>1. Fixed(M, <<a, b, c, d, e>>) = Fixed(M, <<a, b, c, d>>) \o Buf(e, z)
  BY FixedFive
<1>2. Lays(Fixed(M, <<a, b, c, d>>), at,
              With(With(With({<<a, at, v>>}, {<<b, p, w>>}), {<<c, q, x>>}), {<<d, r,
                  y>>}), s)
  BY LaysFixedFour
<1>3. s \in Nat
  BY <1>2 DEF Lays
<1>4. Lays(Buf(e, z), s, {<<e, s, z>>}, end)
  BY <1>3, LaysOne
<1>5. Lays(Fixed(M, <<a, b, c, d>>) \o Buf(e, z), at,
              With(With(With(With({<<a, at, v>>}, {<<b, p, w>>}), {<<c, q, x>>}), {<<d, r,
                  y>>}), {<<e, s, z>>}), end)
  BY <1>2, <1>4, LaysCat
<1> QED
  BY <1>1, <1>5
\* Reading.
LEMMA ReadsNone == Reads(<<>>, {})
BY DEF Reads

\* Reading one field.
LEMMA ReadsOne ==
  ASSUME NEW r
  PROVE  Reads(<<r>>, {r})
BY DEF Reads

\* Reading two fields.
LEMMA ReadsTwo ==
  ASSUME NEW r, NEW t
  PROVE  Reads(<<r, t>>, With({r}, {t}))
BY DEF Reads, With

\* Reading fields from where they were written reads their marks.
LEMMA ReadsFrom ==
  ASSUME NEW fs, NEW at, NEW S, NEW end, Lays(fs, at, S, end)
  PROVE  Reads(From(at, fs), S)
<1>1. IsFields(fs) /\ at \in Nat /\ Marks(at, fs) = S
  BY DEF Lays
<1>2. PICK f : Sums(fs, f)
  BY <1>1, WidthIs
<1>3. IsMarks(From(at, fs)) /\ Len(From(at, fs)) = Len(fs)
  BY <1>1, <1>2, FromIs
<1> QED
  BY <1>1, <1>3 DEF Reads, Marks, IsMarks

\* Reading one list of fields and then another.
LEMMA ReadsCat ==
  ASSUME NEW a, NEW b, NEW S, NEW T, Reads(a, S), Reads(b, T)
  PROVE  Reads(a \o b, With(S, T))
<1> DEFINE n == Len(a)
           k == Len(b)
           c == a \o b
<1>1. /\ n \in Nat /\ a = [i \in 1..n |-> a[i]] /\ k \in Nat /\ b = [i \in 1..k |-> b[i]]
      /\ {a[i] : i \in 1..n} = S /\ {b[i] : i \in 1..k} = T
  BY DEF Reads
<1>2. /\ Len(c) = n + k /\ c = [i \in 1..(n + k) |-> c[i]]
      /\ \A i \in 1..n : c[i] = a[i]
      /\ \A i \in 1..k : c[n + i] = b[i]
      /\ \A i \in 1..(n + k) : c[i] = IF i <= n THEN a[i] ELSE b[i - n]
  BY <1>1, JoinIs
<1> HIDE DEF c
<1>3. \A i \in 1..(n + k) : (i <= n => i \in 1..n) /\ (~(i <= n) => i - n \in 1..k)
  BY <1>1
<1>4. (\A i \in 1..n : i \in 1..(n + k)) /\ (\A i \in 1..k : n + i \in 1..(n + k))
  BY <1>1
<1>5. \A x \in {c[i] : i \in 1..(n + k)} : x \in {a[i] : i \in 1..n} \cup {b[i] : i \in 1..k}
  BY <1>2, <1>3
<1>6. \A x \in {a[i] : i \in 1..n} \cup {b[i] : i \in 1..k} : x \in {c[i] : i \in 1..(n + k)}
  <2>1. \A i \in 1..n : a[i] \in {c[j] : j \in 1..(n + k)}
    BY <1>2, <1>4
  <2>2. \A i \in 1..k : b[i] \in {c[j] : j \in 1..(n + k)}
    BY <1>2, <1>4
  <2> QED
    BY <2>1, <2>2
<1>7. {c[i] : i \in 1..(n + k)} = {a[i] : i \in 1..n} \cup {b[i] : i \in 1..k}
  BY ONLY <1>5, <1>6
<1>8. {c[i] : i \in 1..(n + k)} = With(S, T)
  BY <1>1, <1>7 DEF With
<1>9. n + k \in Nat
  BY <1>1
<1> QED
  BY <1>2, <1>8, <1>9 DEF Reads, c

-----------------------------------------------------------------------------
(***************************************************************************)
(* What it is for a class of message to be right.                          *)
(***************************************************************************)

\* fs fills what is between two places.
Spans(fs, at, end) ==
  at \in Nat /\ end \in Nat /\ IsFields(fs) /\ end = at + Width(fs)

\* No field fills nothing.
LEMMA SpansNone ==
  ASSUME NEW at \in Nat
  PROVE  Spans(<<>>, at, at)
BY NoField DEF Spans

\* One field fills its width.
LEMMA SpansOne ==
  ASSUME NEW name, NEW width \in Nat, NEW at \in Nat, NEW end, end = at + width
  PROVE  Spans(Buf(name, width), at, end)
BY OneField DEF Spans

\* Fields of a width fill as much.
LEMMA WideSpans ==
  ASSUME NEW fs, NEW width, Wide(fs, width), NEW at \in Nat, NEW end, end = at + width
  PROVE  Spans(fs, at, end)
BY DEF Spans, Wide

\* And the other way round.
LEMMA SpansWide ==
  ASSUME NEW fs, NEW end, Spans(fs, 0, end)
  PROVE  Wide(fs, end)
<1>1. IsFields(fs) /\ end \in Nat /\ end = 0 + Width(fs)
  BY DEF Spans
<1>2. Width(fs) \in Nat
  BY <1>1, WidthIs, WidthOf
<1> QED
  BY <1>1, <1>2 DEF Wide

\* Two lists, one from where the other ends.
LEMMA SpansCat ==
  ASSUME NEW a, NEW b, NEW at, NEW mid, NEW end, Spans(a, at, mid), Spans(b, mid, end)
  PROVE  Spans(a \o b, at, end)
<1>1. at \in Nat /\ mid \in Nat /\ mid = at + Width(a) /\ IsFields(a)
  BY DEF Spans
<1>2. end \in Nat /\ end = mid + Width(b) /\ IsFields(b)
  BY DEF Spans
<1>3. Width(a) \in Nat /\ Width(b) \in Nat
  BY <1>1, <1>2, WidthIs, WidthOf
<1>4. IsFields(a \o b) /\ Width(a \o b) = Width(a) + Width(b)
  BY <1>1, <1>2, CatIs
<1> QED
  BY <1>1, <1>2, <1>3, <1>4 DEF Spans

\* What a class says of a message is right: its fields come one behind the
\* other, from the first byte to the last, and the sender's length and the
\* receiver's are the length of them all, which the receiver does not name
\* before it can know it.
Framed(f) ==
  \E fs : /\ IsFields(fs) /\ f.fields = From(0, fs)
          /\ f.len = Width(fs) /\ f.len \in Nat /\ f.len > 0 /\ f.framed = f.len
          /\ f.known \in Nat /\ f.needs \in Nat /\ f.needs <= f.known

\* And what the receiver reads is where a field of that name was written.
Found(f) ==
  \A r \in Range(f.reads) :
    <<r[2], r[3]>> \in IF r[1] = "whole" THEN {<<HEADER, f.len - HEADER>>}
                      ELSE {<<x[2], x[3]>> : x \in {g \in Range(f.fields) : g[1] = r[1]}}

Laid(f) == Framed(f) /\ Found(f)

\* The marks of a list that is read whole or by its parts.
Known(R, S, claim) ==
  \A x \in R : \/ x \in S /\ x[1] # "whole"
               \/ x = <<"whole", 16, claim>>

\* The parts of a format.
LEMMA FormatParts ==
  ASSUME NEW fs, NEW len, NEW framed, NEW known, NEW needs, NEW reads
  PROVE  LET f == Format(fs, len, framed, known, needs, reads)
         IN  /\ f.fields = From(0, fs) /\ f.len = len /\ f.framed = framed
             /\ f.known = known /\ f.needs = needs /\ f.reads = reads
BY DEF Format

\* Where nothing is read nothing is read wrong.
LEMMA NothingRead ==
  ASSUME NEW f, f.reads = <<>>
  PROVE  Found(f)
<1>1. Range(f.reads) = {}
  BY DEF Range
<1> QED
  BY <1>1 DEF Found

\* A format whose lengths are the width of its fields.
LEMMA FramedIs ==
  ASSUME NEW fs, NEW len, Wide(fs, len), len > 0,
         NEW known \in Nat, NEW needs \in Nat, needs <= known, NEW reads
  PROVE  Framed(Format(fs, len, len, known, needs, reads))
<1> DEFINE f == Format(fs, len, len, known, needs, reads)
<1>1. /\ f.fields = From(0, fs) /\ f.len = len /\ f.framed = len
      /\ f.known = known /\ f.needs = needs
  BY FormatParts
<1>2. IsFields(fs) /\ len = Width(fs) /\ len \in Nat
  BY DEF Wide
<1> HIDE DEF f
<1>3. Framed(f)
  BY <1>1, <1>2 DEF Framed
<1> QED
  BY <1>3 DEF f

\* A class of message of a client is right if its total is the width of its fields.
LEMMA HeardLaid ==
  ASSUME NEW w, NEW t, NEW k \in Nat, NEW nd \in Nat, nd <= k, Wide(w, t), t > 0,
         NEW h, h = Heard(w, t, k, nd)
  PROVE  Laid(HeardFormat(h))
<1>1. h.writes = w /\ h.total = t /\ h.known = k /\ h.needs = nd
  BY DEF Heard
<1>2. Width(w) = t
  BY DEF Wide
<1>3. HeardFormat(h) = Format(w, t, t, k, nd, <<>>)
  BY <1>1, <1>2 DEF HeardFormat
<1>4. Framed(Format(w, t, t, k, nd, <<>>))
  BY FramedIs
<1>5. Format(w, t, t, k, nd, <<>>).reads = <<>>
  BY FormatParts
<1> QED
  BY <1>3, <1>4, <1>5, NothingRead DEF Laid

ToldIs(t) == Format(t.writes, t.len, t.framed, 2, 2, <<>>)
\* A class of message to a client is right if both its lengths are.
LEMMA ToldLaid ==
  ASSUME NEW w, NEW len, NEW framed, Wide(w, len), len > 0, framed = len,
         NEW t, t = Told(w, len, framed)
  PROVE  Laid(ToldIs(t))
<1>1. t.writes = w /\ t.len = len /\ t.framed = len
  BY DEF Told
<1>2. ToldIs(t) = Format(w, len, len, 2, 2, <<>>)
  BY <1>1 DEF ToldIs
<1>3. Framed(Format(w, len, len, 2, 2, <<>>))
  BY FramedIs
<1>4. Format(w, len, len, 2, 2, <<>>).reads = <<>>
  BY FormatParts
<1> QED
  BY <1>2, <1>3, <1>4, NothingRead DEF Laid

AnswerIs(a) == Format(a.writes, a.claims, Width(a.writes), 2, 2, <<>>)
\* So is an answer of the backend on its way to the client.
LEMMA AnswerLaid ==
  ASSUME NEW w, NEW c, Wide(w, c), c > 0, NEW r, NEW a, a = Layout(w, c, r)
  PROVE  Laid(AnswerIs(a))
<1>1. a.writes = w /\ a.claims = c /\ Width(w) = c
  BY DEF Layout, Wide
<1>2. AnswerIs(a) = Format(w, c, c, 2, 2, <<>>)
  BY <1>1 DEF AnswerIs
<1>3. Framed(Format(w, c, c, 2, 2, <<>>))
  BY FramedIs
<1>4. Format(w, c, c, 2, 2, <<>>).reads = <<>>
  BY FormatParts
<1> QED
  BY <1>2, <1>3, <1>4, NothingRead DEF Laid

\* A class between servers is right if its fields end where it claims to, behind
\* the header, and what is read is where it was written.
LEMMA BackendLaid ==
  ASSUME NEW w, NEW c, NEW r, NEW l, l = Layout(w, c, r), NEW S, NEW R, NEW end,
         Lays(w, 16, S, end), c \in Nat, end = 16 + c, Reads(r, R), Known(R, S, c)
  PROVE  Laid(BackendFormat(l))
<1> DEFINE fs == Buf("header", HEADER) \o w
           f == Format(fs, 16 + c, 16 + c, 4, 4, r)
<1>1. l.writes = w /\ l.claims = c /\ l.reads = r /\ HEADER = 16
  BY DEF Layout, HEADER
<1>2. BackendFormat(l) = f
  BY <1>1 DEF BackendFormat
<1>3. Lays(Buf("header", HEADER), 0, {<<"header", 0, 16>>}, 16)
  BY <1>1, LaysOne
<1>4. Lays(fs, 0, With({<<"header", 0, 16>>}, S), end)
  BY <1>3, LaysCat
<1>5. Wide(fs, end - 0) /\ end - 0 = 16 + c /\ 16 + c > 0
  <2>1. Wide(fs, end - 0)
    BY <1>4, WideLays
  <2> QED
    BY <2>1
<1> HIDE DEF fs
<1>6. Framed(f)
  BY <1>5, FramedIs
<1>7. f.fields = From(0, fs) /\ f.len = 16 + c /\ f.reads = r
  BY FormatParts
<1>8. Range(f.fields) = With({<<"header", 0, 16>>}, S)
  <2>1. Reads(From(0, fs), With({<<"header", 0, 16>>}, S))
    BY <1>4, ReadsFrom
  <2>2. DOMAIN From(0, fs) = 1..Len(From(0, fs))
    BY <2>1 DEF Reads
  <2> QED
    BY <1>7, <2>1, <2>2 DEF Range, Reads
<1>9. Range(f.reads) = R
  <2>1. DOMAIN r = 1..Len(r)
    BY DEF Reads
  <2> QED
    BY <1>7, <2>1 DEF Range, Reads
<1> HIDE DEF f
<1>10. Found(f)
  <2>1. ASSUME NEW x \in R, x \in S, x[1] # "whole"
        PROVE  <<x[2], x[3]>> \in {<<y[2], y[3]>> : y \in {g \in Range(f.fields) : g[1] = x[1]}}
    <3>1. x \in {g \in Range(f.fields) : g[1] = x[1]}
      BY <1>8, <2>1 DEF With
    <3> QED
      BY <3>1
  <2>2. ASSUME NEW x \in R, x = <<"whole", 16, c>>
        PROVE  x[1] = "whole" /\ <<x[2], x[3]>> \in {<<HEADER, f.len - HEADER>>}
    <3>1. f.len - HEADER = c
      BY <1>1, <1>7
    <3> QED
      BY <1>1, <2>2, <3>1
  <2>3. \A x \in R : (x \in S /\ x[1] # "whole") \/ x = <<"whole", 16, c>>
    BY DEF Known
  <2> QED
    BY <1>9, <2>1, <2>2, <2>3 DEF Found
<1> QED
  BY <1>2, <1>6, <1>10 DEF Laid, f

\* The lengths of strings.
LEMMA SendIs ==
  ASSUME NEW m, NEW n \in Nat, m.n = n
  PROVE  /\ send_len(m, NARROW, 0) = 2 + n /\ send_len(m, NARROW, 1) = 3 + n
         /\ send_len(m, WIDE, 0) = 2 + 2 * n /\ send_len(m, WIDE, 1) = 4 + 2 * n
BY DEF send_len, NARROW, WIDE

\* The width of fields from where they lie.
LEMMA WidthFrom ==
  ASSUME NEW fs, NEW at, NEW S, NEW end, Lays(fs, at, S, end), NEW w \in Nat, end = at + w
  PROVE  Width(fs) = w
<1>1. Wide(fs, end - at) /\ at \in Nat
  BY WideLays DEF Lays
<1> QED
  BY <1>1 DEF Wide

\* A string is a field.
LEMMA StrIs ==
  ASSUME NEW m, NEW n \in Nat, m.n = n, NEW name
  PROVE  /\ Str(m, name, NARROW, 0) = Buf(name, 2 + n)
         /\ Str(m, name, NARROW, 1) = Buf(name, 3 + n)
         /\ Str(m, name, WIDE, 0) = Buf(name, 2 + 2 * n)
         /\ Str(m, name, WIDE, 1) = Buf(name, 4 + 2 * n)
         /\ send_len(m, NARROW, 0) = 2 + n /\ send_len(m, NARROW, 1) = 3 + n
         /\ send_len(m, WIDE, 0) = 2 + 2 * n /\ send_len(m, WIDE, 1) = 4 + 2 * n
<1>1. /\ send_len(m, NARROW, 0) = 2 + n /\ send_len(m, NARROW, 1) = 3 + n
      /\ send_len(m, WIDE, 0) = 2 + 2 * n /\ send_len(m, WIDE, 1) = 4 + 2 * n
  BY DEF send_len, NARROW, WIDE
<1> QED
  BY <1>1 DEF Str, Buf

-----------------------------------------------------------------------------
(***************************************************************************)
(* The classes between servers and the backend.                            *)
(***************************************************************************)

\* Hello.
LEMMA HelloLaid ==
  ASSUME NEW m, NEW n \in Nat, m.n = n
  PROVE  Laid(BackendFormat(Hello(m)))
<1> DEFINE f1 == Fixed(HelloMembers, <<"peer_info">>)
           s1 == {<<"peer_info", 16, 4>>}
<1>1. Hello(m) = Layout(f1, 4, From(16, f1))
  BY DEF Hello
<1>2. HelloMembers["peer_info"] = 4
  BY DEF HelloMembers, UUID
<1>3. 16 \in Nat /\ 4 \in Nat /\ 20 = 16 + 4
  OBVIOUS
<1>4. Lays(f1, 16, s1, 20)
  BY ONLY <1>2, <1>3, LaysFixedOne
<1>5. Reads(From(16, f1), s1)
  BY <1>4, ReadsFrom
<1>6. 4 \in Nat /\ 20 = 16 + 4
  OBVIOUS
<1>7. Known(s1, s1, 4)
  BY DEF Known, With
<1> QED
  BY <1>1, <1>4, <1>5, <1>6, <1>7, BackendLaid

\* KillClient, in its long form.
LEMMA KillClientLongLaid ==
  ASSUME NEW m, NEW n \in Nat, m.n = n, m.long
  PROVE  Laid(BackendFormat(KillClient(m)))
<1> DEFINE f1 == Fixed(KillClientMembers, <<"reason">>)
           f2 == Fixed(KillClientMembers, <<"ki">>)
           s1 == With({<<"reason", 16, 4>>}, {<<"ki", 20, 4>>})
<1>1. KillClient(m) = Layout(f1 \o f2, 8, From(16, f1) \o From(20, f2))
  BY DEF KillClient, Opt
<1>2. KillClientMembers["reason"] = 4
  BY DEF KillClientMembers, UUID
<1>3. 16 \in Nat /\ 4 \in Nat /\ 20 = 16 + 4
  OBVIOUS
<1>4. Lays(f1, 16, {<<"reason", 16, 4>>}, 20)
  BY ONLY <1>2, <1>3, LaysFixedOne
<1>5. KillClientMembers["ki"] = 4
  BY DEF KillClientMembers, UUID
<1>6. 20 \in Nat /\ 4 \in Nat /\ 24 = 20 + 4
  OBVIOUS
<1>7. Lays(f2, 20, {<<"ki", 20, 4>>}, 24)
  BY ONLY <1>5, <1>6, LaysFixedOne
<1>8. Lays(f1 \o f2, 16, s1, 24)
  BY <1>4, <1>7, LaysCat
<1>9. Reads(From(16, f1), {<<"reason", 16, 4>>})
  BY <1>4, ReadsFrom
<1>10. Reads(From(20, f2), {<<"ki", 20, 4>>})
  BY <1>7, ReadsFrom
<1>11. Reads(From(16, f1) \o From(20, f2), s1)
  BY <1>9, <1>10, ReadsCat
<1>12. 8 \in Nat /\ 24 = 16 + 8
  OBVIOUS
<1>13. Known(s1, s1, 8)
  BY DEF Known, With
<1> QED
  BY <1>1, <1>8, <1>11, <1>12, <1>13, BackendLaid

\* KillClient, in its short form.
LEMMA KillClientShortLaid ==
  ASSUME NEW m, NEW n \in Nat, m.n = n, ~m.long
  PROVE  Laid(BackendFormat(KillClient(m)))
<1> DEFINE f1 == Fixed(KillClientMembers, <<"reason">>)
           s1 == {<<"reason", 16, 4>>}
<1>1. KillClient(m) = Layout(f1 \o <<>>, 4, From(16, f1) \o <<>>)
  BY DEF KillClient, Opt
<1>2. KillClientMembers["reason"] = 4
  BY DEF KillClientMembers, UUID
<1>3. 16 \in Nat /\ 4 \in Nat /\ 20 = 16 + 4
  OBVIOUS
<1>4. Lays(f1, 16, s1, 20)
  BY ONLY <1>2, <1>3, LaysFixedOne
<1>5. 20 \in Nat
  OBVIOUS
<1>6. Lays(<<>>, 20, {}, 20)
  BY <1>5, LaysNone
<1>7. Lays(f1 \o <<>>, 16, With(s1, {}), 20)
  BY <1>4, <1>6, LaysCat
<1>8. Reads(From(16, f1), s1)
  BY <1>4, ReadsFrom
<1>9. Reads(<<>>, {})
  BY ReadsNone
<1>10. Reads(From(16, f1) \o <<>>, With(s1, {}))
  BY <1>8, <1>9, ReadsCat
<1>11. 4 \in Nat /\ 20 = 16 + 4
  OBVIOUS
<1>12. Known(With(s1, {}), With(s1, {}), 4)
  BY DEF Known, With
<1> QED
  BY <1>1, <1>7, <1>10, <1>11, <1>12, BackendLaid

\* AuthAcctLogin_To, in its long form.
LEMMA AuthAcctLogin_ToLongLaid ==
  ASSUME NEW m, NEW n \in Nat, m.n = n, m.long
  PROVE  Laid(BackendFormat(AuthAcctLogin_To(m)))
<1> DEFINE f1 == Fixed(AuthAcctLogin_ToMembers, <<"pwhash">>)
           s1 == With({<<"server", 48 + 2 * n, 4>>}, {<<"client", 52 + 2 * n, 4>>})
           s2 == {<<"pwhash", 28 + 2 * n, 20>>}
           f2 == Fixed(AuthAcctLogin_ToMembers, <<"reqid", "authtype">>)
           w1 == f2 \o Str(m, "name", WIDE, 1)
           f3 == Fixed(AuthAcctLogin_ToMembers, <<"server", "client">>)
           w2 == w1 \o f1 \o f3
           s3 == {<<"name", 24, 4 + 2 * n>>}
           s4 == With({<<"reqid", 16, 4>>}, {<<"authtype", 20, 4>>})
           s5 == With(s4, s3)
           s6 == With(With(s5, s2), s1)
<1>1. AuthAcctLogin_To(m) = Layout(w2, 28 + send_len(m, WIDE, 1) + 8, From(16, w2))
  BY DEF AuthAcctLogin_To, Opt
<1>2. AuthAcctLogin_ToMembers["reqid"] = 4 /\ AuthAcctLogin_ToMembers["authtype"] = 4
  BY DEF AuthAcctLogin_ToMembers, UUID
<1>3. 16 \in Nat /\ 4 \in Nat /\ 20 = 16 + 4 /\ 24 = 20 + 4
  OBVIOUS
<1>4. Lays(f2, 16, s4, 24)
  BY ONLY <1>2, <1>3, LaysFixedTwo
<1>5. 24 \in Nat /\ (4 + 2 * n) \in Nat /\ 28 + 2 * n = 24 + (4 + 2 * n)
  OBVIOUS
<1>6. Str(m, "name", WIDE, 1) = Buf("name", 4 + 2 * n)
  BY StrIs
<1>7. Lays(Buf("name", 4 + 2 * n), 24, s3, 28 + 2 * n)
  BY <1>5, LaysOne
<1>8. Lays(Str(m, "name", WIDE, 1), 24, s3, 28 + 2 * n)
  BY <1>6, <1>7
<1>9. Lays(w1, 16, s5, 28 + 2 * n)
  BY <1>4, <1>8, LaysCat
<1>10. AuthAcctLogin_ToMembers["pwhash"] = 20
  BY DEF AuthAcctLogin_ToMembers, UUID
<1>11. (28 + 2 * n) \in Nat /\ 20 \in Nat /\ 48 + 2 * n = (28 + 2 * n) + 20
  OBVIOUS
<1>12. Lays(f1, 28 + 2 * n, s2, 48 + 2 * n)
  BY ONLY <1>10, <1>11, LaysFixedOne
<1>13. Lays(w1 \o f1, 16, With(s5, s2), 48 + 2 * n)
  BY <1>9, <1>12, LaysCat
<1>14. AuthAcctLogin_ToMembers["server"] = 4 /\ AuthAcctLogin_ToMembers["client"] = 4
  BY DEF AuthAcctLogin_ToMembers, UUID
<1>15. (48 + 2 * n) \in Nat /\ 4 \in Nat /\ 52 + 2 * n = (48 + 2 * n) + 4 /\ 56 + 2 * n
           = (52 + 2 * n) + 4
  OBVIOUS
<1>16. Lays(f3, 48 + 2 * n, s1, 56 + 2 * n)
  BY ONLY <1>14, <1>15, LaysFixedTwo
<1>17. Lays(w2, 16, s6, 56 + 2 * n)
  BY <1>13, <1>16, LaysCat
<1>18. Reads(From(16, w2), s6)
  BY <1>17, ReadsFrom
<1>19. 28 + send_len(m, WIDE, 1) + 8 = 40 + 2 * n
  BY SendIs DEF UUID
<1>20. AuthAcctLogin_To(m) = Layout(w2, 40 + 2 * n, From(16, w2))
  BY <1>1, <1>19
<1>21. (40 + 2 * n) \in Nat /\ 56 + 2 * n = 16 + (40 + 2 * n)
  OBVIOUS
<1>22. Known(s6, s6, 40 + 2 * n)
  BY DEF Known, With
<1> QED
  BY <1>20, <1>17, <1>18, <1>21, <1>22, BackendLaid

\* AuthAcctLogin_To, in its short form.
LEMMA AuthAcctLogin_ToShortLaid ==
  ASSUME NEW m, NEW n \in Nat, m.n = n, ~m.long
  PROVE  Laid(BackendFormat(AuthAcctLogin_To(m)))
<1> DEFINE f1 == Fixed(AuthAcctLogin_ToMembers, <<"reqid", "authtype">>)
           s1 == With({<<"reqid", 16, 4>>}, {<<"authtype", 20, 4>>})
           s2 == {<<"name", 24, 4 + 2 * n>>}
           s3 == With(With(s1, s2), {<<"pwhash", 28 + 2 * n, 20>>})
           f2 == Str(m, "name", WIDE, 1)
           w1 == f1 \o f2 \o Fixed(AuthAcctLogin_ToMembers, <<"pwhash">>)
<1>1. AuthAcctLogin_To(m) = Layout(w1 \o <<>>, 28 + send_len(m, WIDE, 1) + 0, From(16, w1
          \o <<>>))
  BY DEF AuthAcctLogin_To, Opt
<1>2. AuthAcctLogin_ToMembers["reqid"] = 4 /\ AuthAcctLogin_ToMembers["authtype"] = 4
  BY DEF AuthAcctLogin_ToMembers, UUID
<1>3. 16 \in Nat /\ 4 \in Nat /\ 20 = 16 + 4 /\ 24 = 20 + 4
  OBVIOUS
<1>4. Lays(f1, 16, s1, 24)
  BY ONLY <1>2, <1>3, LaysFixedTwo
<1>5. 24 \in Nat /\ (4 + 2 * n) \in Nat /\ 28 + 2 * n = 24 + (4 + 2 * n)
  OBVIOUS
<1>6. f2 = Buf("name", 4 + 2 * n)
  BY StrIs
<1>7. Lays(Buf("name", 4 + 2 * n), 24, s2, 28 + 2 * n)
  BY <1>5, LaysOne
<1>8. Lays(f2, 24, s2, 28 + 2 * n)
  BY <1>6, <1>7
<1>9. Lays(f1 \o f2, 16, With(s1, s2), 28 + 2 * n)
  BY <1>4, <1>8, LaysCat
<1>10. AuthAcctLogin_ToMembers["pwhash"] = 20
  BY DEF AuthAcctLogin_ToMembers, UUID
<1>11. (28 + 2 * n) \in Nat /\ 20 \in Nat /\ 48 + 2 * n = (28 + 2 * n) + 20
  OBVIOUS
<1>12. Lays(Fixed(AuthAcctLogin_ToMembers, <<"pwhash">>), 28 + 2 * n, {<<"pwhash",
           28 + 2 * n, 20>>}, 48 + 2 * n)
  BY ONLY <1>10, <1>11, LaysFixedOne
<1>13. Lays(w1, 16, s3, 48 + 2 * n)
  BY <1>9, <1>12, LaysCat
<1>14. (48 + 2 * n) \in Nat
  OBVIOUS
<1>15. Lays(<<>>, 48 + 2 * n, {}, 48 + 2 * n)
  BY <1>14, LaysNone
<1>16. Lays(w1 \o <<>>, 16, With(s3, {}), 48 + 2 * n)
  BY <1>13, <1>15, LaysCat
<1>17. Reads(From(16, w1 \o <<>>), With(s3, {}))
  BY <1>16, ReadsFrom
<1>18. 28 + send_len(m, WIDE, 1) + 0 = 32 + 2 * n
  BY SendIs DEF UUID
<1>19. AuthAcctLogin_To(m) = Layout(w1 \o <<>>, 32 + 2 * n, From(16, w1 \o <<>>))
  BY <1>1, <1>18
<1>20. (32 + 2 * n) \in Nat /\ 48 + 2 * n = 16 + (32 + 2 * n)
  OBVIOUS
<1>21. Known(With(s3, {}), With(s3, {}), 32 + 2 * n)
  BY DEF Known, With
<1> QED
  BY <1>19, <1>16, <1>17, <1>20, <1>21, BackendLaid

\* AuthAcctLogin_From, in its long form.
LEMMA AuthAcctLogin_FromLongLaid ==
  ASSUME NEW m, NEW n \in Nat, m.n = n, m.long
  PROVE  Laid(BackendFormat(AuthAcctLogin_From(m)))
<1> DEFINE f1 == Fixed(AuthAcctLogin_FromMembers, <<"reqid", "result">>)
           s1 == With({<<"reqid", 16, 4>>}, {<<"result", 20, 4>>})
           s2 == {<<"players", 47 + n, n>>}
           f2 == Fixed(AuthAcctLogin_FromMembers, <<"uuid", "acct_type">>)
           f3 == Str(m, "dirname", NARROW, 1)
           w1 == f2 \o f3
           w2 == From(24, w1) \o <<<<"players", 24 + UUID + 4 + send_len(m, NARROW, 1),
               HEADER + 28 + send_len(m, NARROW, 1) + m.n - (24 + UUID + 4 + send_len(m,
               NARROW, 1))>>>>
           s3 == With({<<"uuid", 24, 16>>}, {<<"acct_type", 40, 4>>})
           s4 == {<<"dirname", 44, 3 + n>>}
           s5 == With(s3, s4)
           s6 == With(s5, s2)
<1>1. AuthAcctLogin_From(m) = Layout(f1 \o (w1 \o Buf("players", m.n)), 28 + send_len(m,
          NARROW, 1) + m.n, From(16, f1) \o (w2))
  BY DEF AuthAcctLogin_From, Opt
<1>2. AuthAcctLogin_FromMembers["reqid"] = 4 /\ AuthAcctLogin_FromMembers["result"] = 4
  BY DEF AuthAcctLogin_FromMembers, UUID
<1>3. 16 \in Nat /\ 4 \in Nat /\ 20 = 16 + 4 /\ 24 = 20 + 4
  OBVIOUS
<1>4. Lays(f1, 16, s1, 24)
  BY ONLY <1>2, <1>3, LaysFixedTwo
<1>5. AuthAcctLogin_FromMembers["uuid"] = 16 /\ AuthAcctLogin_FromMembers["acct_type"] = 4
  BY DEF AuthAcctLogin_FromMembers, UUID
<1>6. 24 \in Nat /\ 16 \in Nat /\ 40 = 24 + 16 /\ 4 \in Nat /\ 44 = 40 + 4
  OBVIOUS
<1>7. Lays(f2, 24, s3, 44)
  BY ONLY <1>5, <1>6, LaysFixedTwo
<1>8. 44 \in Nat /\ (3 + n) \in Nat /\ 47 + n = 44 + (3 + n)
  OBVIOUS
<1>9. f3 = Buf("dirname", 3 + n)
  BY StrIs
<1>10. Lays(Buf("dirname", 3 + n), 44, s4, 47 + n)
  BY <1>8, LaysOne
<1>11. Lays(f3, 44, s4, 47 + n)
  BY <1>9, <1>10
<1>12. Lays(w1, 24, s5, 47 + n)
  BY <1>7, <1>11, LaysCat
<1>13. (47 + n) \in Nat /\ n \in Nat /\ 47 + 2 * n = (47 + n) + n
  OBVIOUS
<1>14. m.n = n
  BY SendIs DEF UUID, HEADER
<1>15. Lays(Buf("players", n), 47 + n, s2, 47 + 2 * n)
  BY <1>13, LaysOne
<1>16. Lays(Buf("players", m.n), 47 + n, s2, 47 + 2 * n)
  BY <1>14, <1>15
<1>17. Lays(w1 \o Buf("players", m.n), 24, s6, 47 + 2 * n)
  BY <1>12, <1>16, LaysCat
<1>18. Lays(f1 \o (w1 \o Buf("players", m.n)), 16, With(s1, s6), 47 + 2 * n)
  BY <1>4, <1>17, LaysCat
<1>19. Reads(From(16, f1), s1)
  BY <1>4, ReadsFrom
<1>20. Reads(From(24, w1), s5)
  BY <1>12, ReadsFrom
<1>21. 24 + UUID + 4 + send_len(m, NARROW, 1) = 47 + n
  BY SendIs DEF UUID, HEADER
<1>22. HEADER + 28 + send_len(m, NARROW, 1) + m.n - (24 + UUID + 4 + send_len(m, NARROW,
           1)) = n
  BY SendIs DEF UUID, HEADER
<1>23. Reads(<<<<"players", 47 + n, n>>>>, s2)
  BY ReadsOne
<1>24. Reads(<<<<"players", 24 + UUID + 4 + send_len(m, NARROW, 1),
           HEADER + 28 + send_len(m, NARROW, 1) + m.n - (24 + UUID + 4 + send_len(m,
           NARROW, 1))>>>>, s2)
  BY <1>21, <1>22, <1>23
<1>25. Reads(w2, s6)
  BY <1>20, <1>24, ReadsCat
<1>26. Reads(From(16, f1) \o (w2), With(s1, s6))
  BY <1>19, <1>25, ReadsCat
<1>27. 28 + send_len(m, NARROW, 1) + m.n = 31 + 2 * n
  BY SendIs DEF UUID
<1>28. AuthAcctLogin_From(m) = Layout(f1 \o (w1 \o Buf("players", m.n)), 31 + 2 * n,
           From(16, f1) \o (w2))
  BY <1>1, <1>27
<1>29. (31 + 2 * n) \in Nat /\ 47 + 2 * n = 16 + (31 + 2 * n)
  OBVIOUS
<1>30. Known(With(s1, s6), With(s1, s6), 31 + 2 * n)
  BY DEF Known, With
<1> QED
  BY <1>28, <1>18, <1>26, <1>29, <1>30, BackendLaid

\* AuthAcctLogin_From, in its short form.
LEMMA AuthAcctLogin_FromShortLaid ==
  ASSUME NEW m, NEW n \in Nat, m.n = n, ~m.long
  PROVE  Laid(BackendFormat(AuthAcctLogin_From(m)))
<1> DEFINE f1 == Fixed(AuthAcctLogin_FromMembers, <<"reqid", "result">>)
           s1 == With({<<"reqid", 16, 4>>}, {<<"result", 20, 4>>})
<1>1. AuthAcctLogin_From(m) = Layout(f1 \o <<>>, 8, From(16, f1) \o <<>>)
  BY DEF AuthAcctLogin_From, Opt
<1>2. AuthAcctLogin_FromMembers["reqid"] = 4 /\ AuthAcctLogin_FromMembers["result"] = 4
  BY DEF AuthAcctLogin_FromMembers, UUID
<1>3. 16 \in Nat /\ 4 \in Nat /\ 20 = 16 + 4 /\ 24 = 20 + 4
  OBVIOUS
<1>4. Lays(f1, 16, s1, 24)
  BY ONLY <1>2, <1>3, LaysFixedTwo
<1>5. 24 \in Nat
  OBVIOUS
<1>6. Lays(<<>>, 24, {}, 24)
  BY <1>5, LaysNone
<1>7. Lays(f1 \o <<>>, 16, With(s1, {}), 24)
  BY <1>4, <1>6, LaysCat
<1>8. Reads(From(16, f1), s1)
  BY <1>4, ReadsFrom
<1>9. Reads(<<>>, {})
  BY ReadsNone
<1>10. Reads(From(16, f1) \o <<>>, With(s1, {}))
  BY <1>8, <1>9, ReadsCat
<1>11. 8 \in Nat /\ 24 = 16 + 8
  OBVIOUS
<1>12. Known(With(s1, {}), With(s1, {}), 8)
  BY DEF Known, With
<1> QED
  BY <1>1, <1>7, <1>10, <1>11, <1>12, BackendLaid

\* AuthKIValidate_To.
LEMMA AuthKIValidate_ToLaid ==
  ASSUME NEW m, NEW n \in Nat, m.n = n
  PROVE  Laid(BackendFormat(AuthKIValidate_To(m)))
<1> DEFINE s1 == With({<<"uuid", 16, 16>>}, {<<"kinum", 32, 4>>})
           f1 == Fixed(AuthKIValidate_ToMembers, <<"uuid", "kinum">>)
           f2 == Fixed(AuthKIValidate_ToMembers, <<"kinum">>)
           f3 == Fixed(AuthKIValidate_ToMembers, <<"uuid">>)
           w1 == From(16, f3) \o From(32, f2)
<1>1. AuthKIValidate_To(m) = Layout(f1, UUID + 4, w1)
  BY DEF AuthKIValidate_To
<1>2. AuthKIValidate_ToMembers["uuid"] = 16 /\ AuthKIValidate_ToMembers["kinum"] = 4
  BY DEF AuthKIValidate_ToMembers, UUID
<1>3. 16 \in Nat /\ 32 = 16 + 16 /\ 4 \in Nat /\ 36 = 32 + 4
  OBVIOUS
<1>4. Lays(f1, 16, s1, 36)
  BY ONLY <1>2, <1>3, LaysFixedTwo
<1>5. AuthKIValidate_ToMembers["uuid"] = 16
  BY DEF AuthKIValidate_ToMembers, UUID
<1>6. 16 \in Nat /\ 32 = 16 + 16
  OBVIOUS
<1>7. Lays(f3, 16, {<<"uuid", 16, 16>>}, 32)
  BY ONLY <1>5, <1>6, LaysFixedOne
<1>8. Reads(From(16, f3), {<<"uuid", 16, 16>>})
  BY <1>7, ReadsFrom
<1>9. AuthKIValidate_ToMembers["kinum"] = 4
  BY DEF AuthKIValidate_ToMembers, UUID
<1>10. 32 \in Nat /\ 4 \in Nat /\ 36 = 32 + 4
  OBVIOUS
<1>11. Lays(f2, 32, {<<"kinum", 32, 4>>}, 36)
  BY ONLY <1>9, <1>10, LaysFixedOne
<1>12. Reads(From(32, f2), {<<"kinum", 32, 4>>})
  BY <1>11, ReadsFrom
<1>13. Reads(w1, s1)
  BY <1>8, <1>12, ReadsCat
<1>14. UUID + 4 = 20
  BY SendIs DEF UUID
<1>15. AuthKIValidate_To(m) = Layout(f1, 20, w1)
  BY <1>1, <1>14
<1>16. 20 \in Nat /\ 36 = 16 + 20
  OBVIOUS
<1>17. Known(s1, s1, 20)
  BY DEF Known, With
<1> QED
  BY <1>15, <1>4, <1>13, <1>16, <1>17, BackendLaid

\* AuthKIValidate_From.
LEMMA AuthKIValidate_FromLaid ==
  ASSUME NEW m, NEW n \in Nat, m.n = n
  PROVE  Laid(BackendFormat(AuthKIValidate_From(m)))
<1> DEFINE f1 == Fixed(AuthKIValidate_FromMembers, <<"kinum", "result">>)
           s1 == With({<<"kinum", 16, 4>>}, {<<"result", 20, 4>>})
<1>1. AuthKIValidate_From(m) = Layout(f1, 8, From(16, f1))
  BY DEF AuthKIValidate_From
<1>2. AuthKIValidate_FromMembers["kinum"] = 4 /\ AuthKIValidate_FromMembers["result"] = 4
  BY DEF AuthKIValidate_FromMembers, UUID
<1>3. 16 \in Nat /\ 4 \in Nat /\ 20 = 16 + 4 /\ 24 = 20 + 4
  OBVIOUS
<1>4. Lays(f1, 16, s1, 24)
  BY ONLY <1>2, <1>3, LaysFixedTwo
<1>5. Reads(From(16, f1), s1)
  BY <1>4, ReadsFrom
<1>6. 8 \in Nat /\ 24 = 16 + 8
  OBVIOUS
<1>7. Known(s1, s1, 8)
  BY DEF Known, With
<1> QED
  BY <1>1, <1>4, <1>5, <1>6, <1>7, BackendLaid

\* AuthPlayerLogout.
LEMMA AuthPlayerLogoutLaid ==
  ASSUME NEW m, NEW n \in Nat, m.n = n
  PROVE  Laid(BackendFormat(AuthPlayerLogout(m)))
<1> DEFINE f1 == Fixed(AuthPlayerLogoutMembers, <<"kinum">>)
           s1 == {<<"kinum", 16, 4>>}
<1>1. AuthPlayerLogout(m) = Layout(f1, 4, From(16, f1))
  BY DEF AuthPlayerLogout
<1>2. AuthPlayerLogoutMembers["kinum"] = 4
  BY DEF AuthPlayerLogoutMembers, UUID
<1>3. 16 \in Nat /\ 4 \in Nat /\ 20 = 16 + 4
  OBVIOUS
<1>4. Lays(f1, 16, s1, 20)
  BY ONLY <1>2, <1>3, LaysFixedOne
<1>5. Reads(From(16, f1), s1)
  BY <1>4, ReadsFrom
<1>6. 4 \in Nat /\ 20 = 16 + 4
  OBVIOUS
<1>7. Known(s1, s1, 4)
  BY DEF Known, With
<1> QED
  BY <1>1, <1>4, <1>5, <1>6, <1>7, BackendLaid

\* AuthChangePassword_To.
LEMMA AuthChangePassword_ToLaid ==
  ASSUME NEW m, NEW n \in Nat, m.n = n
  PROVE  Laid(BackendFormat(AuthChangePassword_To(m)))
<1> DEFINE f1 == Fixed(AuthChangePassword_ToMembers, <<"uuid", "reqid">>)
           s1 == With({<<"uuid", 16, 16>>}, {<<"reqid", 32, 4>>})
           f2 == Str(m, "name", NARROW, 1)
           s2 == {<<"name", 36, 3 + n>>}
           s3 == With(With(s1, s2), {<<"pwhash", 39 + n, 20>>})
           f3 == Fixed(AuthChangePassword_ToMembers, <<"pwhash">>)
           w1 == f1 \o f2 \o f3
<1>1. AuthChangePassword_To(m) = Layout(w1, 24 + UUID + send_len(m, NARROW, 1), From(16,
          w1))
  BY DEF AuthChangePassword_To
<1>2. AuthChangePassword_ToMembers["uuid"] = 16 /\ AuthChangePassword_ToMembers["reqid"] = 4
  BY DEF AuthChangePassword_ToMembers, UUID
<1>3. 16 \in Nat /\ 32 = 16 + 16 /\ 4 \in Nat /\ 36 = 32 + 4
  OBVIOUS
<1>4. Lays(f1, 16, s1, 36)
  BY ONLY <1>2, <1>3, LaysFixedTwo
<1>5. 36 \in Nat /\ (3 + n) \in Nat /\ 39 + n = 36 + (3 + n)
  OBVIOUS
<1>6. f2 = Buf("name", 3 + n)
  BY StrIs
<1>7. Lays(Buf("name", 3 + n), 36, s2, 39 + n)
  BY <1>5, LaysOne
<1>8. Lays(f2, 36, s2, 39 + n)
  BY <1>6, <1>7
<1>9. Lays(f1 \o f2, 16, With(s1, s2), 39 + n)
  BY <1>4, <1>8, LaysCat
<1>10. AuthChangePassword_ToMembers["pwhash"] = 20
  BY DEF AuthChangePassword_ToMembers, UUID
<1>11. (39 + n) \in Nat /\ 20 \in Nat /\ 59 + n = (39 + n) + 20
  OBVIOUS
<1>12. Lays(f3, 39 + n, {<<"pwhash", 39 + n, 20>>}, 59 + n)
  BY ONLY <1>10, <1>11, LaysFixedOne
<1>13. Lays(w1, 16, s3, 59 + n)
  BY <1>9, <1>12, LaysCat
<1>14. Reads(From(16, w1), s3)
  BY <1>13, ReadsFrom
<1>15. 24 + UUID + send_len(m, NARROW, 1) = 43 + n
  BY SendIs DEF UUID
<1>16. AuthChangePassword_To(m) = Layout(w1, 43 + n, From(16, w1))
  BY <1>1, <1>15
<1>17. (43 + n) \in Nat /\ 59 + n = 16 + (43 + n)
  OBVIOUS
<1>18. Known(s3, s3, 43 + n)
  BY DEF Known, With
<1> QED
  BY <1>16, <1>13, <1>14, <1>17, <1>18, BackendLaid

\* AuthChangePassword_From.
LEMMA AuthChangePassword_FromLaid ==
  ASSUME NEW m, NEW n \in Nat, m.n = n
  PROVE  Laid(BackendFormat(AuthChangePassword_From(m)))
<1> DEFINE f1 == Fixed(AuthChangePassword_FromMembers, <<"reqid", "result">>)
           s1 == With({<<"reqid", 16, 4>>}, {<<"result", 20, 4>>})
<1>1. AuthChangePassword_From(m) = Layout(f1, 8, From(16, f1))
  BY DEF AuthChangePassword_From
<1>2. AuthChangePassword_FromMembers["reqid"] = 4
          /\ AuthChangePassword_FromMembers["result"] = 4
  BY DEF AuthChangePassword_FromMembers, UUID
<1>3. 16 \in Nat /\ 4 \in Nat /\ 20 = 16 + 4 /\ 24 = 20 + 4
  OBVIOUS
<1>4. Lays(f1, 16, s1, 24)
  BY ONLY <1>2, <1>3, LaysFixedTwo
<1>5. Reads(From(16, f1), s1)
  BY <1>4, ReadsFrom
<1>6. 8 \in Nat /\ 24 = 16 + 8
  OBVIOUS
<1>7. Known(s1, s1, 8)
  BY DEF Known, With
<1> QED
  BY <1>1, <1>4, <1>5, <1>6, <1>7, BackendLaid

\* VaultPlayerCreate_To.
LEMMA VaultPlayerCreate_ToLaid ==
  ASSUME NEW m, NEW n \in Nat, m.n = n
  PROVE  Laid(BackendFormat(VaultPlayerCreate_To(m)))
<1> DEFINE f1 == Fixed(VaultPlayerCreate_ToMembers, <<"reqid", "uuid">>)
           s1 == With({<<"reqid", 16, 4>>}, {<<"uuid", 20, 16>>})
           f2 == Str(m, "name", NARROW, 1)
           s2 == {<<"name", 36, 3 + n>>}
           s3 == {<<"gender", 39 + n, 3 + n>>}
           s4 == With(With(s1, s2), s3)
           f3 == Str(m, "gender", NARROW, 1)
           w1 == f1 \o f2 \o f3
<1>1. VaultPlayerCreate_To(m) = Layout(w1, 20 + send_len(m, NARROW, 1) + send_len(m,
          NARROW, 1), From(16, w1))
  BY DEF VaultPlayerCreate_To
<1>2. VaultPlayerCreate_ToMembers["reqid"] = 4 /\ VaultPlayerCreate_ToMembers["uuid"] = 16
  BY DEF VaultPlayerCreate_ToMembers, UUID
<1>3. 16 \in Nat /\ 4 \in Nat /\ 20 = 16 + 4 /\ 36 = 20 + 16
  OBVIOUS
<1>4. Lays(f1, 16, s1, 36)
  BY ONLY <1>2, <1>3, LaysFixedTwo
<1>5. 36 \in Nat /\ (3 + n) \in Nat /\ 39 + n = 36 + (3 + n)
  OBVIOUS
<1>6. f2 = Buf("name", 3 + n)
  BY StrIs
<1>7. Lays(Buf("name", 3 + n), 36, s2, 39 + n)
  BY <1>5, LaysOne
<1>8. Lays(f2, 36, s2, 39 + n)
  BY <1>6, <1>7
<1>9. Lays(f1 \o f2, 16, With(s1, s2), 39 + n)
  BY <1>4, <1>8, LaysCat
<1>10. (39 + n) \in Nat /\ (3 + n) \in Nat /\ 42 + 2 * n = (39 + n) + (3 + n)
  OBVIOUS
<1>11. f3 = Buf("gender", 3 + n)
  BY StrIs
<1>12. Lays(Buf("gender", 3 + n), 39 + n, s3, 42 + 2 * n)
  BY <1>10, LaysOne
<1>13. Lays(f3, 39 + n, s3, 42 + 2 * n)
  BY <1>11, <1>12
<1>14. Lays(w1, 16, s4, 42 + 2 * n)
  BY <1>9, <1>13, LaysCat
<1>15. Reads(From(16, w1), s4)
  BY <1>14, ReadsFrom
<1>16. 20 + send_len(m, NARROW, 1) + send_len(m, NARROW, 1) = 26 + 2 * n
  BY SendIs DEF UUID
<1>17. VaultPlayerCreate_To(m) = Layout(w1, 26 + 2 * n, From(16, w1))
  BY <1>1, <1>16
<1>18. (26 + 2 * n) \in Nat /\ 42 + 2 * n = 16 + (26 + 2 * n)
  OBVIOUS
<1>19. Known(s4, s4, 26 + 2 * n)
  BY DEF Known, With
<1> QED
  BY <1>17, <1>14, <1>15, <1>18, <1>19, BackendLaid

\* VaultPlayerCreate_From, in its long form.
LEMMA VaultPlayerCreate_FromLongLaid ==
  ASSUME NEW m, NEW n \in Nat, m.n = n, m.long
  PROVE  Laid(BackendFormat(VaultPlayerCreate_From(m)))
<1> DEFINE f1 == Fixed(VaultPlayerCreate_FromMembers, <<"kinum", "acct_type">>)
           f2 == Fixed(VaultPlayerCreate_FromMembers, <<"reqid", "result">>)
           s1 == With({<<"reqid", 16, 4>>}, {<<"result", 20, 4>>})
           s2 == With({<<"kinum", 24, 4>>}, {<<"acct_type", 28, 4>>})
           s3 == {<<"gender", 35 + n, 3 + n>>}
           s4 == With({<<"name", 32, 3 + n>>}, s3)
           s5 == With(s2, s4)
           f3 == Str(m, "gender", NARROW, 1)
           f4 == Str(m, "name", NARROW, 1)
           w1 == f4 \o f3
           w2 == From(16, f2) \o (From(24, f1) \o From(32, w1))
<1>1. VaultPlayerCreate_From(m) = Layout(f2 \o (f1 \o (w1)), 16 + Width(w1), w2)
  BY DEF VaultPlayerCreate_From, Opt
<1>2. 32 \in Nat /\ (3 + n) \in Nat /\ 35 + n = 32 + (3 + n)
  OBVIOUS
<1>3. f4 = Buf("name", 3 + n)
  BY StrIs
<1>4. Lays(Buf("name", 3 + n), 32, {<<"name", 32, 3 + n>>}, 35 + n)
  BY <1>2, LaysOne
<1>5. Lays(f4, 32, {<<"name", 32, 3 + n>>}, 35 + n)
  BY <1>3, <1>4
<1>6. (35 + n) \in Nat /\ (3 + n) \in Nat /\ 38 + 2 * n = (35 + n) + (3 + n)
  OBVIOUS
<1>7. f3 = Buf("gender", 3 + n)
  BY StrIs
<1>8. Lays(Buf("gender", 3 + n), 35 + n, s3, 38 + 2 * n)
  BY <1>6, LaysOne
<1>9. Lays(f3, 35 + n, s3, 38 + 2 * n)
  BY <1>7, <1>8
<1>10. Lays(w1, 32, s4, 38 + 2 * n)
  BY <1>5, <1>9, LaysCat
<1>11. 32 \in Nat /\ (6 + 2 * n) \in Nat /\ 38 + 2 * n = 32 + (6 + 2 * n)
  OBVIOUS
<1>12. Width(w1) = 6 + 2 * n
  BY <1>10, <1>11, WidthFrom
<1>13. 16 + Width(w1) = 22 + 2 * n
  BY <1>12 DEF UUID, marker_data_len
<1>14. VaultPlayerCreate_FromMembers["reqid"] = 4
           /\ VaultPlayerCreate_FromMembers["result"] = 4
  BY DEF VaultPlayerCreate_FromMembers, UUID
<1>15. 16 \in Nat /\ 4 \in Nat /\ 20 = 16 + 4 /\ 24 = 20 + 4
  OBVIOUS
<1>16. Lays(f2, 16, s1, 24)
  BY ONLY <1>14, <1>15, LaysFixedTwo
<1>17. VaultPlayerCreate_FromMembers["kinum"] = 4
           /\ VaultPlayerCreate_FromMembers["acct_type"] = 4
  BY DEF VaultPlayerCreate_FromMembers, UUID
<1>18. 24 \in Nat /\ 4 \in Nat /\ 28 = 24 + 4 /\ 32 = 28 + 4
  OBVIOUS
<1>19. Lays(f1, 24, s2, 32)
  BY ONLY <1>17, <1>18, LaysFixedTwo
<1>20. Lays(f1 \o (w1), 24, s5, 38 + 2 * n)
  BY <1>19, <1>10, LaysCat
<1>21. Lays(f2 \o (f1 \o (w1)), 16, With(s1, s5), 38 + 2 * n)
  BY <1>16, <1>20, LaysCat
<1>22. Reads(From(16, f2), s1)
  BY <1>16, ReadsFrom
<1>23. Reads(From(24, f1), s2)
  BY <1>19, ReadsFrom
<1>24. Reads(From(32, w1), s4)
  BY <1>10, ReadsFrom
<1>25. Reads(From(24, f1) \o From(32, w1), s5)
  BY <1>23, <1>24, ReadsCat
<1>26. Reads(w2, With(s1, s5))
  BY <1>22, <1>25, ReadsCat
<1>27. VaultPlayerCreate_From(m) = Layout(f2 \o (f1 \o (w1)), 22 + 2 * n, w2)
  BY <1>1, <1>13
<1>28. (22 + 2 * n) \in Nat /\ 38 + 2 * n = 16 + (22 + 2 * n)
  OBVIOUS
<1>29. Known(With(s1, s5), With(s1, s5), 22 + 2 * n)
  BY DEF Known, With
<1> QED
  BY <1>27, <1>21, <1>26, <1>28, <1>29, BackendLaid

\* VaultPlayerCreate_From, in its short form.
LEMMA VaultPlayerCreate_FromShortLaid ==
  ASSUME NEW m, NEW n \in Nat, m.n = n, ~m.long
  PROVE  Laid(BackendFormat(VaultPlayerCreate_From(m)))
<1> DEFINE f1 == Fixed(VaultPlayerCreate_FromMembers, <<"reqid", "result">>)
           s1 == With({<<"reqid", 16, 4>>}, {<<"result", 20, 4>>})
<1>1. VaultPlayerCreate_From(m) = Layout(f1 \o <<>>, 8, From(16, f1) \o <<>>)
  BY DEF VaultPlayerCreate_From, Opt
<1>2. VaultPlayerCreate_FromMembers["reqid"] = 4 /\ VaultPlayerCreate_FromMembers["result"]
          = 4
  BY DEF VaultPlayerCreate_FromMembers, UUID
<1>3. 16 \in Nat /\ 4 \in Nat /\ 20 = 16 + 4 /\ 24 = 20 + 4
  OBVIOUS
<1>4. Lays(f1, 16, s1, 24)
  BY ONLY <1>2, <1>3, LaysFixedTwo
<1>5. 24 \in Nat
  OBVIOUS
<1>6. Lays(<<>>, 24, {}, 24)
  BY <1>5, LaysNone
<1>7. Lays(f1 \o <<>>, 16, With(s1, {}), 24)
  BY <1>4, <1>6, LaysCat
<1>8. Reads(From(16, f1), s1)
  BY <1>4, ReadsFrom
<1>9. Reads(<<>>, {})
  BY ReadsNone
<1>10. Reads(From(16, f1) \o <<>>, With(s1, {}))
  BY <1>8, <1>9, ReadsCat
<1>11. 8 \in Nat /\ 24 = 16 + 8
  OBVIOUS
<1>12. Known(With(s1, {}), With(s1, {}), 8)
  BY DEF Known, With
<1> QED
  BY <1>1, <1>7, <1>10, <1>11, <1>12, BackendLaid

\* VaultPlayerDelete_To.
LEMMA VaultPlayerDelete_ToLaid ==
  ASSUME NEW m, NEW n \in Nat, m.n = n
  PROVE  Laid(BackendFormat(VaultPlayerDelete_To(m)))
<1> DEFINE f1 == Fixed(VaultPlayerDelete_ToMembers, <<"reqid", "kinum">>)
           s1 == With({<<"reqid", 16, 4>>}, {<<"kinum", 20, 4>>})
<1>1. VaultPlayerDelete_To(m) = Layout(f1, 8, From(16, f1))
  BY DEF VaultPlayerDelete_To
<1>2. VaultPlayerDelete_ToMembers["reqid"] = 4 /\ VaultPlayerDelete_ToMembers["kinum"] = 4
  BY DEF VaultPlayerDelete_ToMembers, UUID
<1>3. 16 \in Nat /\ 4 \in Nat /\ 20 = 16 + 4 /\ 24 = 20 + 4
  OBVIOUS
<1>4. Lays(f1, 16, s1, 24)
  BY ONLY <1>2, <1>3, LaysFixedTwo
<1>5. Reads(From(16, f1), s1)
  BY <1>4, ReadsFrom
<1>6. 8 \in Nat /\ 24 = 16 + 8
  OBVIOUS
<1>7. Known(s1, s1, 8)
  BY DEF Known, With
<1> QED
  BY <1>1, <1>4, <1>5, <1>6, <1>7, BackendLaid

\* VaultPlayerDelete_From.
LEMMA VaultPlayerDelete_FromLaid ==
  ASSUME NEW m, NEW n \in Nat, m.n = n
  PROVE  Laid(BackendFormat(VaultPlayerDelete_From(m)))
<1> DEFINE f1 == Fixed(VaultPlayerDelete_FromMembers, <<"reqid", "result">>)
           s1 == With({<<"reqid", 16, 4>>}, {<<"result", 20, 4>>})
<1>1. VaultPlayerDelete_From(m) = Layout(f1, 8, From(16, f1))
  BY DEF VaultPlayerDelete_From
<1>2. VaultPlayerDelete_FromMembers["reqid"] = 4 /\ VaultPlayerDelete_FromMembers["result"]
          = 4
  BY DEF VaultPlayerDelete_FromMembers, UUID
<1>3. 16 \in Nat /\ 4 \in Nat /\ 20 = 16 + 4 /\ 24 = 20 + 4
  OBVIOUS
<1>4. Lays(f1, 16, s1, 24)
  BY ONLY <1>2, <1>3, LaysFixedTwo
<1>5. Reads(From(16, f1), s1)
  BY <1>4, ReadsFrom
<1>6. 8 \in Nat /\ 24 = 16 + 8
  OBVIOUS
<1>7. Known(s1, s1, 8)
  BY DEF Known, With
<1> QED
  BY <1>1, <1>4, <1>5, <1>6, <1>7, BackendLaid

\* TrackPing.
LEMMA TrackPingLaid ==
  ASSUME NEW m, NEW n \in Nat, m.n = n
  PROVE  Laid(BackendFormat(TrackPing(m)))
<1>1. TrackPing(m) = Layout(<<>>, 0, <<>>)
  BY DEF TrackPing
<1>2. 16 \in Nat
  OBVIOUS
<1>3. Lays(<<>>, 16, {}, 16)
  BY <1>2, LaysNone
<1>4. Reads(<<>>, {})
  BY ReadsNone
<1>5. 0 \in Nat /\ 16 = 16 + 0
  OBVIOUS
<1>6. Known({}, {}, 0)
  BY DEF Known, With
<1> QED
  BY <1>1, <1>3, <1>4, <1>5, <1>6, BackendLaid

\* TrackServiceTypes, in its long form.
LEMMA TrackServiceTypesLongLaid ==
  ASSUME NEW m, NEW n \in Nat, m.n = n, m.long
  PROVE  Laid(BackendFormat(TrackServiceTypes(m)))
<1> DEFINE f1 == Fixed(TrackServiceTypesMembers, <<"auth", "file", "game", "addrtype">>)
           f2 == Fixed(TrackServiceTypesMembers, <<"port", "request_pushes",
               "restrict_type">>)
           f3 == Str(m, "hostname", NARROW, 1)
           s1 == With(With(With({<<"auth", 16, 1>>}, {<<"file", 17, 1>>}), {<<"game", 18,
               1>>}), {<<"addrtype", 19, 1>>})
           s2 == With(With({<<"port", 23 + n, 2>>}, {<<"request_pushes", 25 + n, 4>>}),
               {<<"restrict_type", 29 + n, 4>>})
           s3 == {<<"hostname", 20, 3 + n>>}
           s4 == With(With(s1, s3), s2)
           w1 == From(16, f1) \o From(20, f3) \o From(20 + Width(f3), f2)
<1>1. TrackServiceTypes(m) = Layout(f1 \o f3 \o f2, 4 + send_len(m, NARROW, 1) + 10, w1)
  BY DEF TrackServiceTypes
<1>2. 20 \in Nat /\ (3 + n) \in Nat /\ 23 + n = 20 + (3 + n)
  OBVIOUS
<1>3. f3 = Buf("hostname", 3 + n)
  BY StrIs
<1>4. Lays(Buf("hostname", 3 + n), 20, s3, 23 + n)
  BY <1>2, LaysOne
<1>5. Lays(f3, 20, s3, 23 + n)
  BY <1>3, <1>4
<1>6. Width(f3) = 3 + n
  BY <1>5, <1>2, WidthFrom
<1>7. 20 + Width(f3) = 23 + n
  BY <1>6
<1>8. TrackServiceTypesMembers["auth"] = 1 /\ TrackServiceTypesMembers["file"] = 1
          /\ TrackServiceTypesMembers["game"] = 1 /\ TrackServiceTypesMembers["addrtype"]
          = 1
  BY DEF TrackServiceTypesMembers, UUID
<1>9. 16 \in Nat /\ 1 \in Nat /\ 17 = 16 + 1 /\ 18 = 17 + 1 /\ 19 = 18 + 1 /\ 20 = 19 + 1
  OBVIOUS
<1>10. Lays(f1, 16, s1, 20)
  BY ONLY <1>8, <1>9, LaysFixedFour
<1>11. Lays(f1 \o f3, 16, With(s1, s3), 23 + n)
  BY <1>10, <1>5, LaysCat
<1>12. TrackServiceTypesMembers["port"] = 2 /\ TrackServiceTypesMembers["request_pushes"]
           = 4 /\ TrackServiceTypesMembers["restrict_type"] = 4
  BY DEF TrackServiceTypesMembers, UUID
<1>13. (23 + n) \in Nat /\ 2 \in Nat /\ 25 + n = (23 + n) + 2 /\ 4 \in Nat /\ 29 + n
           = (25 + n) + 4 /\ 33 + n = (29 + n) + 4
  OBVIOUS
<1>14. Lays(f2, 23 + n, s2, 33 + n)
  BY ONLY <1>12, <1>13, LaysFixedThree
<1>15. Lays(f1 \o f3 \o f2, 16, s4, 33 + n)
  BY <1>11, <1>14, LaysCat
<1>16. Reads(From(16, f1), s1)
  BY <1>10, ReadsFrom
<1>17. Reads(From(20, f3), s3)
  BY <1>5, ReadsFrom
<1>18. Reads(From(16, f1) \o From(20, f3), With(s1, s3))
  BY <1>16, <1>17, ReadsCat
<1>19. Reads(From(23 + n, f2), s2)
  BY <1>14, ReadsFrom
<1>20. Reads(From(20 + Width(f3), f2), s2)
  BY <1>7, <1>19
<1>21. Reads(w1, s4)
  BY <1>18, <1>20, ReadsCat
<1>22. 4 + send_len(m, NARROW, 1) + 10 = 17 + n
  BY SendIs DEF UUID
<1>23. TrackServiceTypes(m) = Layout(f1 \o f3 \o f2, 17 + n, w1)
  BY <1>1, <1>22
<1>24. (17 + n) \in Nat /\ 33 + n = 16 + (17 + n)
  OBVIOUS
<1>25. Known(s4, s4, 17 + n)
  BY DEF Known, With
<1> QED
  BY <1>23, <1>15, <1>21, <1>24, <1>25, BackendLaid

\* TrackServiceTypes, in its short form.
LEMMA TrackServiceTypesShortLaid ==
  ASSUME NEW m, NEW n \in Nat, m.n = n, ~m.long
  PROVE  Laid(BackendFormat(TrackServiceTypes(m)))
<1> DEFINE s1 == With(With(With({<<"auth", 16, 1>>}, {<<"file", 17, 1>>}), {<<"game", 18,
    1>>}), {<<"addrtype", 19, 1>>})
           f1 == Fixed(TrackServiceTypesMembers, <<"address">>)
           f2 == Fixed(TrackServiceTypesMembers, <<"auth", "file", "game", "addrtype">>)
           f3 == Fixed(TrackServiceTypesMembers, <<"port", "request_pushes",
               "restrict_type">>)
           s2 == With(With({<<"port", 24, 2>>}, {<<"request_pushes", 26, 4>>}),
               {<<"restrict_type", 30, 4>>})
           s3 == With(s1, {<<"address", 20, 4>>})
           w1 == From(16, f2) \o From(20, f1) \o From(20 + Width(f1), f3)
<1>1. TrackServiceTypes(m) = Layout(f2 \o f1 \o f3, 4 + 4 + 10, w1)
  BY DEF TrackServiceTypes
<1>2. TrackServiceTypesMembers["address"] = 4
  BY DEF TrackServiceTypesMembers, UUID
<1>3. 20 \in Nat /\ 4 \in Nat /\ 24 = 20 + 4
  OBVIOUS
<1>4. Lays(f1, 20, {<<"address", 20, 4>>}, 24)
  BY ONLY <1>2, <1>3, LaysFixedOne
<1>5. Width(f1) = 4
  BY <1>4, <1>3, WidthFrom
<1>6. 20 + Width(f1) = 24
  BY <1>5
<1>7. TrackServiceTypesMembers["auth"] = 1 /\ TrackServiceTypesMembers["file"] = 1
          /\ TrackServiceTypesMembers["game"] = 1 /\ TrackServiceTypesMembers["addrtype"]
          = 1
  BY DEF TrackServiceTypesMembers, UUID
<1>8. 16 \in Nat /\ 1 \in Nat /\ 17 = 16 + 1 /\ 18 = 17 + 1 /\ 19 = 18 + 1 /\ 20 = 19 + 1
  OBVIOUS
<1>9. Lays(f2, 16, s1, 20)
  BY ONLY <1>7, <1>8, LaysFixedFour
<1>10. Lays(f2 \o f1, 16, s3, 24)
  BY <1>9, <1>4, LaysCat
<1>11. TrackServiceTypesMembers["port"] = 2 /\ TrackServiceTypesMembers["request_pushes"]
           = 4 /\ TrackServiceTypesMembers["restrict_type"] = 4
  BY DEF TrackServiceTypesMembers, UUID
<1>12. 24 \in Nat /\ 2 \in Nat /\ 26 = 24 + 2 /\ 4 \in Nat /\ 30 = 26 + 4 /\ 34 = 30 + 4
  OBVIOUS
<1>13. Lays(f3, 24, s2, 34)
  BY ONLY <1>11, <1>12, LaysFixedThree
<1>14. Lays(f2 \o f1 \o f3, 16, With(s3, s2), 34)
  BY <1>10, <1>13, LaysCat
<1>15. Reads(From(16, f2), s1)
  BY <1>9, ReadsFrom
<1>16. Reads(From(20, f1), {<<"address", 20, 4>>})
  BY <1>4, ReadsFrom
<1>17. Reads(From(16, f2) \o From(20, f1), s3)
  BY <1>15, <1>16, ReadsCat
<1>18. Reads(From(24, f3), s2)
  BY <1>13, ReadsFrom
<1>19. Reads(From(20 + Width(f1), f3), s2)
  BY <1>6, <1>18
<1>20. Reads(w1, With(s3, s2))
  BY <1>17, <1>19, ReadsCat
<1>21. 4 + 4 + 10 = 18
  BY SendIs DEF UUID
<1>22. TrackServiceTypes(m) = Layout(f2 \o f1 \o f3, 18, w1)
  BY <1>1, <1>21
<1>23. 18 \in Nat /\ 34 = 16 + 18
  OBVIOUS
<1>24. Known(With(s3, s2), With(s3, s2), 18)
  BY DEF Known, With
<1> QED
  BY <1>22, <1>14, <1>20, <1>23, <1>24, BackendLaid

\* TrackFindService_To.
LEMMA TrackFindService_ToLaid ==
  ASSUME NEW m, NEW n \in Nat, m.n = n
  PROVE  Laid(BackendFormat(TrackFindService_To(m)))
<1> DEFINE f1 == Fixed(TrackFindService_ToMembers, <<"reqid", "reqid2">>)
           f2 == Fixed(TrackFindService_ToMembers, <<"want_file">>)
           s1 == With({<<"reqid", 16, 4>>}, {<<"reqid2", 20, 4>>})
           s2 == With(s1, {<<"want_file", 24, 1>>})
           f3 == Fixed(TrackFindService_ToMembers, <<"reqid", "reqid2", "want_file">>)
<1>1. TrackFindService_To(m) = Layout(f3, 9, From(16, f1) \o From(24, f2))
  BY DEF TrackFindService_To
<1>2. TrackFindService_ToMembers["reqid"] = 4 /\ TrackFindService_ToMembers["reqid2"] = 4
          /\ TrackFindService_ToMembers["want_file"] = 1
  BY DEF TrackFindService_ToMembers, UUID
<1>3. 16 \in Nat /\ 4 \in Nat /\ 20 = 16 + 4 /\ 24 = 20 + 4 /\ 1 \in Nat /\ 25 = 24 + 1
  OBVIOUS
<1>4. Lays(f3, 16, s2, 25)
  BY ONLY <1>2, <1>3, LaysFixedThree
<1>5. TrackFindService_ToMembers["reqid"] = 4 /\ TrackFindService_ToMembers["reqid2"] = 4
  BY DEF TrackFindService_ToMembers, UUID
<1>6. 16 \in Nat /\ 4 \in Nat /\ 20 = 16 + 4 /\ 24 = 20 + 4
  OBVIOUS
<1>7. Lays(f1, 16, s1, 24)
  BY ONLY <1>5, <1>6, LaysFixedTwo
<1>8. Reads(From(16, f1), s1)
  BY <1>7, ReadsFrom
<1>9. TrackFindService_ToMembers["want_file"] = 1
  BY DEF TrackFindService_ToMembers, UUID
<1>10. 24 \in Nat /\ 1 \in Nat /\ 25 = 24 + 1
  OBVIOUS
<1>11. Lays(f2, 24, {<<"want_file", 24, 1>>}, 25)
  BY ONLY <1>9, <1>10, LaysFixedOne
<1>12. Reads(From(24, f2), {<<"want_file", 24, 1>>})
  BY <1>11, ReadsFrom
<1>13. Reads(From(16, f1) \o From(24, f2), s2)
  BY <1>8, <1>12, ReadsCat
<1>14. 9 \in Nat /\ 25 = 16 + 9
  OBVIOUS
<1>15. Known(s2, s2, 9)
  BY DEF Known, With
<1> QED
  BY <1>1, <1>4, <1>13, <1>14, <1>15, BackendLaid

\* TrackFindService_From, in its long form.
LEMMA TrackFindService_FromLongLaid ==
  ASSUME NEW m, NEW n \in Nat, m.n = n, m.long
  PROVE  Laid(BackendFormat(TrackFindService_From(m)))
<1> DEFINE f1 == Fixed(TrackFindService_FromMembers, <<"port">>)
           f2 == Str(m, "hostname", NARROW, 1)
           s1 == {<<"hostname", 28, 3 + n>>}
           s2 == {<<"addrtype", 27, 1>>}
           f3 == Fixed(TrackFindService_FromMembers, <<"reqid", "reqid2">>)
           f4 == Fixed(TrackFindService_FromMembers, <<"addrtype">>)
           f5 == Fixed(TrackFindService_FromMembers, <<"is_file">>)
           w1 == From(16, f3) \o From(24, f5) \o From(27, f4)
           f6 == Fixed(TrackFindService_FromMembers, <<"reqid", "reqid2", "is_file">>)
           w2 == f6 \o Buf("zero", 2) \o f4
           s3 == {<<"port", 31 + n, 2>>}
           w3 == From(send_len(m, NARROW, 1) + 28, f1)
           s4 == With({<<"reqid", 16, 4>>}, {<<"reqid2", 20, 4>>})
           s5 == With(s4, {<<"is_file", 24, 1>>})
           s6 == With(With(s5, {<<"zero", 25, 2>>}), s2)
           s7 == With(With(s5, s2), s1)
<1>1. TrackFindService_From(m) = Layout(w2 \o f2 \o f1, 12 + Width(f2) + 2, w1 \o From(28,
          f2) \o w3)
  BY DEF TrackFindService_From
<1>2. 28 \in Nat /\ (3 + n) \in Nat /\ 31 + n = 28 + (3 + n)
  OBVIOUS
<1>3. f2 = Buf("hostname", 3 + n)
  BY StrIs
<1>4. Lays(Buf("hostname", 3 + n), 28, s1, 31 + n)
  BY <1>2, LaysOne
<1>5. Lays(f2, 28, s1, 31 + n)
  BY <1>3, <1>4
<1>6. Width(f2) = 3 + n
  BY <1>5, <1>2, WidthFrom
<1>7. 12 + Width(f2) + 2 = 17 + n
  BY <1>6 DEF UUID, marker_data_len
<1>8. TrackFindService_FromMembers["reqid"] = 4 /\ TrackFindService_FromMembers["reqid2"]
          = 4 /\ TrackFindService_FromMembers["is_file"] = 1
  BY DEF TrackFindService_FromMembers, UUID
<1>9. 16 \in Nat /\ 4 \in Nat /\ 20 = 16 + 4 /\ 24 = 20 + 4 /\ 1 \in Nat /\ 25 = 24 + 1
  OBVIOUS
<1>10. Lays(f6, 16, s5, 25)
  BY ONLY <1>8, <1>9, LaysFixedThree
<1>11. 25 \in Nat /\ 2 \in Nat /\ 27 = 25 + 2
  OBVIOUS
<1>12. Lays(Buf("zero", 2), 25, {<<"zero", 25, 2>>}, 27)
  BY <1>11, LaysOne
<1>13. Lays(f6 \o Buf("zero", 2), 16, With(s5, {<<"zero", 25, 2>>}), 27)
  BY <1>10, <1>12, LaysCat
<1>14. TrackFindService_FromMembers["addrtype"] = 1
  BY DEF TrackFindService_FromMembers, UUID
<1>15. 27 \in Nat /\ 1 \in Nat /\ 28 = 27 + 1
  OBVIOUS
<1>16. Lays(f4, 27, s2, 28)
  BY ONLY <1>14, <1>15, LaysFixedOne
<1>17. Lays(w2, 16, s6, 28)
  BY <1>13, <1>16, LaysCat
<1>18. Lays(w2 \o f2, 16, With(s6, s1), 31 + n)
  BY <1>17, <1>5, LaysCat
<1>19. TrackFindService_FromMembers["port"] = 2
  BY DEF TrackFindService_FromMembers, UUID
<1>20. (31 + n) \in Nat /\ 2 \in Nat /\ 33 + n = (31 + n) + 2
  OBVIOUS
<1>21. Lays(f1, 31 + n, s3, 33 + n)
  BY ONLY <1>19, <1>20, LaysFixedOne
<1>22. Lays(w2 \o f2 \o f1, 16, With(With(s6, s1), s3), 33 + n)
  BY <1>18, <1>21, LaysCat
<1>23. TrackFindService_FromMembers["reqid"] = 4 /\ TrackFindService_FromMembers["reqid2"]
           = 4
  BY DEF TrackFindService_FromMembers, UUID
<1>24. 16 \in Nat /\ 4 \in Nat /\ 20 = 16 + 4 /\ 24 = 20 + 4
  OBVIOUS
<1>25. Lays(f3, 16, s4, 24)
  BY ONLY <1>23, <1>24, LaysFixedTwo
<1>26. Reads(From(16, f3), s4)
  BY <1>25, ReadsFrom
<1>27. TrackFindService_FromMembers["is_file"] = 1
  BY DEF TrackFindService_FromMembers, UUID
<1>28. 24 \in Nat /\ 1 \in Nat /\ 25 = 24 + 1
  OBVIOUS
<1>29. Lays(f5, 24, {<<"is_file", 24, 1>>}, 25)
  BY ONLY <1>27, <1>28, LaysFixedOne
<1>30. Reads(From(24, f5), {<<"is_file", 24, 1>>})
  BY <1>29, ReadsFrom
<1>31. Reads(From(16, f3) \o From(24, f5), s5)
  BY <1>26, <1>30, ReadsCat
<1>32. Reads(From(27, f4), s2)
  BY <1>16, ReadsFrom
<1>33. Reads(w1, With(s5, s2))
  BY <1>31, <1>32, ReadsCat
<1>34. Reads(From(28, f2), s1)
  BY <1>5, ReadsFrom
<1>35. Reads(w1 \o From(28, f2), s7)
  BY <1>33, <1>34, ReadsCat
<1>36. send_len(m, NARROW, 1) + 28 = 31 + n
  BY SendIs DEF UUID, HEADER
<1>37. Reads(From(31 + n, f1), s3)
  BY <1>21, ReadsFrom
<1>38. Reads(w3, s3)
  BY <1>36, <1>37
<1>39. Reads(w1 \o From(28, f2) \o w3, With(s7, s3))
  BY <1>35, <1>38, ReadsCat
<1>40. TrackFindService_From(m) = Layout(w2 \o f2 \o f1, 17 + n, w1 \o From(28, f2) \o w3)
  BY <1>1, <1>7
<1>41. (17 + n) \in Nat /\ 33 + n = 16 + (17 + n)
  OBVIOUS
<1>42. Known(With(s7, s3), With(With(s6, s1), s3), 17 + n)
  BY DEF Known, With
<1> QED
  BY <1>40, <1>22, <1>39, <1>41, <1>42, BackendLaid

\* TrackFindService_From, in its short form.
LEMMA TrackFindService_FromShortLaid ==
  ASSUME NEW m, NEW n \in Nat, m.n = n, ~m.long
  PROVE  Laid(BackendFormat(TrackFindService_From(m)))
<1> DEFINE f1 == Fixed(TrackFindService_FromMembers, <<"address">>)
           f2 == Fixed(TrackFindService_FromMembers, <<"port">>)
           f3 == Fixed(TrackFindService_FromMembers, <<"reqid", "reqid2", "is_file">>)
           f4 == Fixed(TrackFindService_FromMembers, <<"addrtype">>)
           w1 == f3 \o Buf("zero", 2) \o f4 \o f1
           s1 == {<<"addrtype", 27, 1>>}
           f5 == Fixed(TrackFindService_FromMembers, <<"reqid", "reqid2">>)
           f6 == Fixed(TrackFindService_FromMembers, <<"is_file">>)
           w2 == From(16, f5) \o From(24, f6) \o From(27, f4)
           s2 == {<<"address", 28, 4>>}
           s3 == With({<<"reqid", 16, 4>>}, {<<"reqid2", 20, 4>>})
           s4 == With(s3, {<<"is_file", 24, 1>>})
           s5 == {<<"port", 32, 2>>}
           s6 == With(s4, {<<"zero", 25, 2>>})
           s7 == With(With(s6, s1), s2)
           s8 == With(With(s4, s1), s2)
<1>1. TrackFindService_From(m) = Layout(w1 \o f2, 12 + Width(f1) + 2, w2 \o From(28, f1)
          \o From(32, f2))
  BY DEF TrackFindService_From
<1>2. TrackFindService_FromMembers["address"] = 4
  BY DEF TrackFindService_FromMembers, UUID
<1>3. 28 \in Nat /\ 4 \in Nat /\ 32 = 28 + 4
  OBVIOUS
<1>4. Lays(f1, 28, s2, 32)
  BY ONLY <1>2, <1>3, LaysFixedOne
<1>5. Width(f1) = 4
  BY <1>4, <1>3, WidthFrom
<1>6. 12 + Width(f1) + 2 = 18
  BY <1>5 DEF UUID, marker_data_len
<1>7. TrackFindService_FromMembers["reqid"] = 4 /\ TrackFindService_FromMembers["reqid2"]
          = 4 /\ TrackFindService_FromMembers["is_file"] = 1
  BY DEF TrackFindService_FromMembers, UUID
<1>8. 16 \in Nat /\ 4 \in Nat /\ 20 = 16 + 4 /\ 24 = 20 + 4 /\ 1 \in Nat /\ 25 = 24 + 1
  OBVIOUS
<1>9. Lays(f3, 16, s4, 25)
  BY ONLY <1>7, <1>8, LaysFixedThree
<1>10. 25 \in Nat /\ 2 \in Nat /\ 27 = 25 + 2
  OBVIOUS
<1>11. Lays(Buf("zero", 2), 25, {<<"zero", 25, 2>>}, 27)
  BY <1>10, LaysOne
<1>12. Lays(f3 \o Buf("zero", 2), 16, s6, 27)
  BY <1>9, <1>11, LaysCat
<1>13. TrackFindService_FromMembers["addrtype"] = 1
  BY DEF TrackFindService_FromMembers, UUID
<1>14. 27 \in Nat /\ 1 \in Nat /\ 28 = 27 + 1
  OBVIOUS
<1>15. Lays(f4, 27, s1, 28)
  BY ONLY <1>13, <1>14, LaysFixedOne
<1>16. Lays(f3 \o Buf("zero", 2) \o f4, 16, With(s6, s1), 28)
  BY <1>12, <1>15, LaysCat
<1>17. Lays(w1, 16, s7, 32)
  BY <1>16, <1>4, LaysCat
<1>18. TrackFindService_FromMembers["port"] = 2
  BY DEF TrackFindService_FromMembers, UUID
<1>19. 32 \in Nat /\ 2 \in Nat /\ 34 = 32 + 2
  OBVIOUS
<1>20. Lays(f2, 32, s5, 34)
  BY ONLY <1>18, <1>19, LaysFixedOne
<1>21. Lays(w1 \o f2, 16, With(s7, s5), 34)
  BY <1>17, <1>20, LaysCat
<1>22. TrackFindService_FromMembers["reqid"] = 4 /\ TrackFindService_FromMembers["reqid2"]
           = 4
  BY DEF TrackFindService_FromMembers, UUID
<1>23. 16 \in Nat /\ 4 \in Nat /\ 20 = 16 + 4 /\ 24 = 20 + 4
  OBVIOUS
<1>24. Lays(f5, 16, s3, 24)
  BY ONLY <1>22, <1>23, LaysFixedTwo
<1>25. Reads(From(16, f5), s3)
  BY <1>24, ReadsFrom
<1>26. TrackFindService_FromMembers["is_file"] = 1
  BY DEF TrackFindService_FromMembers, UUID
<1>27. 24 \in Nat /\ 1 \in Nat /\ 25 = 24 + 1
  OBVIOUS
<1>28. Lays(f6, 24, {<<"is_file", 24, 1>>}, 25)
  BY ONLY <1>26, <1>27, LaysFixedOne
<1>29. Reads(From(24, f6), {<<"is_file", 24, 1>>})
  BY <1>28, ReadsFrom
<1>30. Reads(From(16, f5) \o From(24, f6), s4)
  BY <1>25, <1>29, ReadsCat
<1>31. Reads(From(27, f4), s1)
  BY <1>15, ReadsFrom
<1>32. Reads(w2, With(s4, s1))
  BY <1>30, <1>31, ReadsCat
<1>33. Reads(From(28, f1), s2)
  BY <1>4, ReadsFrom
<1>34. Reads(w2 \o From(28, f1), s8)
  BY <1>32, <1>33, ReadsCat
<1>35. Reads(From(32, f2), s5)
  BY <1>20, ReadsFrom
<1>36. Reads(w2 \o From(28, f1) \o From(32, f2), With(s8, s5))
  BY <1>34, <1>35, ReadsCat
<1>37. TrackFindService_From(m) = Layout(w1 \o f2, 18, w2 \o From(28, f1) \o From(32, f2))
  BY <1>1, <1>6
<1>38. 18 \in Nat /\ 34 = 16 + 18
  OBVIOUS
<1>39. Known(With(s8, s5), With(s7, s5), 18)
  BY DEF Known, With
<1> QED
  BY <1>37, <1>21, <1>36, <1>38, <1>39, BackendLaid

\* TrackGameHello.
LEMMA TrackGameHelloLaid ==
  ASSUME NEW m, NEW n \in Nat, m.n = n
  PROVE  Laid(BackendFormat(TrackGameHello(m)))
<1> DEFINE f1 == Fixed(TrackGameHelloMembers, <<"id">>)
           f2 == Fixed(TrackGameHelloMembers, <<"ipaddr">>)
           f3 == Fixed(TrackGameHelloMembers, <<"uuid">>)
           w1 == From(16, f3) \o From(16 + UUID, f1) \o From(20 + UUID, f2)
           f4 == Fixed(TrackGameHelloMembers, <<"uuid", "id", "ipaddr">>)
           s1 == {<<"ipaddr", 36, 4>>}
           s2 == {<<"uuid", 16, 16>>}
           s3 == With(With(s2, {<<"id", 32, 4>>}), s1)
<1>1. TrackGameHello(m) = Layout(f4, UUID + 8, w1)
  BY DEF TrackGameHello
<1>2. TrackGameHelloMembers["uuid"] = 16 /\ TrackGameHelloMembers["id"] = 4
          /\ TrackGameHelloMembers["ipaddr"] = 4
  BY DEF TrackGameHelloMembers, UUID
<1>3. 16 \in Nat /\ 32 = 16 + 16 /\ 4 \in Nat /\ 36 = 32 + 4 /\ 40 = 36 + 4
  OBVIOUS
<1>4. Lays(f4, 16, s3, 40)
  BY ONLY <1>2, <1>3, LaysFixedThree
<1>5. TrackGameHelloMembers["uuid"] = 16
  BY DEF TrackGameHelloMembers, UUID
<1>6. 16 \in Nat /\ 32 = 16 + 16
  OBVIOUS
<1>7. Lays(f3, 16, s2, 32)
  BY ONLY <1>5, <1>6, LaysFixedOne
<1>8. Reads(From(16, f3), s2)
  BY <1>7, ReadsFrom
<1>9. TrackGameHelloMembers["id"] = 4
  BY DEF TrackGameHelloMembers, UUID
<1>10. 32 \in Nat /\ 4 \in Nat /\ 36 = 32 + 4
  OBVIOUS
<1>11. Lays(f1, 32, {<<"id", 32, 4>>}, 36)
  BY ONLY <1>9, <1>10, LaysFixedOne
<1>12. 16 + UUID = 32
  BY SendIs DEF UUID, HEADER
<1>13. Reads(From(32, f1), {<<"id", 32, 4>>})
  BY <1>11, ReadsFrom
<1>14. Reads(From(16 + UUID, f1), {<<"id", 32, 4>>})
  BY <1>12, <1>13
<1>15. Reads(From(16, f3) \o From(16 + UUID, f1), With(s2, {<<"id", 32, 4>>}))
  BY <1>8, <1>14, ReadsCat
<1>16. TrackGameHelloMembers["ipaddr"] = 4
  BY DEF TrackGameHelloMembers, UUID
<1>17. 36 \in Nat /\ 4 \in Nat /\ 40 = 36 + 4
  OBVIOUS
<1>18. Lays(f2, 36, s1, 40)
  BY ONLY <1>16, <1>17, LaysFixedOne
<1>19. 20 + UUID = 36
  BY SendIs DEF UUID, HEADER
<1>20. Reads(From(36, f2), s1)
  BY <1>18, ReadsFrom
<1>21. Reads(From(20 + UUID, f2), s1)
  BY <1>19, <1>20
<1>22. Reads(w1, s3)
  BY <1>15, <1>21, ReadsCat
<1>23. UUID + 8 = 24
  BY SendIs DEF UUID
<1>24. TrackGameHello(m) = Layout(f4, 24, w1)
  BY <1>1, <1>23
<1>25. 24 \in Nat /\ 40 = 16 + 24
  OBVIOUS
<1>26. Known(s3, s3, 24)
  BY DEF Known, With
<1> QED
  BY <1>24, <1>4, <1>22, <1>25, <1>26, BackendLaid

\* TrackGameBye_To.
LEMMA TrackGameBye_ToLaid ==
  ASSUME NEW m, NEW n \in Nat, m.n = n
  PROVE  Laid(BackendFormat(TrackGameBye_To(m)))
<1> DEFINE f1 == Fixed(TrackGameBye_ToMembers, <<"final">>)
           s1 == {<<"final", 16, 4>>}
<1>1. TrackGameBye_To(m) = Layout(f1, 4, From(16, f1))
  BY DEF TrackGameBye_To
<1>2. TrackGameBye_ToMembers["final"] = 4
  BY DEF TrackGameBye_ToMembers, UUID
<1>3. 16 \in Nat /\ 4 \in Nat /\ 20 = 16 + 4
  OBVIOUS
<1>4. Lays(f1, 16, s1, 20)
  BY ONLY <1>2, <1>3, LaysFixedOne
<1>5. Reads(From(16, f1), s1)
  BY <1>4, ReadsFrom
<1>6. 4 \in Nat /\ 20 = 16 + 4
  OBVIOUS
<1>7. Known(s1, s1, 4)
  BY DEF Known, With
<1> QED
  BY <1>1, <1>4, <1>5, <1>6, <1>7, BackendLaid

\* TrackGameBye_From.
LEMMA TrackGameBye_FromLaid ==
  ASSUME NEW m, NEW n \in Nat, m.n = n
  PROVE  Laid(BackendFormat(TrackGameBye_From(m)))
<1>1. TrackGameBye_From(m) = Layout(<<>>, 0, <<>>)
  BY DEF TrackGameBye_From
<1>2. 16 \in Nat
  OBVIOUS
<1>3. Lays(<<>>, 16, {}, 16)
  BY <1>2, LaysNone
<1>4. Reads(<<>>, {})
  BY ReadsNone
<1>5. 0 \in Nat /\ 16 = 16 + 0
  OBVIOUS
<1>6. Known({}, {}, 0)
  BY DEF Known, With
<1> QED
  BY <1>1, <1>3, <1>4, <1>5, <1>6, BackendLaid

\* TrackGamePlayerInfo.
LEMMA TrackGamePlayerInfoLaid ==
  ASSUME NEW m, NEW n \in Nat, m.n = n
  PROVE  Laid(BackendFormat(TrackGamePlayerInfo(m)))
<1> DEFINE s1 == With({<<"kinum", 16, 4>>}, {<<"present", 20, 1>>})
           f1 == Fixed(TrackGamePlayerInfoMembers, <<"present">>)
           f2 == Fixed(TrackGamePlayerInfoMembers, <<"kinum">>)
           f3 == Fixed(TrackGamePlayerInfoMembers, <<"kinum", "present">>)
<1>1. TrackGamePlayerInfo(m) = Layout(f3, 5, From(16, f2) \o From(20, f1))
  BY DEF TrackGamePlayerInfo
<1>2. TrackGamePlayerInfoMembers["kinum"] = 4 /\ TrackGamePlayerInfoMembers["present"] = 1
  BY DEF TrackGamePlayerInfoMembers, UUID
<1>3. 16 \in Nat /\ 4 \in Nat /\ 20 = 16 + 4 /\ 1 \in Nat /\ 21 = 20 + 1
  OBVIOUS
<1>4. Lays(f3, 16, s1, 21)
  BY ONLY <1>2, <1>3, LaysFixedTwo
<1>5. TrackGamePlayerInfoMembers["kinum"] = 4
  BY DEF TrackGamePlayerInfoMembers, UUID
<1>6. 16 \in Nat /\ 4 \in Nat /\ 20 = 16 + 4
  OBVIOUS
<1>7. Lays(f2, 16, {<<"kinum", 16, 4>>}, 20)
  BY ONLY <1>5, <1>6, LaysFixedOne
<1>8. Reads(From(16, f2), {<<"kinum", 16, 4>>})
  BY <1>7, ReadsFrom
<1>9. TrackGamePlayerInfoMembers["present"] = 1
  BY DEF TrackGamePlayerInfoMembers, UUID
<1>10. 20 \in Nat /\ 1 \in Nat /\ 21 = 20 + 1
  OBVIOUS
<1>11. Lays(f1, 20, {<<"present", 20, 1>>}, 21)
  BY ONLY <1>9, <1>10, LaysFixedOne
<1>12. Reads(From(20, f1), {<<"present", 20, 1>>})
  BY <1>11, ReadsFrom
<1>13. Reads(From(16, f2) \o From(20, f1), s1)
  BY <1>8, <1>12, ReadsCat
<1>14. 5 \in Nat /\ 21 = 16 + 5
  OBVIOUS
<1>15. Known(s1, s1, 5)
  BY DEF Known, With
<1> QED
  BY <1>1, <1>4, <1>13, <1>14, <1>15, BackendLaid

\* TrackMsgForward.
LEMMA TrackMsgForwardLaid ==
  ASSUME NEW m, NEW n \in Nat, m.n = n
  PROVE  Laid(BackendFormat(TrackMsgForward(m)))
<1> DEFINE f1 == Fixed(TrackMsgForwardMembers, <<"recip_offset">>)
           w1 == From(16, f1) \o <<<<"msg", 20, m.n>>>>
           s1 == {<<"msg", 20, n>>}
           s2 == {<<"recip_offset", 16, 4>>}
           s3 == With(s2, s1)
<1>1. TrackMsgForward(m) = Layout(f1 \o Buf("msg", (m.n + MsgOffset(m)) - MsgOffset(m)),
          4 + (m.n + MsgOffset(m)) - MsgOffset(m), w1)
  BY DEF TrackMsgForward
<1>2. (m.n + MsgOffset(m)) - MsgOffset(m) = n
  BY DEF MsgOffset
<1>3. 4 + (m.n + MsgOffset(m)) - MsgOffset(m) = 4 + n
  BY DEF MsgOffset
<1>4. TrackMsgForwardMembers["recip_offset"] = 4
  BY DEF TrackMsgForwardMembers, UUID
<1>5. 16 \in Nat /\ 4 \in Nat /\ 20 = 16 + 4
  OBVIOUS
<1>6. Lays(f1, 16, s2, 20)
  BY ONLY <1>4, <1>5, LaysFixedOne
<1>7. 20 \in Nat /\ n \in Nat /\ 20 + n = 20 + n
  OBVIOUS
<1>8. Lays(Buf("msg", n), 20, s1, 20 + n)
  BY <1>7, LaysOne
<1>9. Lays(Buf("msg", (m.n + MsgOffset(m)) - MsgOffset(m)), 20, s1, 20 + n)
  BY <1>2, <1>8
<1>10. Lays(f1 \o Buf("msg", (m.n + MsgOffset(m)) - MsgOffset(m)), 16, s3, 20 + n)
  BY <1>6, <1>9, LaysCat
<1>11. Reads(From(16, f1), s2)
  BY <1>6, ReadsFrom
<1>12. m.n = n
  BY SendIs DEF UUID, HEADER
<1>13. Reads(<<<<"msg", 20, n>>>>, s1)
  BY ReadsOne
<1>14. Reads(<<<<"msg", 20, m.n>>>>, s1)
  BY <1>12, <1>13
<1>15. Reads(w1, s3)
  BY <1>11, <1>14, ReadsCat
<1>16. TrackMsgForward(m) = Layout(f1 \o Buf("msg", (m.n + MsgOffset(m)) - MsgOffset(m)),
           4 + n, w1)
  BY <1>1, <1>3
<1>17. (4 + n) \in Nat /\ 20 + n = 16 + (4 + n)
  OBVIOUS
<1>18. Known(s3, s3, 4 + n)
  BY DEF Known, With
<1> QED
  BY <1>16, <1>10, <1>15, <1>17, <1>18, BackendLaid

\* TrackSDLUpdate.
LEMMA TrackSDLUpdateLaid ==
  ASSUME NEW m, NEW n \in Nat, m.n = n
  PROVE  Laid(BackendFormat(TrackSDLUpdate(m)))
<1> DEFINE s1 == With(With(With(With({<<"kinum", 16, 4>>}, {<<"from_id1", 20, 4>>}),
    {<<"from_id2", 24, 4>>}), {<<"sdl_type", 28, 4>>}), {<<"datalen", 32, 4>>})
           f1 == Fixed(TrackSDLUpdateMembers, <<"kinum", "from_id1", "from_id2",
               "sdl_type", "datalen">>)
           s2 == {<<"sdl", 36, n>>}
           w1 == From(16, f1) \o <<<<"sdl", 36, m.n>>>>
<1>1. TrackSDLUpdate(m) = Layout(f1 \o Buf("sdl", m.n), 20 + m.n, w1)
  BY DEF TrackSDLUpdate
<1>2. TrackSDLUpdateMembers["kinum"] = 4 /\ TrackSDLUpdateMembers["from_id1"] = 4
          /\ TrackSDLUpdateMembers["from_id2"] = 4 /\ TrackSDLUpdateMembers["sdl_type"] = 4
          /\ TrackSDLUpdateMembers["datalen"] = 4
  BY DEF TrackSDLUpdateMembers, UUID
<1>3. 16 \in Nat /\ 4 \in Nat /\ 20 = 16 + 4 /\ 24 = 20 + 4 /\ 28 = 24 + 4 /\ 32 = 28 + 4
          /\ 36 = 32 + 4
  OBVIOUS
<1>4. Lays(f1, 16, s1, 36)
  BY ONLY <1>2, <1>3, LaysFixedFive
<1>5. 36 \in Nat /\ n \in Nat /\ 36 + n = 36 + n
  OBVIOUS
<1>6. m.n = n
  BY SendIs DEF UUID, HEADER
<1>7. Lays(Buf("sdl", n), 36, s2, 36 + n)
  BY <1>5, LaysOne
<1>8. Lays(Buf("sdl", m.n), 36, s2, 36 + n)
  BY <1>6, <1>7
<1>9. Lays(f1 \o Buf("sdl", m.n), 16, With(s1, s2), 36 + n)
  BY <1>4, <1>8, LaysCat
<1>10. Reads(From(16, f1), s1)
  BY <1>4, ReadsFrom
<1>11. Reads(<<<<"sdl", 36, n>>>>, s2)
  BY ReadsOne
<1>12. Reads(<<<<"sdl", 36, m.n>>>>, s2)
  BY <1>6, <1>11
<1>13. Reads(w1, With(s1, s2))
  BY <1>10, <1>12, ReadsCat
<1>14. 20 + m.n = 20 + n
  BY SendIs DEF UUID
<1>15. TrackSDLUpdate(m) = Layout(f1 \o Buf("sdl", m.n), 20 + n, w1)
  BY <1>1, <1>14
<1>16. (20 + n) \in Nat /\ 36 + n = 16 + (20 + n)
  OBVIOUS
<1>17. Known(With(s1, s2), With(s1, s2), 20 + n)
  BY DEF Known, With
<1> QED
  BY <1>15, <1>9, <1>13, <1>16, <1>17, BackendLaid

\* TrackNextGameID, in its long form.
LEMMA TrackNextGameIDLongLaid ==
  ASSUME NEW m, NEW n \in Nat, m.n = n, m.long
  PROVE  Laid(BackendFormat(TrackNextGameID(m)))
<1> DEFINE f1 == Fixed(TrackNextGameIDMembers, <<"number">>)
           f2 == Fixed(TrackNextGameIDMembers, <<"start">>)
           s1 == With({<<"number", 16, 4>>}, {<<"start", 20, 4>>})
<1>1. TrackNextGameID(m) = Layout(f1 \o f2, 8, From(16, f1) \o From(20, f2))
  BY DEF TrackNextGameID, Opt
<1>2. TrackNextGameIDMembers["number"] = 4
  BY DEF TrackNextGameIDMembers, UUID
<1>3. 16 \in Nat /\ 4 \in Nat /\ 20 = 16 + 4
  OBVIOUS
<1>4. Lays(f1, 16, {<<"number", 16, 4>>}, 20)
  BY ONLY <1>2, <1>3, LaysFixedOne
<1>5. TrackNextGameIDMembers["start"] = 4
  BY DEF TrackNextGameIDMembers, UUID
<1>6. 20 \in Nat /\ 4 \in Nat /\ 24 = 20 + 4
  OBVIOUS
<1>7. Lays(f2, 20, {<<"start", 20, 4>>}, 24)
  BY ONLY <1>5, <1>6, LaysFixedOne
<1>8. Lays(f1 \o f2, 16, s1, 24)
  BY <1>4, <1>7, LaysCat
<1>9. Reads(From(16, f1), {<<"number", 16, 4>>})
  BY <1>4, ReadsFrom
<1>10. Reads(From(20, f2), {<<"start", 20, 4>>})
  BY <1>7, ReadsFrom
<1>11. Reads(From(16, f1) \o From(20, f2), s1)
  BY <1>9, <1>10, ReadsCat
<1>12. 8 \in Nat /\ 24 = 16 + 8
  OBVIOUS
<1>13. Known(s1, s1, 8)
  BY DEF Known, With
<1> QED
  BY <1>1, <1>8, <1>11, <1>12, <1>13, BackendLaid

\* TrackNextGameID, in its short form.
LEMMA TrackNextGameIDShortLaid ==
  ASSUME NEW m, NEW n \in Nat, m.n = n, ~m.long
  PROVE  Laid(BackendFormat(TrackNextGameID(m)))
<1> DEFINE f1 == Fixed(TrackNextGameIDMembers, <<"number">>)
           s1 == {<<"number", 16, 4>>}
<1>1. TrackNextGameID(m) = Layout(f1 \o <<>>, 4, From(16, f1) \o <<>>)
  BY DEF TrackNextGameID, Opt
<1>2. TrackNextGameIDMembers["number"] = 4
  BY DEF TrackNextGameIDMembers, UUID
<1>3. 16 \in Nat /\ 4 \in Nat /\ 20 = 16 + 4
  OBVIOUS
<1>4. Lays(f1, 16, s1, 20)
  BY ONLY <1>2, <1>3, LaysFixedOne
<1>5. 20 \in Nat
  OBVIOUS
<1>6. Lays(<<>>, 20, {}, 20)
  BY <1>5, LaysNone
<1>7. Lays(f1 \o <<>>, 16, With(s1, {}), 20)
  BY <1>4, <1>6, LaysCat
<1>8. Reads(From(16, f1), s1)
  BY <1>4, ReadsFrom
<1>9. Reads(<<>>, {})
  BY ReadsNone
<1>10. Reads(From(16, f1) \o <<>>, With(s1, {}))
  BY <1>8, <1>9, ReadsCat
<1>11. 4 \in Nat /\ 20 = 16 + 4
  OBVIOUS
<1>12. Known(With(s1, {}), With(s1, {}), 4)
  BY DEF Known, With
<1> QED
  BY <1>1, <1>7, <1>10, <1>11, <1>12, BackendLaid

\* TrackAgeRequest_To.
LEMMA TrackAgeRequest_ToLaid ==
  ASSUME NEW m, NEW n \in Nat, m.n = n
  PROVE  Laid(BackendFormat(TrackAgeRequest_To(m)))
<1> DEFINE f1 == Str(m, "filename", NARROW, 1)
           f2 == Fixed(TrackAgeRequest_ToMembers, <<"reqid", "uuid">>)
           s1 == {<<"filename", 36, 3 + n>>}
           s2 == With({<<"reqid", 16, 4>>}, {<<"uuid", 20, 16>>})
           s3 == With(s2, s1)
           f3 == Fixed(TrackAgeRequest_ToMembers, <<"reqid">>)
           f4 == Fixed(TrackAgeRequest_ToMembers, <<"uuid">>)
           w1 == From(16, f3) \o From(20, f4)
           w2 == From(20 + UUID, f1)
<1>1. TrackAgeRequest_To(m) = Layout(f2 \o f1, 4 + UUID + Width(f1), w1 \o w2)
  BY DEF TrackAgeRequest_To
<1>2. 36 \in Nat /\ (3 + n) \in Nat /\ 39 + n = 36 + (3 + n)
  OBVIOUS
<1>3. f1 = Buf("filename", 3 + n)
  BY StrIs
<1>4. Lays(Buf("filename", 3 + n), 36, s1, 39 + n)
  BY <1>2, LaysOne
<1>5. Lays(f1, 36, s1, 39 + n)
  BY <1>3, <1>4
<1>6. Width(f1) = 3 + n
  BY <1>5, <1>2, WidthFrom
<1>7. 4 + UUID + Width(f1) = 23 + n
  BY <1>6 DEF UUID, marker_data_len
<1>8. TrackAgeRequest_ToMembers["reqid"] = 4 /\ TrackAgeRequest_ToMembers["uuid"] = 16
  BY DEF TrackAgeRequest_ToMembers, UUID
<1>9. 16 \in Nat /\ 4 \in Nat /\ 20 = 16 + 4 /\ 36 = 20 + 16
  OBVIOUS
<1>10. Lays(f2, 16, s2, 36)
  BY ONLY <1>8, <1>9, LaysFixedTwo
<1>11. Lays(f2 \o f1, 16, s3, 39 + n)
  BY <1>10, <1>5, LaysCat
<1>12. TrackAgeRequest_ToMembers["reqid"] = 4
  BY DEF TrackAgeRequest_ToMembers, UUID
<1>13. 16 \in Nat /\ 4 \in Nat /\ 20 = 16 + 4
  OBVIOUS
<1>14. Lays(f3, 16, {<<"reqid", 16, 4>>}, 20)
  BY ONLY <1>12, <1>13, LaysFixedOne
<1>15. Reads(From(16, f3), {<<"reqid", 16, 4>>})
  BY <1>14, ReadsFrom
<1>16. TrackAgeRequest_ToMembers["uuid"] = 16
  BY DEF TrackAgeRequest_ToMembers, UUID
<1>17. 20 \in Nat /\ 16 \in Nat /\ 36 = 20 + 16
  OBVIOUS
<1>18. Lays(f4, 20, {<<"uuid", 20, 16>>}, 36)
  BY ONLY <1>16, <1>17, LaysFixedOne
<1>19. Reads(From(20, f4), {<<"uuid", 20, 16>>})
  BY <1>18, ReadsFrom
<1>20. Reads(w1, s2)
  BY <1>15, <1>19, ReadsCat
<1>21. 20 + UUID = 36
  BY SendIs DEF UUID, HEADER
<1>22. Reads(From(36, f1), s1)
  BY <1>5, ReadsFrom
<1>23. Reads(w2, s1)
  BY <1>21, <1>22
<1>24. Reads(w1 \o w2, s3)
  BY <1>20, <1>23, ReadsCat
<1>25. TrackAgeRequest_To(m) = Layout(f2 \o f1, 23 + n, w1 \o w2)
  BY <1>1, <1>7
<1>26. (23 + n) \in Nat /\ 39 + n = 16 + (23 + n)
  OBVIOUS
<1>27. Known(s3, s3, 23 + n)
  BY DEF Known, With
<1> QED
  BY <1>25, <1>11, <1>24, <1>26, <1>27, BackendLaid

\* TrackAgeRequest_From.
LEMMA TrackAgeRequest_FromLaid ==
  ASSUME NEW m, NEW n \in Nat, m.n = n
  PROVE  Laid(BackendFormat(TrackAgeRequest_From(m)))
<1> DEFINE f1 == Fixed(TrackAgeRequest_FromMembers, <<"result">>)
           f2 == Fixed(TrackAgeRequest_FromMembers, <<"reqid">>)
           f3 == Fixed(TrackAgeRequest_FromMembers, <<"reqid", "result", "body">>)
           f4 == Fixed(TrackAgeRequest_FromMembers, <<"body">>)
           w1 == From(16, f2) \o From(20, f1) \o From(24, f4)
           s1 == {<<"result", 20, 4>>}
           s2 == {<<"reqid", 16, 4>>}
           s3 == With(With(s2, s1), {<<"body", 24, 28>>})
<1>1. TrackAgeRequest_From(m) = Layout(f3, 20 + UUID, w1)
  BY DEF TrackAgeRequest_From
<1>2. TrackAgeRequest_FromMembers["reqid"] = 4 /\ TrackAgeRequest_FromMembers["result"] = 4
          /\ TrackAgeRequest_FromMembers["body"] = 28
  BY DEF TrackAgeRequest_FromMembers, UUID
<1>3. 16 \in Nat /\ 4 \in Nat /\ 20 = 16 + 4 /\ 24 = 20 + 4 /\ 28 \in Nat /\ 52 = 24 + 28
  OBVIOUS
<1>4. Lays(f3, 16, s3, 52)
  BY ONLY <1>2, <1>3, LaysFixedThree
<1>5. TrackAgeRequest_FromMembers["reqid"] = 4
  BY DEF TrackAgeRequest_FromMembers, UUID
<1>6. 16 \in Nat /\ 4 \in Nat /\ 20 = 16 + 4
  OBVIOUS
<1>7. Lays(f2, 16, s2, 20)
  BY ONLY <1>5, <1>6, LaysFixedOne
<1>8. Reads(From(16, f2), s2)
  BY <1>7, ReadsFrom
<1>9. TrackAgeRequest_FromMembers["result"] = 4
  BY DEF TrackAgeRequest_FromMembers, UUID
<1>10. 20 \in Nat /\ 4 \in Nat /\ 24 = 20 + 4
  OBVIOUS
<1>11. Lays(f1, 20, s1, 24)
  BY ONLY <1>9, <1>10, LaysFixedOne
<1>12. Reads(From(20, f1), s1)
  BY <1>11, ReadsFrom
<1>13. Reads(From(16, f2) \o From(20, f1), With(s2, s1))
  BY <1>8, <1>12, ReadsCat
<1>14. TrackAgeRequest_FromMembers["body"] = 28
  BY DEF TrackAgeRequest_FromMembers, UUID
<1>15. 24 \in Nat /\ 28 \in Nat /\ 52 = 24 + 28
  OBVIOUS
<1>16. Lays(f4, 24, {<<"body", 24, 28>>}, 52)
  BY ONLY <1>14, <1>15, LaysFixedOne
<1>17. Reads(From(24, f4), {<<"body", 24, 28>>})
  BY <1>16, ReadsFrom
<1>18. Reads(w1, s3)
  BY <1>13, <1>17, ReadsCat
<1>19. 20 + UUID = 36
  BY SendIs DEF UUID
<1>20. TrackAgeRequest_From(m) = Layout(f3, 36, w1)
  BY <1>1, <1>19
<1>21. 36 \in Nat /\ 52 = 16 + 36
  OBVIOUS
<1>22. Known(s3, s3, 36)
  BY DEF Known, With
<1> QED
  BY <1>20, <1>4, <1>18, <1>21, <1>22, BackendLaid

\* TrackStartAge_From.
LEMMA TrackStartAge_FromLaid ==
  ASSUME NEW m, NEW n \in Nat, m.n = n
  PROVE  Laid(BackendFormat(TrackStartAge_From(m)))
<1> DEFINE f1 == Str(m, "filename", NARROW, 1)
           f2 == Fixed(TrackStartAge_FromMembers, <<"ageuuid">>)
           s1 == {<<"filename", 32, 3 + n>>}
           s2 == {<<"ageuuid", 16, 16>>}
           w1 == From(16, f2) \o From(16 + UUID, f1)
<1>1. TrackStartAge_From(m) = Layout(f2 \o f1, UUID + Width(f1), w1)
  BY DEF TrackStartAge_From
<1>2. 32 \in Nat /\ (3 + n) \in Nat /\ 35 + n = 32 + (3 + n)
  OBVIOUS
<1>3. f1 = Buf("filename", 3 + n)
  BY StrIs
<1>4. Lays(Buf("filename", 3 + n), 32, s1, 35 + n)
  BY <1>2, LaysOne
<1>5. Lays(f1, 32, s1, 35 + n)
  BY <1>3, <1>4
<1>6. Width(f1) = 3 + n
  BY <1>5, <1>2, WidthFrom
<1>7. UUID + Width(f1) = 19 + n
  BY <1>6 DEF UUID, marker_data_len
<1>8. TrackStartAge_FromMembers["ageuuid"] = 16
  BY DEF TrackStartAge_FromMembers, UUID
<1>9. 16 \in Nat /\ 32 = 16 + 16
  OBVIOUS
<1>10. Lays(f2, 16, s2, 32)
  BY ONLY <1>8, <1>9, LaysFixedOne
<1>11. Lays(f2 \o f1, 16, With(s2, s1), 35 + n)
  BY <1>10, <1>5, LaysCat
<1>12. Reads(From(16, f2), s2)
  BY <1>10, ReadsFrom
<1>13. 16 + UUID = 32
  BY SendIs DEF UUID, HEADER
<1>14. Reads(From(32, f1), s1)
  BY <1>5, ReadsFrom
<1>15. Reads(From(16 + UUID, f1), s1)
  BY <1>13, <1>14
<1>16. Reads(w1, With(s2, s1))
  BY <1>12, <1>15, ReadsCat
<1>17. TrackStartAge_From(m) = Layout(f2 \o f1, 19 + n, w1)
  BY <1>1, <1>7
<1>18. (19 + n) \in Nat /\ 35 + n = 16 + (19 + n)
  OBVIOUS
<1>19. Known(With(s2, s1), With(s2, s1), 19 + n)
  BY DEF Known, With
<1> QED
  BY <1>17, <1>11, <1>16, <1>18, <1>19, BackendLaid

\* TrackStartAge_To.
LEMMA TrackStartAge_ToLaid ==
  ASSUME NEW m, NEW n \in Nat, m.n = n
  PROVE  Laid(BackendFormat(TrackStartAge_To(m)))
<1> DEFINE s1 == With({<<"problem", 16, 4>>}, {<<"ageuuid", 20, 16>>})
           f1 == Fixed(TrackStartAge_ToMembers, <<"problem", "ageuuid">>)
           f2 == Fixed(TrackStartAge_ToMembers, <<"problem">>)
           f3 == Fixed(TrackStartAge_ToMembers, <<"ageuuid">>)
           w1 == From(16, f2) \o From(20, f3)
<1>1. TrackStartAge_To(m) = Layout(f1, 4 + UUID, w1)
  BY DEF TrackStartAge_To
<1>2. TrackStartAge_ToMembers["problem"] = 4 /\ TrackStartAge_ToMembers["ageuuid"] = 16
  BY DEF TrackStartAge_ToMembers, UUID
<1>3. 16 \in Nat /\ 4 \in Nat /\ 20 = 16 + 4 /\ 36 = 20 + 16
  OBVIOUS
<1>4. Lays(f1, 16, s1, 36)
  BY ONLY <1>2, <1>3, LaysFixedTwo
<1>5. TrackStartAge_ToMembers["problem"] = 4
  BY DEF TrackStartAge_ToMembers, UUID
<1>6. 16 \in Nat /\ 4 \in Nat /\ 20 = 16 + 4
  OBVIOUS
<1>7. Lays(f2, 16, {<<"problem", 16, 4>>}, 20)
  BY ONLY <1>5, <1>6, LaysFixedOne
<1>8. Reads(From(16, f2), {<<"problem", 16, 4>>})
  BY <1>7, ReadsFrom
<1>9. TrackStartAge_ToMembers["ageuuid"] = 16
  BY DEF TrackStartAge_ToMembers, UUID
<1>10. 20 \in Nat /\ 16 \in Nat /\ 36 = 20 + 16
  OBVIOUS
<1>11. Lays(f3, 20, {<<"ageuuid", 20, 16>>}, 36)
  BY ONLY <1>9, <1>10, LaysFixedOne
<1>12. Reads(From(20, f3), {<<"ageuuid", 20, 16>>})
  BY <1>11, ReadsFrom
<1>13. Reads(w1, s1)
  BY <1>8, <1>12, ReadsCat
<1>14. 4 + UUID = 20
  BY SendIs DEF UUID
<1>15. TrackStartAge_To(m) = Layout(f1, 20, w1)
  BY <1>1, <1>14
<1>16. 20 \in Nat /\ 36 = 16 + 20
  OBVIOUS
<1>17. Known(s1, s1, 20)
  BY DEF Known, With
<1> QED
  BY <1>15, <1>4, <1>13, <1>16, <1>17, BackendLaid

\* TrackAddPlayer_From.
LEMMA TrackAddPlayer_FromLaid ==
  ASSUME NEW m, NEW n \in Nat, m.n = n
  PROVE  Laid(BackendFormat(TrackAddPlayer_From(m)))
<1> DEFINE f1 == Str(m, "name", NARROW, 1)
           f2 == Fixed(TrackAddPlayer_FromMembers, <<"kinum", "uuid">>)
           s1 == With({<<"kinum", 16, 4>>}, {<<"uuid", 20, 16>>})
           f3 == Fixed(TrackAddPlayer_FromMembers, <<"kinum">>)
           f4 == Fixed(TrackAddPlayer_FromMembers, <<"uuid">>)
           w1 == From(16, f3) \o From(20, f4)
           s2 == {<<"name", 36, 3 + n>>}
           s3 == With(s1, s2)
           w2 == From(20 + UUID, f1)
<1>1. TrackAddPlayer_From(m) = Layout(f2 \o f1, 4 + UUID + Width(f1), w1 \o w2)
  BY DEF TrackAddPlayer_From
<1>2. 36 \in Nat /\ (3 + n) \in Nat /\ 39 + n = 36 + (3 + n)
  OBVIOUS
<1>3. f1 = Buf("name", 3 + n)
  BY StrIs
<1>4. Lays(Buf("name", 3 + n), 36, s2, 39 + n)
  BY <1>2, LaysOne
<1>5. Lays(f1, 36, s2, 39 + n)
  BY <1>3, <1>4
<1>6. Width(f1) = 3 + n
  BY <1>5, <1>2, WidthFrom
<1>7. 4 + UUID + Width(f1) = 23 + n
  BY <1>6 DEF UUID, marker_data_len
<1>8. TrackAddPlayer_FromMembers["kinum"] = 4 /\ TrackAddPlayer_FromMembers["uuid"] = 16
  BY DEF TrackAddPlayer_FromMembers, UUID
<1>9. 16 \in Nat /\ 4 \in Nat /\ 20 = 16 + 4 /\ 36 = 20 + 16
  OBVIOUS
<1>10. Lays(f2, 16, s1, 36)
  BY ONLY <1>8, <1>9, LaysFixedTwo
<1>11. Lays(f2 \o f1, 16, s3, 39 + n)
  BY <1>10, <1>5, LaysCat
<1>12. TrackAddPlayer_FromMembers["kinum"] = 4
  BY DEF TrackAddPlayer_FromMembers, UUID
<1>13. 16 \in Nat /\ 4 \in Nat /\ 20 = 16 + 4
  OBVIOUS
<1>14. Lays(f3, 16, {<<"kinum", 16, 4>>}, 20)
  BY ONLY <1>12, <1>13, LaysFixedOne
<1>15. Reads(From(16, f3), {<<"kinum", 16, 4>>})
  BY <1>14, ReadsFrom
<1>16. TrackAddPlayer_FromMembers["uuid"] = 16
  BY DEF TrackAddPlayer_FromMembers, UUID
<1>17. 20 \in Nat /\ 16 \in Nat /\ 36 = 20 + 16
  OBVIOUS
<1>18. Lays(f4, 20, {<<"uuid", 20, 16>>}, 36)
  BY ONLY <1>16, <1>17, LaysFixedOne
<1>19. Reads(From(20, f4), {<<"uuid", 20, 16>>})
  BY <1>18, ReadsFrom
<1>20. Reads(w1, s1)
  BY <1>15, <1>19, ReadsCat
<1>21. 20 + UUID = 36
  BY SendIs DEF UUID, HEADER
<1>22. Reads(From(36, f1), s2)
  BY <1>5, ReadsFrom
<1>23. Reads(w2, s2)
  BY <1>21, <1>22
<1>24. Reads(w1 \o w2, s3)
  BY <1>20, <1>23, ReadsCat
<1>25. TrackAddPlayer_From(m) = Layout(f2 \o f1, 23 + n, w1 \o w2)
  BY <1>1, <1>7
<1>26. (23 + n) \in Nat /\ 39 + n = 16 + (23 + n)
  OBVIOUS
<1>27. Known(s3, s3, 23 + n)
  BY DEF Known, With
<1> QED
  BY <1>25, <1>11, <1>24, <1>26, <1>27, BackendLaid

\* TrackAddPlayer_To.
LEMMA TrackAddPlayer_ToLaid ==
  ASSUME NEW m, NEW n \in Nat, m.n = n
  PROVE  Laid(BackendFormat(TrackAddPlayer_To(m)))
<1> DEFINE f1 == Fixed(TrackAddPlayer_ToMembers, <<"kinum", "result">>)
           s1 == With({<<"kinum", 16, 4>>}, {<<"result", 20, 4>>})
<1>1. TrackAddPlayer_To(m) = Layout(f1, 8, From(16, f1))
  BY DEF TrackAddPlayer_To
<1>2. TrackAddPlayer_ToMembers["kinum"] = 4 /\ TrackAddPlayer_ToMembers["result"] = 4
  BY DEF TrackAddPlayer_ToMembers, UUID
<1>3. 16 \in Nat /\ 4 \in Nat /\ 20 = 16 + 4 /\ 24 = 20 + 4
  OBVIOUS
<1>4. Lays(f1, 16, s1, 24)
  BY ONLY <1>2, <1>3, LaysFixedTwo
<1>5. Reads(From(16, f1), s1)
  BY <1>4, ReadsFrom
<1>6. 8 \in Nat /\ 24 = 16 + 8
  OBVIOUS
<1>7. Known(s1, s1, 8)
  BY DEF Known, With
<1> QED
  BY <1>1, <1>4, <1>5, <1>6, <1>7, BackendLaid

\* MarkerGetGame.
LEMMA MarkerGetGameLaid ==
  ASSUME NEW m, NEW n \in Nat, m.n = n
  PROVE  Laid(BackendFormat(MarkerGetGame(m)))
<1> DEFINE s1 == With({<<"requester", 16, 4>>}, {<<"localid", 20, 4>>})
           f1 == Str(m, "name", NARROW, 1)
           f2 == Fixed(MarkerGetGameMembers, <<"template">>)
           s2 == {<<"name", 42, 3 + n>>}
           f3 == Fixed(MarkerGetGameMembers, <<"game_exists">>)
           s3 == {<<"template", 26, 16>>}
           s4 == {<<"game_exists", 24, 1>>}
           f4 == Fixed(MarkerGetGameMembers, <<"game_type">>)
           f5 == Fixed(MarkerMembers, <<"requester">>)
           f6 == Fixed(MarkerGetGameMembers, <<"game_exists", "game_type", "template">>)
           f7 == Fixed(MarkerMembers, <<"localid">>)
           w1 == From(16, f5) \o From(20, f7)
           w2 == w1 \o From(24, f3) \o From(25, f4)
           s5 == {<<"game_type", 25, 1>>}
           s6 == With(With(s4, s5), s3)
           s7 == With(With(s1, s4), s5)
           w3 == From(26 + UUID, f1)
           f8 == Fixed(MarkerMembers, <<"requester", "localid">>)
           w4 == f8 \o f6
<1>1. MarkerGetGame(m) = Layout(w4 \o f1, 10 + UUID + Width(f1), w2 \o From(26, f2) \o w3)
  BY DEF MarkerGetGame, Marker, MarkerRead
<1>2. 42 \in Nat /\ (3 + n) \in Nat /\ 45 + n = 42 + (3 + n)
  OBVIOUS
<1>3. f1 = Buf("name", 3 + n)
  BY StrIs
<1>4. Lays(Buf("name", 3 + n), 42, s2, 45 + n)
  BY <1>2, LaysOne
<1>5. Lays(f1, 42, s2, 45 + n)
  BY <1>3, <1>4
<1>6. Width(f1) = 3 + n
  BY <1>5, <1>2, WidthFrom
<1>7. 10 + UUID + Width(f1) = 29 + n
  BY <1>6 DEF UUID, marker_data_len
<1>8. MarkerMembers["requester"] = 4 /\ MarkerMembers["localid"] = 4
  BY DEF MarkerMembers, UUID
<1>9. 16 \in Nat /\ 4 \in Nat /\ 20 = 16 + 4 /\ 24 = 20 + 4
  OBVIOUS
<1>10. Lays(f8, 16, s1, 24)
  BY ONLY <1>8, <1>9, LaysFixedTwo
<1>11. MarkerGetGameMembers["game_exists"] = 1 /\ MarkerGetGameMembers["game_type"] = 1
           /\ MarkerGetGameMembers["template"] = 16
  BY DEF MarkerGetGameMembers, UUID
<1>12. 24 \in Nat /\ 1 \in Nat /\ 25 = 24 + 1 /\ 26 = 25 + 1 /\ 16 \in Nat /\ 42 = 26 + 16
  OBVIOUS
<1>13. Lays(f6, 24, s6, 42)
  BY ONLY <1>11, <1>12, LaysFixedThree
<1>14. Lays(w4, 16, With(s1, s6), 42)
  BY <1>10, <1>13, LaysCat
<1>15. Lays(w4 \o f1, 16, With(With(s1, s6), s2), 45 + n)
  BY <1>14, <1>5, LaysCat
<1>16. MarkerMembers["requester"] = 4
  BY DEF MarkerMembers, UUID
<1>17. 16 \in Nat /\ 4 \in Nat /\ 20 = 16 + 4
  OBVIOUS
<1>18. Lays(f5, 16, {<<"requester", 16, 4>>}, 20)
  BY ONLY <1>16, <1>17, LaysFixedOne
<1>19. Reads(From(16, f5), {<<"requester", 16, 4>>})
  BY <1>18, ReadsFrom
<1>20. MarkerMembers["localid"] = 4
  BY DEF MarkerMembers, UUID
<1>21. 20 \in Nat /\ 4 \in Nat /\ 24 = 20 + 4
  OBVIOUS
<1>22. Lays(f7, 20, {<<"localid", 20, 4>>}, 24)
  BY ONLY <1>20, <1>21, LaysFixedOne
<1>23. Reads(From(20, f7), {<<"localid", 20, 4>>})
  BY <1>22, ReadsFrom
<1>24. Reads(w1, s1)
  BY <1>19, <1>23, ReadsCat
<1>25. MarkerGetGameMembers["game_exists"] = 1
  BY DEF MarkerGetGameMembers, UUID
<1>26. 24 \in Nat /\ 1 \in Nat /\ 25 = 24 + 1
  OBVIOUS
<1>27. Lays(f3, 24, s4, 25)
  BY ONLY <1>25, <1>26, LaysFixedOne
<1>28. Reads(From(24, f3), s4)
  BY <1>27, ReadsFrom
<1>29. Reads(w1 \o From(24, f3), With(s1, s4))
  BY <1>24, <1>28, ReadsCat
<1>30. MarkerGetGameMembers["game_type"] = 1
  BY DEF MarkerGetGameMembers, UUID
<1>31. 25 \in Nat /\ 1 \in Nat /\ 26 = 25 + 1
  OBVIOUS
<1>32. Lays(f4, 25, s5, 26)
  BY ONLY <1>30, <1>31, LaysFixedOne
<1>33. Reads(From(25, f4), s5)
  BY <1>32, ReadsFrom
<1>34. Reads(w2, s7)
  BY <1>29, <1>33, ReadsCat
<1>35. MarkerGetGameMembers["template"] = 16
  BY DEF MarkerGetGameMembers, UUID
<1>36. 26 \in Nat /\ 16 \in Nat /\ 42 = 26 + 16
  OBVIOUS
<1>37. Lays(f2, 26, s3, 42)
  BY ONLY <1>35, <1>36, LaysFixedOne
<1>38. Reads(From(26, f2), s3)
  BY <1>37, ReadsFrom
<1>39. Reads(w2 \o From(26, f2), With(s7, s3))
  BY <1>34, <1>38, ReadsCat
<1>40. 26 + UUID = 42
  BY SendIs DEF UUID, HEADER
<1>41. Reads(From(42, f1), s2)
  BY <1>5, ReadsFrom
<1>42. Reads(w3, s2)
  BY <1>40, <1>41
<1>43. Reads(w2 \o From(26, f2) \o w3, With(With(s7, s3), s2))
  BY <1>39, <1>42, ReadsCat
<1>44. MarkerGetGame(m) = Layout(w4 \o f1, 29 + n, w2 \o From(26, f2) \o w3)
  BY <1>1, <1>7
<1>45. (29 + n) \in Nat /\ 45 + n = 16 + (29 + n)
  OBVIOUS
<1>46. Known(With(With(s7, s3), s2), With(With(s1, s6), s2), 29 + n)
  BY DEF Known, With
<1> QED
  BY <1>44, <1>15, <1>43, <1>45, <1>46, BackendLaid

\* MarkerAdd.
LEMMA MarkerAddLaid ==
  ASSUME NEW m, NEW n \in Nat, m.n = n
  PROVE  Laid(BackendFormat(MarkerAdd(m)))
<1> DEFINE s1 == With(With(With({<<"x", 24, 8>>}, {<<"y", 32, 8>>}), {<<"z", 40, 8>>}),
    {<<"number", 48, 4>>})
           f1 == Fixed(MarkerAddMembers, <<"x", "y", "z", "number">>)
           f2 == Fixed(MarkerMembers, <<"requester">>)
           s2 == With({<<"requester", 16, 4>>}, {<<"localid", 20, 4>>})
           s3 == With(s2, s1)
           f3 == Fixed(MarkerMembers, <<"localid">>)
           w1 == From(16, f2) \o From(20, f3) \o From(24, f1)
           s4 == {<<"agename", 55 + n, 3 + n>>}
           s5 == With({<<"name", 52, 3 + n>>}, s4)
           f4 == Str(m, "agename", NARROW, 1)
           f5 == Str(m, "name", NARROW, 1)
           w2 == f5 \o f4
           w3 == From(24 + marker_data_len, w2)
           f6 == Fixed(MarkerMembers, <<"requester", "localid">>)
           w4 == f6 \o f1
<1>1. MarkerAdd(m) = Layout(w4 \o (w2), 8 + marker_data_len + Width(w2), w1 \o w3)
  BY DEF MarkerAdd, Marker, MarkerRead
<1>2. 52 \in Nat /\ (3 + n) \in Nat /\ 55 + n = 52 + (3 + n)
  OBVIOUS
<1>3. f5 = Buf("name", 3 + n)
  BY StrIs
<1>4. Lays(Buf("name", 3 + n), 52, {<<"name", 52, 3 + n>>}, 55 + n)
  BY <1>2, LaysOne
<1>5. Lays(f5, 52, {<<"name", 52, 3 + n>>}, 55 + n)
  BY <1>3, <1>4
<1>6. (55 + n) \in Nat /\ (3 + n) \in Nat /\ 58 + 2 * n = (55 + n) + (3 + n)
  OBVIOUS
<1>7. f4 = Buf("agename", 3 + n)
  BY StrIs
<1>8. Lays(Buf("agename", 3 + n), 55 + n, s4, 58 + 2 * n)
  BY <1>6, LaysOne
<1>9. Lays(f4, 55 + n, s4, 58 + 2 * n)
  BY <1>7, <1>8
<1>10. Lays(w2, 52, s5, 58 + 2 * n)
  BY <1>5, <1>9, LaysCat
<1>11. 52 \in Nat /\ (6 + 2 * n) \in Nat /\ 58 + 2 * n = 52 + (6 + 2 * n)
  OBVIOUS
<1>12. Width(w2) = 6 + 2 * n
  BY <1>10, <1>11, WidthFrom
<1>13. 8 + marker_data_len + Width(w2) = 42 + 2 * n
  BY <1>12 DEF marker_data_len
<1>14. 24 + marker_data_len = 52
  BY DEF marker_data_len
<1>15. MarkerMembers["requester"] = 4 /\ MarkerMembers["localid"] = 4
  BY DEF MarkerMembers, UUID
<1>16. 16 \in Nat /\ 4 \in Nat /\ 20 = 16 + 4 /\ 24 = 20 + 4
  OBVIOUS
<1>17. Lays(f6, 16, s2, 24)
  BY ONLY <1>15, <1>16, LaysFixedTwo
<1>18. MarkerAddMembers["x"] = 8 /\ MarkerAddMembers["y"] = 8 /\ MarkerAddMembers["z"] = 8
           /\ MarkerAddMembers["number"] = 4
  BY DEF MarkerAddMembers, UUID
<1>19. 24 \in Nat /\ 8 \in Nat /\ 32 = 24 + 8 /\ 40 = 32 + 8 /\ 48 = 40 + 8 /\ 4 \in Nat
           /\ 52 = 48 + 4
  OBVIOUS
<1>20. Lays(f1, 24, s1, 52)
  BY ONLY <1>18, <1>19, LaysFixedFour
<1>21. Lays(w4, 16, s3, 52)
  BY <1>17, <1>20, LaysCat
<1>22. Lays(w4 \o (w2), 16, With(s3, s5), 58 + 2 * n)
  BY <1>21, <1>10, LaysCat
<1>23. MarkerMembers["requester"] = 4
  BY DEF MarkerMembers, UUID
<1>24. 16 \in Nat /\ 4 \in Nat /\ 20 = 16 + 4
  OBVIOUS
<1>25. Lays(f2, 16, {<<"requester", 16, 4>>}, 20)
  BY ONLY <1>23, <1>24, LaysFixedOne
<1>26. Reads(From(16, f2), {<<"requester", 16, 4>>})
  BY <1>25, ReadsFrom
<1>27. MarkerMembers["localid"] = 4
  BY DEF MarkerMembers, UUID
<1>28. 20 \in Nat /\ 4 \in Nat /\ 24 = 20 + 4
  OBVIOUS
<1>29. Lays(f3, 20, {<<"localid", 20, 4>>}, 24)
  BY ONLY <1>27, <1>28, LaysFixedOne
<1>30. Reads(From(20, f3), {<<"localid", 20, 4>>})
  BY <1>29, ReadsFrom
<1>31. Reads(From(16, f2) \o From(20, f3), s2)
  BY <1>26, <1>30, ReadsCat
<1>32. Reads(From(24, f1), s1)
  BY <1>20, ReadsFrom
<1>33. Reads(w1, s3)
  BY <1>31, <1>32, ReadsCat
<1>34. Reads(From(52, w2), s5)
  BY <1>10, ReadsFrom
<1>35. Reads(w3, s5)
  BY <1>14, <1>34
<1>36. Reads(w1 \o w3, With(s3, s5))
  BY <1>33, <1>35, ReadsCat
<1>37. MarkerAdd(m) = Layout(w4 \o (w2), 42 + 2 * n, w1 \o w3)
  BY <1>1, <1>13
<1>38. (42 + 2 * n) \in Nat /\ 58 + 2 * n = 16 + (42 + 2 * n)
  OBVIOUS
<1>39. Known(With(s3, s5), With(s3, s5), 42 + 2 * n)
  BY DEF Known, With
<1> QED
  BY <1>37, <1>22, <1>36, <1>38, <1>39, BackendLaid

\* MarkerGameRename.
LEMMA MarkerGameRenameLaid ==
  ASSUME NEW m, NEW n \in Nat, m.n = n
  PROVE  Laid(BackendFormat(MarkerGameRename(m)))
<1> DEFINE s1 == With({<<"requester", 16, 4>>}, {<<"localid", 20, 4>>})
           f1 == Str(m, "name", NARROW, 1)
           f2 == Fixed(MarkerMembers, <<"requester", "localid">>)
           s2 == {<<"name", 24, 3 + n>>}
           f3 == Fixed(MarkerMembers, <<"requester">>)
           f4 == Fixed(MarkerMembers, <<"localid">>)
           w1 == From(16, f3) \o From(20, f4)
<1>1. MarkerGameRename(m) = Layout(f2 \o f1, 8 + Width(f1), w1 \o From(24, f1))
  BY DEF MarkerGameRename, Marker, MarkerRead
<1>2. 24 \in Nat /\ (3 + n) \in Nat /\ 27 + n = 24 + (3 + n)
  OBVIOUS
<1>3. f1 = Buf("name", 3 + n)
  BY StrIs
<1>4. Lays(Buf("name", 3 + n), 24, s2, 27 + n)
  BY <1>2, LaysOne
<1>5. Lays(f1, 24, s2, 27 + n)
  BY <1>3, <1>4
<1>6. Width(f1) = 3 + n
  BY <1>5, <1>2, WidthFrom
<1>7. 8 + Width(f1) = 11 + n
  BY <1>6 DEF UUID, marker_data_len
<1>8. MarkerMembers["requester"] = 4 /\ MarkerMembers["localid"] = 4
  BY DEF MarkerMembers, UUID
<1>9. 16 \in Nat /\ 4 \in Nat /\ 20 = 16 + 4 /\ 24 = 20 + 4
  OBVIOUS
<1>10. Lays(f2, 16, s1, 24)
  BY ONLY <1>8, <1>9, LaysFixedTwo
<1>11. Lays(f2 \o f1, 16, With(s1, s2), 27 + n)
  BY <1>10, <1>5, LaysCat
<1>12. MarkerMembers["requester"] = 4
  BY DEF MarkerMembers, UUID
<1>13. 16 \in Nat /\ 4 \in Nat /\ 20 = 16 + 4
  OBVIOUS
<1>14. Lays(f3, 16, {<<"requester", 16, 4>>}, 20)
  BY ONLY <1>12, <1>13, LaysFixedOne
<1>15. Reads(From(16, f3), {<<"requester", 16, 4>>})
  BY <1>14, ReadsFrom
<1>16. MarkerMembers["localid"] = 4
  BY DEF MarkerMembers, UUID
<1>17. 20 \in Nat /\ 4 \in Nat /\ 24 = 20 + 4
  OBVIOUS
<1>18. Lays(f4, 20, {<<"localid", 20, 4>>}, 24)
  BY ONLY <1>16, <1>17, LaysFixedOne
<1>19. Reads(From(20, f4), {<<"localid", 20, 4>>})
  BY <1>18, ReadsFrom
<1>20. Reads(w1, s1)
  BY <1>15, <1>19, ReadsCat
<1>21. Reads(From(24, f1), s2)
  BY <1>5, ReadsFrom
<1>22. Reads(w1 \o From(24, f1), With(s1, s2))
  BY <1>20, <1>21, ReadsCat
<1>23. MarkerGameRename(m) = Layout(f2 \o f1, 11 + n, w1 \o From(24, f1))
  BY <1>1, <1>7
<1>24. (11 + n) \in Nat /\ 27 + n = 16 + (11 + n)
  OBVIOUS
<1>25. Known(With(s1, s2), With(s1, s2), 11 + n)
  BY DEF Known, With
<1> QED
  BY <1>23, <1>11, <1>22, <1>24, <1>25, BackendLaid

\* MarkerGameDelete.
LEMMA MarkerGameDeleteLaid ==
  ASSUME NEW m, NEW n \in Nat, m.n = n
  PROVE  Laid(BackendFormat(MarkerGameDelete(m)))
<1> DEFINE s1 == With({<<"requester", 16, 4>>}, {<<"localid", 20, 4>>})
           f1 == Fixed(MarkerMembers, <<"requester">>)
           f2 == Fixed(MarkerMembers, <<"localid">>)
           f3 == Fixed(MarkerMembers, <<"requester", "localid">>)
<1>1. MarkerGameDelete(m) = Layout(f3, 8, From(16, f1) \o From(20, f2))
  BY DEF MarkerGameDelete, Marker, MarkerRead
<1>2. MarkerMembers["requester"] = 4 /\ MarkerMembers["localid"] = 4
  BY DEF MarkerMembers, UUID
<1>3. 16 \in Nat /\ 4 \in Nat /\ 20 = 16 + 4 /\ 24 = 20 + 4
  OBVIOUS
<1>4. Lays(f3, 16, s1, 24)
  BY ONLY <1>2, <1>3, LaysFixedTwo
<1>5. MarkerMembers["requester"] = 4
  BY DEF MarkerMembers, UUID
<1>6. 16 \in Nat /\ 4 \in Nat /\ 20 = 16 + 4
  OBVIOUS
<1>7. Lays(f1, 16, {<<"requester", 16, 4>>}, 20)
  BY ONLY <1>5, <1>6, LaysFixedOne
<1>8. Reads(From(16, f1), {<<"requester", 16, 4>>})
  BY <1>7, ReadsFrom
<1>9. MarkerMembers["localid"] = 4
  BY DEF MarkerMembers, UUID
<1>10. 20 \in Nat /\ 4 \in Nat /\ 24 = 20 + 4
  OBVIOUS
<1>11. Lays(f2, 20, {<<"localid", 20, 4>>}, 24)
  BY ONLY <1>9, <1>10, LaysFixedOne
<1>12. Reads(From(20, f2), {<<"localid", 20, 4>>})
  BY <1>11, ReadsFrom
<1>13. Reads(From(16, f1) \o From(20, f2), s1)
  BY <1>8, <1>12, ReadsCat
<1>14. 8 \in Nat /\ 24 = 16 + 8
  OBVIOUS
<1>15. Known(s1, s1, 8)
  BY DEF Known, With
<1> QED
  BY <1>1, <1>4, <1>13, <1>14, <1>15, BackendLaid

\* MarkerGameRenameMarker.
LEMMA MarkerGameRenameMarkerLaid ==
  ASSUME NEW m, NEW n \in Nat, m.n = n
  PROVE  Laid(BackendFormat(MarkerGameRenameMarker(m)))
<1> DEFINE f1 == Str(m, "name", NARROW, 1)
           f2 == Fixed(MarkerGameRenameMarkerMembers, <<"number">>)
           s1 == {<<"name", 28, 3 + n>>}
           f3 == Fixed(MarkerMembers, <<"requester">>)
           s2 == With({<<"requester", 16, 4>>}, {<<"localid", 20, 4>>})
           s3 == With(s2, {<<"number", 24, 4>>})
           f4 == Fixed(MarkerMembers, <<"localid">>)
           w1 == From(16, f3) \o From(20, f4) \o From(24, f2)
           f5 == Fixed(MarkerMembers, <<"requester", "localid">>)
           w2 == f5 \o f2
<1>1. MarkerGameRenameMarker(m) = Layout(w2 \o f1, 12 + Width(f1), w1 \o From(28, f1))
  BY DEF MarkerGameRenameMarker, Marker, MarkerRead
<1>2. 28 \in Nat /\ (3 + n) \in Nat /\ 31 + n = 28 + (3 + n)
  OBVIOUS
<1>3. f1 = Buf("name", 3 + n)
  BY StrIs
<1>4. Lays(Buf("name", 3 + n), 28, s1, 31 + n)
  BY <1>2, LaysOne
<1>5. Lays(f1, 28, s1, 31 + n)
  BY <1>3, <1>4
<1>6. Width(f1) = 3 + n
  BY <1>5, <1>2, WidthFrom
<1>7. 12 + Width(f1) = 15 + n
  BY <1>6 DEF UUID, marker_data_len
<1>8. MarkerMembers["requester"] = 4 /\ MarkerMembers["localid"] = 4
  BY DEF MarkerMembers, UUID
<1>9. 16 \in Nat /\ 4 \in Nat /\ 20 = 16 + 4 /\ 24 = 20 + 4
  OBVIOUS
<1>10. Lays(f5, 16, s2, 24)
  BY ONLY <1>8, <1>9, LaysFixedTwo
<1>11. MarkerGameRenameMarkerMembers["number"] = 4
  BY DEF MarkerGameRenameMarkerMembers, UUID
<1>12. 24 \in Nat /\ 4 \in Nat /\ 28 = 24 + 4
  OBVIOUS
<1>13. Lays(f2, 24, {<<"number", 24, 4>>}, 28)
  BY ONLY <1>11, <1>12, LaysFixedOne
<1>14. Lays(w2, 16, s3, 28)
  BY <1>10, <1>13, LaysCat
<1>15. Lays(w2 \o f1, 16, With(s3, s1), 31 + n)
  BY <1>14, <1>5, LaysCat
<1>16. MarkerMembers["requester"] = 4
  BY DEF MarkerMembers, UUID
<1>17. 16 \in Nat /\ 4 \in Nat /\ 20 = 16 + 4
  OBVIOUS
<1>18. Lays(f3, 16, {<<"requester", 16, 4>>}, 20)
  BY ONLY <1>16, <1>17, LaysFixedOne
<1>19. Reads(From(16, f3), {<<"requester", 16, 4>>})
  BY <1>18, ReadsFrom
<1>20. MarkerMembers["localid"] = 4
  BY DEF MarkerMembers, UUID
<1>21. 20 \in Nat /\ 4 \in Nat /\ 24 = 20 + 4
  OBVIOUS
<1>22. Lays(f4, 20, {<<"localid", 20, 4>>}, 24)
  BY ONLY <1>20, <1>21, LaysFixedOne
<1>23. Reads(From(20, f4), {<<"localid", 20, 4>>})
  BY <1>22, ReadsFrom
<1>24. Reads(From(16, f3) \o From(20, f4), s2)
  BY <1>19, <1>23, ReadsCat
<1>25. Reads(From(24, f2), {<<"number", 24, 4>>})
  BY <1>13, ReadsFrom
<1>26. Reads(w1, s3)
  BY <1>24, <1>25, ReadsCat
<1>27. Reads(From(28, f1), s1)
  BY <1>5, ReadsFrom
<1>28. Reads(w1 \o From(28, f1), With(s3, s1))
  BY <1>26, <1>27, ReadsCat
<1>29. MarkerGameRenameMarker(m) = Layout(w2 \o f1, 15 + n, w1 \o From(28, f1))
  BY <1>1, <1>7
<1>30. (15 + n) \in Nat /\ 31 + n = 16 + (15 + n)
  OBVIOUS
<1>31. Known(With(s3, s1), With(s3, s1), 15 + n)
  BY DEF Known, With
<1> QED
  BY <1>29, <1>15, <1>28, <1>30, <1>31, BackendLaid

\* MarkerGameDeleteMarker.
LEMMA MarkerGameDeleteMarkerLaid ==
  ASSUME NEW m, NEW n \in Nat, m.n = n
  PROVE  Laid(BackendFormat(MarkerGameDeleteMarker(m)))
<1> DEFINE s1 == With({<<"requester", 16, 4>>}, {<<"localid", 20, 4>>})
           f1 == Fixed(MarkerGameDeleteMarkerMembers, <<"number">>)
           s2 == {<<"number", 24, 4>>}
           f2 == Fixed(MarkerMembers, <<"requester", "localid">>)
           f3 == Fixed(MarkerMembers, <<"requester">>)
           f4 == Fixed(MarkerMembers, <<"localid">>)
           w1 == From(16, f3) \o From(20, f4)
<1>1. MarkerGameDeleteMarker(m) = Layout(f2 \o f1, 12, w1 \o From(24, f1))
  BY DEF MarkerGameDeleteMarker, Marker, MarkerRead
<1>2. MarkerMembers["requester"] = 4 /\ MarkerMembers["localid"] = 4
  BY DEF MarkerMembers, UUID
<1>3. 16 \in Nat /\ 4 \in Nat /\ 20 = 16 + 4 /\ 24 = 20 + 4
  OBVIOUS
<1>4. Lays(f2, 16, s1, 24)
  BY ONLY <1>2, <1>3, LaysFixedTwo
<1>5. MarkerGameDeleteMarkerMembers["number"] = 4
  BY DEF MarkerGameDeleteMarkerMembers, UUID
<1>6. 24 \in Nat /\ 4 \in Nat /\ 28 = 24 + 4
  OBVIOUS
<1>7. Lays(f1, 24, s2, 28)
  BY ONLY <1>5, <1>6, LaysFixedOne
<1>8. Lays(f2 \o f1, 16, With(s1, s2), 28)
  BY <1>4, <1>7, LaysCat
<1>9. MarkerMembers["requester"] = 4
  BY DEF MarkerMembers, UUID
<1>10. 16 \in Nat /\ 4 \in Nat /\ 20 = 16 + 4
  OBVIOUS
<1>11. Lays(f3, 16, {<<"requester", 16, 4>>}, 20)
  BY ONLY <1>9, <1>10, LaysFixedOne
<1>12. Reads(From(16, f3), {<<"requester", 16, 4>>})
  BY <1>11, ReadsFrom
<1>13. MarkerMembers["localid"] = 4
  BY DEF MarkerMembers, UUID
<1>14. 20 \in Nat /\ 4 \in Nat /\ 24 = 20 + 4
  OBVIOUS
<1>15. Lays(f4, 20, {<<"localid", 20, 4>>}, 24)
  BY ONLY <1>13, <1>14, LaysFixedOne
<1>16. Reads(From(20, f4), {<<"localid", 20, 4>>})
  BY <1>15, ReadsFrom
<1>17. Reads(w1, s1)
  BY <1>12, <1>16, ReadsCat
<1>18. Reads(From(24, f1), s2)
  BY <1>7, ReadsFrom
<1>19. Reads(w1 \o From(24, f1), With(s1, s2))
  BY <1>17, <1>18, ReadsCat
<1>20. 12 \in Nat /\ 28 = 16 + 12
  OBVIOUS
<1>21. Known(With(s1, s2), With(s1, s2), 12)
  BY DEF Known, With
<1> QED
  BY <1>1, <1>8, <1>19, <1>20, <1>21, BackendLaid

\* MarkerGameCaptureMarker.
LEMMA MarkerGameCaptureMarkerLaid ==
  ASSUME NEW m, NEW n \in Nat, m.n = n
  PROVE  Laid(BackendFormat(MarkerGameCaptureMarker(m)))
<1> DEFINE s1 == With({<<"requester", 16, 4>>}, {<<"localid", 20, 4>>})
           f1 == Fixed(MarkerGameCaptureMarkerMembers, <<"number">>)
           f2 == Fixed(MarkerGameCaptureMarkerMembers, <<"value">>)
           f3 == Fixed(MarkerGameCaptureMarkerMembers, <<"player", "number", "value">>)
           f4 == Fixed(MarkerMembers, <<"requester">>)
           f5 == Fixed(MarkerMembers, <<"localid">>)
           f6 == Fixed(MarkerGameCaptureMarkerMembers, <<"player">>)
           w1 == From(16, f4) \o From(20, f5) \o From(24, f6)
           f7 == Fixed(MarkerMembers, <<"requester", "localid">>)
           s2 == {<<"player", 24, 4>>}
           s3 == {<<"value", 32, 4>>}
           s4 == {<<"number", 28, 4>>}
           s5 == With(With(s2, s4), s3)
           s6 == With(With(s1, s2), s4)
<1>1. MarkerGameCaptureMarker(m) = Layout(f7 \o f3, 20, w1 \o From(28, f1) \o From(32, f2))
  BY DEF MarkerGameCaptureMarker, Marker, MarkerRead
<1>2. MarkerMembers["requester"] = 4 /\ MarkerMembers["localid"] = 4
  BY DEF MarkerMembers, UUID
<1>3. 16 \in Nat /\ 4 \in Nat /\ 20 = 16 + 4 /\ 24 = 20 + 4
  OBVIOUS
<1>4. Lays(f7, 16, s1, 24)
  BY ONLY <1>2, <1>3, LaysFixedTwo
<1>5. MarkerGameCaptureMarkerMembers["player"] = 4
          /\ MarkerGameCaptureMarkerMembers["number"] = 4
          /\ MarkerGameCaptureMarkerMembers["value"] = 4
  BY DEF MarkerGameCaptureMarkerMembers, UUID
<1>6. 24 \in Nat /\ 4 \in Nat /\ 28 = 24 + 4 /\ 32 = 28 + 4 /\ 36 = 32 + 4
  OBVIOUS
<1>7. Lays(f3, 24, s5, 36)
  BY ONLY <1>5, <1>6, LaysFixedThree
<1>8. Lays(f7 \o f3, 16, With(s1, s5), 36)
  BY <1>4, <1>7, LaysCat
<1>9. MarkerMembers["requester"] = 4
  BY DEF MarkerMembers, UUID
<1>10. 16 \in Nat /\ 4 \in Nat /\ 20 = 16 + 4
  OBVIOUS
<1>11. Lays(f4, 16, {<<"requester", 16, 4>>}, 20)
  BY ONLY <1>9, <1>10, LaysFixedOne
<1>12. Reads(From(16, f4), {<<"requester", 16, 4>>})
  BY <1>11, ReadsFrom
<1>13. MarkerMembers["localid"] = 4
  BY DEF MarkerMembers, UUID
<1>14. 20 \in Nat /\ 4 \in Nat /\ 24 = 20 + 4
  OBVIOUS
<1>15. Lays(f5, 20, {<<"localid", 20, 4>>}, 24)
  BY ONLY <1>13, <1>14, LaysFixedOne
<1>16. Reads(From(20, f5), {<<"localid", 20, 4>>})
  BY <1>15, ReadsFrom
<1>17. Reads(From(16, f4) \o From(20, f5), s1)
  BY <1>12, <1>16, ReadsCat
<1>18. MarkerGameCaptureMarkerMembers["player"] = 4
  BY DEF MarkerGameCaptureMarkerMembers, UUID
<1>19. 24 \in Nat /\ 4 \in Nat /\ 28 = 24 + 4
  OBVIOUS
<1>20. Lays(f6, 24, s2, 28)
  BY ONLY <1>18, <1>19, LaysFixedOne
<1>21. Reads(From(24, f6), s2)
  BY <1>20, ReadsFrom
<1>22. Reads(w1, With(s1, s2))
  BY <1>17, <1>21, ReadsCat
<1>23. MarkerGameCaptureMarkerMembers["number"] = 4
  BY DEF MarkerGameCaptureMarkerMembers, UUID
<1>24. 28 \in Nat /\ 4 \in Nat /\ 32 = 28 + 4
  OBVIOUS
<1>25. Lays(f1, 28, s4, 32)
  BY ONLY <1>23, <1>24, LaysFixedOne
<1>26. Reads(From(28, f1), s4)
  BY <1>25, ReadsFrom
<1>27. Reads(w1 \o From(28, f1), s6)
  BY <1>22, <1>26, ReadsCat
<1>28. MarkerGameCaptureMarkerMembers["value"] = 4
  BY DEF MarkerGameCaptureMarkerMembers, UUID
<1>29. 32 \in Nat /\ 4 \in Nat /\ 36 = 32 + 4
  OBVIOUS
<1>30. Lays(f2, 32, s3, 36)
  BY ONLY <1>28, <1>29, LaysFixedOne
<1>31. Reads(From(32, f2), s3)
  BY <1>30, ReadsFrom
<1>32. Reads(w1 \o From(28, f1) \o From(32, f2), With(s6, s3))
  BY <1>27, <1>31, ReadsCat
<1>33. 20 \in Nat /\ 36 = 16 + 20
  OBVIOUS
<1>34. Known(With(s6, s3), With(s1, s5), 20)
  BY DEF Known, With
<1> QED
  BY <1>1, <1>8, <1>32, <1>33, <1>34, BackendLaid

\* MarkerGameStop.
LEMMA MarkerGameStopLaid ==
  ASSUME NEW m, NEW n \in Nat, m.n = n
  PROVE  Laid(BackendFormat(MarkerGameStop(m)))
<1> DEFINE s1 == With({<<"requester", 16, 4>>}, {<<"localid", 20, 4>>})
           f1 == Fixed(MarkerGameStopMembers, <<"player">>)
           s2 == {<<"player", 24, 4>>}
           f2 == Fixed(MarkerMembers, <<"requester", "localid">>)
           f3 == Fixed(MarkerMembers, <<"requester">>)
           f4 == Fixed(MarkerMembers, <<"localid">>)
           w1 == From(16, f3) \o From(20, f4)
<1>1. MarkerGameStop(m) = Layout(f2 \o f1, 12, w1 \o From(24, f1))
  BY DEF MarkerGameStop, Marker, MarkerRead
<1>2. MarkerMembers["requester"] = 4 /\ MarkerMembers["localid"] = 4
  BY DEF MarkerMembers, UUID
<1>3. 16 \in Nat /\ 4 \in Nat /\ 20 = 16 + 4 /\ 24 = 20 + 4
  OBVIOUS
<1>4. Lays(f2, 16, s1, 24)
  BY ONLY <1>2, <1>3, LaysFixedTwo
<1>5. MarkerGameStopMembers["player"] = 4
  BY DEF MarkerGameStopMembers, UUID
<1>6. 24 \in Nat /\ 4 \in Nat /\ 28 = 24 + 4
  OBVIOUS
<1>7. Lays(f1, 24, s2, 28)
  BY ONLY <1>5, <1>6, LaysFixedOne
<1>8. Lays(f2 \o f1, 16, With(s1, s2), 28)
  BY <1>4, <1>7, LaysCat
<1>9. MarkerMembers["requester"] = 4
  BY DEF MarkerMembers, UUID
<1>10. 16 \in Nat /\ 4 \in Nat /\ 20 = 16 + 4
  OBVIOUS
<1>11. Lays(f3, 16, {<<"requester", 16, 4>>}, 20)
  BY ONLY <1>9, <1>10, LaysFixedOne
<1>12. Reads(From(16, f3), {<<"requester", 16, 4>>})
  BY <1>11, ReadsFrom
<1>13. MarkerMembers["localid"] = 4
  BY DEF MarkerMembers, UUID
<1>14. 20 \in Nat /\ 4 \in Nat /\ 24 = 20 + 4
  OBVIOUS
<1>15. Lays(f4, 20, {<<"localid", 20, 4>>}, 24)
  BY ONLY <1>13, <1>14, LaysFixedOne
<1>16. Reads(From(20, f4), {<<"localid", 20, 4>>})
  BY <1>15, ReadsFrom
<1>17. Reads(w1, s1)
  BY <1>12, <1>16, ReadsCat
<1>18. Reads(From(24, f1), s2)
  BY <1>7, ReadsFrom
<1>19. Reads(w1 \o From(24, f1), With(s1, s2))
  BY <1>17, <1>18, ReadsCat
<1>20. 12 \in Nat /\ 28 = 16 + 12
  OBVIOUS
<1>21. Known(With(s1, s2), With(s1, s2), 12)
  BY DEF Known, With
<1> QED
  BY <1>1, <1>8, <1>19, <1>20, <1>21, BackendLaid

-----------------------------------------------------------------------------
(***************************************************************************)
(* The classes of the vault, and the answers to them.                      *)
(***************************************************************************)

\* A vault message is as long from the client as it claims to be to the backend.
LEMMA VaultHeardLaid ==
  ASSUME NEW m, NEW w, NEW c \in Nat, c > 0, Wide(w, c), NEW r, VaultLayout(m) = Layout(w, c, r),
         VaultLength(m) = c, NEW k \in Nat, VaultKnown(m) = k
  PROVE  Laid(HeardFormat(VaultHeard(m)))
<1>1. VaultHeard(m) = Heard(w, c, k, k)
  BY DEF VaultHeard, Layout
<1>2. k <= k
  OBVIOUS
<1> QED
  BY <1>1, <1>2, HeardLaid

\* MarkersCaptured, in its long form.
LEMMA MarkersCapturedLongLaid ==
  ASSUME NEW m, NEW n \in Nat, m.n = n, n > 0
  PROVE  Laid(BackendFormat(MarkersCaptured(m)))
<1> DEFINE s1 == {<<"list", 28, 8 * n>>}
           f1 == Fixed(MarkersCapturedMembers, <<"listlen">>)
           f2 == Fixed(MarkerMembers, <<"requester">>)
           s2 == With({<<"requester", 16, 4>>}, {<<"localid", 20, 4>>})
           s3 == With(s2, {<<"listlen", 24, 4>>})
           f3 == Fixed(MarkerMembers, <<"localid">>)
           w1 == From(16, f2) \o From(20, f3) \o From(24, f1)
           f4 == Fixed(MarkerMembers, <<"requester", "localid">>)
           w2 == f4 \o f1
<1>1. MarkersCaptured(m) = Layout(w2 \o Buf("list", m.n * 8), 12 + m.n * 8, w1
          \o <<<<"list", 28, m.n * 8>>>>)
  BY DEF MarkersCaptured, Marker, MarkerRead, Opt, MarkersCapturedClaim
<1>2. m.n * 8 = 8 * n
  OBVIOUS
<1>3. MarkerMembers["requester"] = 4 /\ MarkerMembers["localid"] = 4
  BY DEF MarkerMembers, UUID
<1>4. 16 \in Nat /\ 4 \in Nat /\ 20 = 16 + 4 /\ 24 = 20 + 4
  OBVIOUS
<1>5. Lays(f4, 16, s2, 24)
  BY ONLY <1>3, <1>4, LaysFixedTwo
<1>6. MarkersCapturedMembers["listlen"] = 4
  BY DEF MarkersCapturedMembers, UUID
<1>7. 24 \in Nat /\ 4 \in Nat /\ 28 = 24 + 4
  OBVIOUS
<1>8. Lays(f1, 24, {<<"listlen", 24, 4>>}, 28)
  BY ONLY <1>6, <1>7, LaysFixedOne
<1>9. Lays(w2, 16, s3, 28)
  BY <1>5, <1>8, LaysCat
<1>10. 28 \in Nat /\ (8 * n) \in Nat /\ 28 + 8 * n = 28 + (8 * n)
  OBVIOUS
<1>11. Lays(Buf("list", 8 * n), 28, s1, 28 + 8 * n)
  BY <1>10, LaysOne
<1>12. Lays(Buf("list", m.n * 8), 28, s1, 28 + 8 * n)
  BY <1>2, <1>11
<1>13. Lays(w2 \o Buf("list", m.n * 8), 16, With(s3, s1), 28 + 8 * n)
  BY <1>9, <1>12, LaysCat
<1>14. MarkerMembers["requester"] = 4
  BY DEF MarkerMembers, UUID
<1>15. 16 \in Nat /\ 4 \in Nat /\ 20 = 16 + 4
  OBVIOUS
<1>16. Lays(f2, 16, {<<"requester", 16, 4>>}, 20)
  BY ONLY <1>14, <1>15, LaysFixedOne
<1>17. Reads(From(16, f2), {<<"requester", 16, 4>>})
  BY <1>16, ReadsFrom
<1>18. MarkerMembers["localid"] = 4
  BY DEF MarkerMembers, UUID
<1>19. 20 \in Nat /\ 4 \in Nat /\ 24 = 20 + 4
  OBVIOUS
<1>20. Lays(f3, 20, {<<"localid", 20, 4>>}, 24)
  BY ONLY <1>18, <1>19, LaysFixedOne
<1>21. Reads(From(20, f3), {<<"localid", 20, 4>>})
  BY <1>20, ReadsFrom
<1>22. Reads(From(16, f2) \o From(20, f3), s2)
  BY <1>17, <1>21, ReadsCat
<1>23. Reads(From(24, f1), {<<"listlen", 24, 4>>})
  BY <1>8, ReadsFrom
<1>24. Reads(w1, s3)
  BY <1>22, <1>23, ReadsCat
<1>25. Reads(<<<<"list", 28, 8 * n>>>>, s1)
  BY ReadsOne
<1>26. Reads(<<<<"list", 28, m.n * 8>>>>, s1)
  BY <1>2, <1>25
<1>27. Reads(w1 \o <<<<"list", 28, m.n * 8>>>>, With(s3, s1))
  BY <1>24, <1>26, ReadsCat
<1>28. 12 + m.n * 8 = 12 + 8 * n
  BY SendIs DEF UUID
<1>29. MarkersCaptured(m) = Layout(w2 \o Buf("list", m.n * 8), 12 + 8 * n, w1
           \o <<<<"list", 28, m.n * 8>>>>)
  BY <1>1, <1>28
<1>30. (12 + 8 * n) \in Nat /\ 28 + 8 * n = 16 + (12 + 8 * n)
  OBVIOUS
<1>31. Known(With(s3, s1), With(s3, s1), 12 + 8 * n)
  BY DEF Known, With
<1> QED
  BY <1>29, <1>13, <1>27, <1>30, <1>31, BackendLaid

\* MarkersCaptured, in its short form.
LEMMA MarkersCapturedShortLaid ==
  ASSUME NEW m, NEW n \in Nat, m.n = n, n = 0
  PROVE  Laid(BackendFormat(MarkersCaptured(m)))
<1> DEFINE f1 == Fixed(MarkersCapturedMembers, <<"listlen">>)
           f2 == Fixed(MarkerMembers, <<"requester", "localid">>)
           f3 == Fixed(MarkerMembers, <<"requester">>)
           s1 == With({<<"requester", 16, 4>>}, {<<"localid", 20, 4>>})
           s2 == With(s1, {<<"listlen", 24, 4>>})
           f4 == Fixed(MarkerMembers, <<"localid">>)
           w1 == From(16, f3) \o From(20, f4) \o From(24, f1)
<1>1. MarkersCaptured(m) = Layout(f2 \o f1 \o <<>>, 12, w1 \o <<>>)
  BY DEF MarkersCaptured, Marker, MarkerRead, Opt, MarkersCapturedClaim
<1>2. MarkerMembers["requester"] = 4 /\ MarkerMembers["localid"] = 4
  BY DEF MarkerMembers, UUID
<1>3. 16 \in Nat /\ 4 \in Nat /\ 20 = 16 + 4 /\ 24 = 20 + 4
  OBVIOUS
<1>4. Lays(f2, 16, s1, 24)
  BY ONLY <1>2, <1>3, LaysFixedTwo
<1>5. MarkersCapturedMembers["listlen"] = 4
  BY DEF MarkersCapturedMembers, UUID
<1>6. 24 \in Nat /\ 4 \in Nat /\ 28 = 24 + 4
  OBVIOUS
<1>7. Lays(f1, 24, {<<"listlen", 24, 4>>}, 28)
  BY ONLY <1>5, <1>6, LaysFixedOne
<1>8. Lays(f2 \o f1, 16, s2, 28)
  BY <1>4, <1>7, LaysCat
<1>9. 28 \in Nat
  OBVIOUS
<1>10. Lays(<<>>, 28, {}, 28)
  BY <1>9, LaysNone
<1>11. Lays(f2 \o f1 \o <<>>, 16, With(s2, {}), 28)
  BY <1>8, <1>10, LaysCat
<1>12. MarkerMembers["requester"] = 4
  BY DEF MarkerMembers, UUID
<1>13. 16 \in Nat /\ 4 \in Nat /\ 20 = 16 + 4
  OBVIOUS
<1>14. Lays(f3, 16, {<<"requester", 16, 4>>}, 20)
  BY ONLY <1>12, <1>13, LaysFixedOne
<1>15. Reads(From(16, f3), {<<"requester", 16, 4>>})
  BY <1>14, ReadsFrom
<1>16. MarkerMembers["localid"] = 4
  BY DEF MarkerMembers, UUID
<1>17. 20 \in Nat /\ 4 \in Nat /\ 24 = 20 + 4
  OBVIOUS
<1>18. Lays(f4, 20, {<<"localid", 20, 4>>}, 24)
  BY ONLY <1>16, <1>17, LaysFixedOne
<1>19. Reads(From(20, f4), {<<"localid", 20, 4>>})
  BY <1>18, ReadsFrom
<1>20. Reads(From(16, f3) \o From(20, f4), s1)
  BY <1>15, <1>19, ReadsCat
<1>21. Reads(From(24, f1), {<<"listlen", 24, 4>>})
  BY <1>7, ReadsFrom
<1>22. Reads(w1, s2)
  BY <1>20, <1>21, ReadsCat
<1>23. Reads(<<>>, {})
  BY ReadsNone
<1>24. Reads(w1 \o <<>>, With(s2, {}))
  BY <1>22, <1>23, ReadsCat
<1>25. 12 \in Nat /\ 28 = 16 + 12
  OBVIOUS
<1>26. Known(With(s2, {}), With(s2, {}), 12)
  BY DEF Known, With
<1> QED
  BY <1>1, <1>11, <1>24, <1>25, <1>26, BackendLaid

\* VaultFetchRefs_To.
LEMMA VaultFetchRefs_ToLaid ==
  ASSUME NEW m, NEW n \in Nat, m.n = n, m.class = "VaultFetchRefs_To"
  PROVE  Laid(BackendFormat(VaultLayout(m))) /\ Laid(HeardFormat(VaultHeard(m)))
<1> DEFINE f1 == Fixed(VaultFetchRefs_ToMembers, <<"reqid">>)
           f2 == Fixed(VaultFetchRefs_ToMembers, <<"node">>)
           w1 == From(At(TRUE, 2), f1) \o From(At(TRUE, 6), f2)
           s1 == {<<"reqid", 18, 4>>}
           s2 == {<<"node", 22, 4>>}
           s3 == With(s1, s2)
           f3 == Fixed(VaultFetchRefs_ToMembers, <<"reqid", "node">>)
           w2 == Fixed(VaultPassthroughMembers, <<"msgtype">>) \o f3
<1>1. VaultFetchRefs_To(m) = Layout(w2, VaultLength(m), w1)
  BY DEF VaultFetchRefs_To, Vault, Client, ClientStr, Opt
<1>2. VaultLength(m) = 10
  BY DEF VaultLength
<1>3. VaultPassthroughMembers["msgtype"] = 2
  BY DEF VaultPassthroughMembers, UUID
<1>4. 16 \in Nat /\ 2 \in Nat /\ 18 = 16 + 2
  OBVIOUS
<1>5. Lays(Fixed(VaultPassthroughMembers, <<"msgtype">>), 16, {<<"msgtype", 16, 2>>}, 18)
  BY ONLY <1>3, <1>4, LaysFixedOne
<1>6. VaultFetchRefs_ToMembers["reqid"] = 4 /\ VaultFetchRefs_ToMembers["node"] = 4
  BY DEF VaultFetchRefs_ToMembers, UUID
<1>7. 18 \in Nat /\ 4 \in Nat /\ 22 = 18 + 4 /\ 26 = 22 + 4
  OBVIOUS
<1>8. Lays(f3, 18, s3, 26)
  BY ONLY <1>6, <1>7, LaysFixedTwo
<1>9. Lays(w2, 16, With({<<"msgtype", 16, 2>>}, s3), 26)
  BY <1>5, <1>8, LaysCat
<1>10. VaultFetchRefs_ToMembers["reqid"] = 4
  BY DEF VaultFetchRefs_ToMembers, UUID
<1>11. 18 \in Nat /\ 4 \in Nat /\ 22 = 18 + 4
  OBVIOUS
<1>12. Lays(f1, 18, s1, 22)
  BY ONLY <1>10, <1>11, LaysFixedOne
<1>13. At(TRUE, 2) = 18
  BY SendIs DEF At, BufStart, VaultOffset, HEADER
<1>14. Reads(From(18, f1), s1)
  BY <1>12, ReadsFrom
<1>15. Reads(From(At(TRUE, 2), f1), s1)
  BY <1>13, <1>14
<1>16. VaultFetchRefs_ToMembers["node"] = 4
  BY DEF VaultFetchRefs_ToMembers, UUID
<1>17. 22 \in Nat /\ 4 \in Nat /\ 26 = 22 + 4
  OBVIOUS
<1>18. Lays(f2, 22, s2, 26)
  BY ONLY <1>16, <1>17, LaysFixedOne
<1>19. At(TRUE, 6) = 22
  BY SendIs DEF At, BufStart, VaultOffset, HEADER
<1>20. Reads(From(22, f2), s2)
  BY <1>18, ReadsFrom
<1>21. Reads(From(At(TRUE, 6), f2), s2)
  BY <1>19, <1>20
<1>22. Reads(w1, s3)
  BY <1>15, <1>21, ReadsCat
<1>23. VaultFetchRefs_To(m) = Layout(w2, 10, w1)
  BY <1>1, <1>2
<1>24. 10 \in Nat /\ 26 = 16 + 10
  OBVIOUS
<1>25. Known(s3, With({<<"msgtype", 16, 2>>}, s3), 10)
  BY DEF Known, With
<1>26. VaultLayout(m) = VaultFetchRefs_To(m)
  BY DEF VaultLayout
<1>27. VaultKnown(m) = 2 /\ 2 \in Nat /\ 10 > 0
  BY DEF VaultKnown, Counted
<1>28. Laid(BackendFormat(VaultFetchRefs_To(m)))
  BY <1>23, <1>9, <1>22, <1>24, <1>25, BackendLaid
<1>29. Wide(w2, 26 - 16) /\ 26 - 16 = 10
  BY <1>9, <1>24, WideLays
<1>30. VaultLayout(m) = Layout(w2, 10, w1)
  BY <1>23, <1>26
<1>31. Laid(HeardFormat(VaultHeard(m)))
  BY <1>2, <1>24, <1>27, <1>29, <1>30, VaultHeardLaid
<1> QED
  BY <1>26, <1>28, <1>31

\* VaultNode_To, in its long form.
LEMMA VaultNode_ToLongLaid ==
  ASSUME NEW m, NEW n \in Nat, m.n = n, m.class = "VaultNode_To", m.long, ~m.owner
  PROVE  Laid(BackendFormat(VaultLayout(m))) /\ Laid(HeardFormat(VaultHeard(m)))
<1> DEFINE f1 == Fixed(VaultNode_ToMembers, <<"id", "uuid">>)
           f2 == Fixed(VaultNode_ToMembers, <<"reqid">>)
           w1 == Fixed(VaultPassthroughMembers, <<"msgtype">>) \o (f2 \o f1
               \o Buf("nodelen", 4) \o Buf("node", m.n))
           s1 == {<<"nodelen", 42, 4>>}
           s2 == {<<"node", 46, n>>}
           s3 == With({<<"id", 22, 4>>}, {<<"uuid", 26, 16>>})
           s4 == {<<"reqid", 18, 4>>}
           s5 == With(s4, s3)
           s6 == With({<<"msgtype", 16, 2>>}, With(With(s5, s1), s2))
           w2 == From(At(m.owner, 2), f2) \o From(At(m.owner, 6), f1)
           w3 == w2 \o <<<<"nodelen", BufStart(m.owner) + 26, 4>>, <<"node",
               BufStart(m.owner) + 26 + 4, m.n>>>>
<1>1. VaultNode_To(m) = Layout(w1, VaultLength(m), w3)
  BY DEF VaultNode_To, Vault, Client, ClientStr, Opt
<1>2. VaultLength(m) = 30 + n
  BY DEF VaultLength
<1>3. BufStart(m.owner) + 26 = 42
  BY DEF BufStart, HEADER
<1>4. BufStart(m.owner) + 26 + 4 = 46
  BY DEF BufStart, HEADER
<1>5. VaultPassthroughMembers["msgtype"] = 2
  BY DEF VaultPassthroughMembers, UUID
<1>6. 16 \in Nat /\ 2 \in Nat /\ 18 = 16 + 2
  OBVIOUS
<1>7. Lays(Fixed(VaultPassthroughMembers, <<"msgtype">>), 16, {<<"msgtype", 16, 2>>}, 18)
  BY ONLY <1>5, <1>6, LaysFixedOne
<1>8. VaultNode_ToMembers["reqid"] = 4
  BY DEF VaultNode_ToMembers, UUID
<1>9. 18 \in Nat /\ 4 \in Nat /\ 22 = 18 + 4
  OBVIOUS
<1>10. Lays(f2, 18, s4, 22)
  BY ONLY <1>8, <1>9, LaysFixedOne
<1>11. VaultNode_ToMembers["id"] = 4 /\ VaultNode_ToMembers["uuid"] = 16
  BY DEF VaultNode_ToMembers, UUID
<1>12. 22 \in Nat /\ 4 \in Nat /\ 26 = 22 + 4 /\ 16 \in Nat /\ 42 = 26 + 16
  OBVIOUS
<1>13. Lays(f1, 22, s3, 42)
  BY ONLY <1>11, <1>12, LaysFixedTwo
<1>14. Lays(f2 \o f1, 18, s5, 42)
  BY <1>10, <1>13, LaysCat
<1>15. 42 \in Nat /\ 4 \in Nat /\ 46 = 42 + 4
  OBVIOUS
<1>16. Lays(Buf("nodelen", 4), 42, s1, 46)
  BY <1>15, LaysOne
<1>17. Lays(f2 \o f1 \o Buf("nodelen", 4), 18, With(s5, s1), 46)
  BY <1>14, <1>16, LaysCat
<1>18. 46 \in Nat /\ n \in Nat /\ 46 + n = 46 + n
  OBVIOUS
<1>19. m.n = n
  BY SendIs DEF UUID, HEADER
<1>20. Lays(Buf("node", n), 46, s2, 46 + n)
  BY <1>18, LaysOne
<1>21. Lays(Buf("node", m.n), 46, s2, 46 + n)
  BY <1>19, <1>20
<1>22. Lays(f2 \o f1 \o Buf("nodelen", 4) \o Buf("node", m.n), 18, With(With(s5, s1), s2),
           46 + n)
  BY <1>17, <1>21, LaysCat
<1>23. Lays(w1, 16, s6, 46 + n)
  BY <1>7, <1>22, LaysCat
<1>24. At(m.owner, 2) = 18
  BY SendIs DEF At, BufStart, VaultOffset, HEADER
<1>25. Reads(From(18, f2), s4)
  BY <1>10, ReadsFrom
<1>26. Reads(From(At(m.owner, 2), f2), s4)
  BY <1>24, <1>25
<1>27. At(m.owner, 6) = 22
  BY SendIs DEF At, BufStart, VaultOffset, HEADER
<1>28. Reads(From(22, f1), s3)
  BY <1>13, ReadsFrom
<1>29. Reads(From(At(m.owner, 6), f1), s3)
  BY <1>27, <1>28
<1>30. Reads(w2, s5)
  BY <1>26, <1>29, ReadsCat
<1>31. Reads(<<<<"nodelen", 42, 4>>, <<"node", 46, n>>>>, With(s1, s2))
  BY ReadsTwo
<1>32. Reads(<<<<"nodelen", BufStart(m.owner) + 26, 4>>, <<"node",
           BufStart(m.owner) + 26 + 4, m.n>>>>, With(s1, s2))
  BY <1>3, <1>4, <1>19, <1>31
<1>33. Reads(w3, With(s5, With(s1, s2)))
  BY <1>30, <1>32, ReadsCat
<1>34. VaultNode_To(m) = Layout(w1, 30 + n, w3)
  BY <1>1, <1>2
<1>35. (30 + n) \in Nat /\ 46 + n = 16 + (30 + n)
  OBVIOUS
<1>36. Known(With(s5, With(s1, s2)), s6, 30 + n)
  BY DEF Known, With
<1>37. VaultLayout(m) = VaultNode_To(m)
  BY DEF VaultLayout
<1>38. VaultKnown(m) = 30 /\ 30 \in Nat /\ (30 + n) > 0
  BY DEF VaultKnown, Counted
<1>39. Laid(BackendFormat(VaultNode_To(m)))
  BY <1>34, <1>23, <1>33, <1>35, <1>36, BackendLaid
<1>40. Wide(w1, (46 + n) - 16) /\ (46 + n) - 16 = 30 + n
  BY <1>23, <1>35, WideLays
<1>41. VaultLayout(m) = Layout(w1, 30 + n, w3)
  BY <1>34, <1>37
<1>42. Laid(HeardFormat(VaultHeard(m)))
  BY <1>2, <1>35, <1>38, <1>40, <1>41, VaultHeardLaid
<1> QED
  BY <1>37, <1>39, <1>42

\* VaultNode_To, in its short form.
LEMMA VaultNode_ToShortLaid ==
  ASSUME NEW m, NEW n \in Nat, m.n = n, m.class = "VaultNode_To", ~m.long, ~m.owner
  PROVE  Laid(BackendFormat(VaultLayout(m))) /\ Laid(HeardFormat(VaultHeard(m)))
<1> DEFINE f1 == Fixed(VaultNode_ToMembers, <<"reqid">>)
           w1 == Fixed(VaultPassthroughMembers, <<"msgtype">>) \o (f1 \o <<>>
               \o Buf("nodelen", 4) \o Buf("node", m.n))
           s1 == {<<"nodelen", 22, 4>>}
           s2 == {<<"node", 26, n>>}
           s3 == {<<"reqid", 18, 4>>}
           s4 == With(s3, {})
           s5 == With({<<"msgtype", 16, 2>>}, With(With(s4, s1), s2))
           w2 == From(At(m.owner, 2), f1)
           w3 == w2 \o <<>> \o <<<<"nodelen", BufStart(m.owner) + 6, 4>>, <<"node",
               BufStart(m.owner) + 6 + 4, m.n>>>>
<1>1. VaultNode_To(m) = Layout(w1, VaultLength(m), w3)
  BY DEF VaultNode_To, Vault, Client, ClientStr, Opt
<1>2. VaultLength(m) = 10 + n
  BY DEF VaultLength
<1>3. BufStart(m.owner) + 6 = 22
  BY DEF BufStart, HEADER
<1>4. BufStart(m.owner) + 6 + 4 = 26
  BY DEF BufStart, HEADER
<1>5. VaultPassthroughMembers["msgtype"] = 2
  BY DEF VaultPassthroughMembers, UUID
<1>6. 16 \in Nat /\ 2 \in Nat /\ 18 = 16 + 2
  OBVIOUS
<1>7. Lays(Fixed(VaultPassthroughMembers, <<"msgtype">>), 16, {<<"msgtype", 16, 2>>}, 18)
  BY ONLY <1>5, <1>6, LaysFixedOne
<1>8. VaultNode_ToMembers["reqid"] = 4
  BY DEF VaultNode_ToMembers, UUID
<1>9. 18 \in Nat /\ 4 \in Nat /\ 22 = 18 + 4
  OBVIOUS
<1>10. Lays(f1, 18, s3, 22)
  BY ONLY <1>8, <1>9, LaysFixedOne
<1>11. 22 \in Nat
  OBVIOUS
<1>12. Lays(<<>>, 22, {}, 22)
  BY <1>11, LaysNone
<1>13. Lays(f1 \o <<>>, 18, s4, 22)
  BY <1>10, <1>12, LaysCat
<1>14. 22 \in Nat /\ 4 \in Nat /\ 26 = 22 + 4
  OBVIOUS
<1>15. Lays(Buf("nodelen", 4), 22, s1, 26)
  BY <1>14, LaysOne
<1>16. Lays(f1 \o <<>> \o Buf("nodelen", 4), 18, With(s4, s1), 26)
  BY <1>13, <1>15, LaysCat
<1>17. 26 \in Nat /\ n \in Nat /\ 26 + n = 26 + n
  OBVIOUS
<1>18. m.n = n
  BY SendIs DEF UUID, HEADER
<1>19. Lays(Buf("node", n), 26, s2, 26 + n)
  BY <1>17, LaysOne
<1>20. Lays(Buf("node", m.n), 26, s2, 26 + n)
  BY <1>18, <1>19
<1>21. Lays(f1 \o <<>> \o Buf("nodelen", 4) \o Buf("node", m.n), 18, With(With(s4, s1),
           s2), 26 + n)
  BY <1>16, <1>20, LaysCat
<1>22. Lays(w1, 16, s5, 26 + n)
  BY <1>7, <1>21, LaysCat
<1>23. At(m.owner, 2) = 18
  BY SendIs DEF At, BufStart, VaultOffset, HEADER
<1>24. Reads(From(18, f1), s3)
  BY <1>10, ReadsFrom
<1>25. Reads(w2, s3)
  BY <1>23, <1>24
<1>26. Reads(<<>>, {})
  BY ReadsNone
<1>27. Reads(w2 \o <<>>, s4)
  BY <1>25, <1>26, ReadsCat
<1>28. Reads(<<<<"nodelen", 22, 4>>, <<"node", 26, n>>>>, With(s1, s2))
  BY ReadsTwo
<1>29. Reads(<<<<"nodelen", BufStart(m.owner) + 6, 4>>, <<"node",
           BufStart(m.owner) + 6 + 4, m.n>>>>, With(s1, s2))
  BY <1>3, <1>4, <1>18, <1>28
<1>30. Reads(w3, With(s4, With(s1, s2)))
  BY <1>27, <1>29, ReadsCat
<1>31. VaultNode_To(m) = Layout(w1, 10 + n, w3)
  BY <1>1, <1>2
<1>32. (10 + n) \in Nat /\ 26 + n = 16 + (10 + n)
  OBVIOUS
<1>33. Known(With(s4, With(s1, s2)), s5, 10 + n)
  BY DEF Known, With
<1>34. VaultLayout(m) = VaultNode_To(m)
  BY DEF VaultLayout
<1>35. VaultKnown(m) = 10 /\ 10 \in Nat /\ (10 + n) > 0
  BY DEF VaultKnown, Counted
<1>36. Laid(BackendFormat(VaultNode_To(m)))
  BY <1>31, <1>22, <1>30, <1>32, <1>33, BackendLaid
<1>37. Wide(w1, (26 + n) - 16) /\ (26 + n) - 16 = 10 + n
  BY <1>22, <1>32, WideLays
<1>38. VaultLayout(m) = Layout(w1, 10 + n, w3)
  BY <1>31, <1>34
<1>39. Laid(HeardFormat(VaultHeard(m)))
  BY <1>2, <1>32, <1>35, <1>37, <1>38, VaultHeardLaid
<1> QED
  BY <1>34, <1>36, <1>39

\* VaultNodeFetch_To.
LEMMA VaultNodeFetch_ToLaid ==
  ASSUME NEW m, NEW n \in Nat, m.n = n, m.class = "VaultNodeFetch_To"
  PROVE  Laid(BackendFormat(VaultLayout(m))) /\ Laid(HeardFormat(VaultHeard(m)))
<1> DEFINE f1 == Fixed(VaultNodeFetch_ToMembers, <<"reqid">>)
           f2 == Fixed(VaultNodeFetch_ToMembers, <<"node">>)
           w1 == From(At(TRUE, 2), f1) \o From(At(TRUE, 6), f2)
           s1 == {<<"reqid", 18, 4>>}
           s2 == {<<"node", 22, 4>>}
           s3 == With(s1, s2)
           f3 == Fixed(VaultNodeFetch_ToMembers, <<"reqid", "node">>)
           w2 == Fixed(VaultPassthroughMembers, <<"msgtype">>) \o f3
<1>1. VaultNodeFetch_To(m) = Layout(w2, VaultLength(m), w1)
  BY DEF VaultNodeFetch_To, Vault, Client, ClientStr, Opt
<1>2. VaultLength(m) = 10
  BY DEF VaultLength
<1>3. VaultPassthroughMembers["msgtype"] = 2
  BY DEF VaultPassthroughMembers, UUID
<1>4. 16 \in Nat /\ 2 \in Nat /\ 18 = 16 + 2
  OBVIOUS
<1>5. Lays(Fixed(VaultPassthroughMembers, <<"msgtype">>), 16, {<<"msgtype", 16, 2>>}, 18)
  BY ONLY <1>3, <1>4, LaysFixedOne
<1>6. VaultNodeFetch_ToMembers["reqid"] = 4 /\ VaultNodeFetch_ToMembers["node"] = 4
  BY DEF VaultNodeFetch_ToMembers, UUID
<1>7. 18 \in Nat /\ 4 \in Nat /\ 22 = 18 + 4 /\ 26 = 22 + 4
  OBVIOUS
<1>8. Lays(f3, 18, s3, 26)
  BY ONLY <1>6, <1>7, LaysFixedTwo
<1>9. Lays(w2, 16, With({<<"msgtype", 16, 2>>}, s3), 26)
  BY <1>5, <1>8, LaysCat
<1>10. VaultNodeFetch_ToMembers["reqid"] = 4
  BY DEF VaultNodeFetch_ToMembers, UUID
<1>11. 18 \in Nat /\ 4 \in Nat /\ 22 = 18 + 4
  OBVIOUS
<1>12. Lays(f1, 18, s1, 22)
  BY ONLY <1>10, <1>11, LaysFixedOne
<1>13. At(TRUE, 2) = 18
  BY SendIs DEF At, BufStart, VaultOffset, HEADER
<1>14. Reads(From(18, f1), s1)
  BY <1>12, ReadsFrom
<1>15. Reads(From(At(TRUE, 2), f1), s1)
  BY <1>13, <1>14
<1>16. VaultNodeFetch_ToMembers["node"] = 4
  BY DEF VaultNodeFetch_ToMembers, UUID
<1>17. 22 \in Nat /\ 4 \in Nat /\ 26 = 22 + 4
  OBVIOUS
<1>18. Lays(f2, 22, s2, 26)
  BY ONLY <1>16, <1>17, LaysFixedOne
<1>19. At(TRUE, 6) = 22
  BY SendIs DEF At, BufStart, VaultOffset, HEADER
<1>20. Reads(From(22, f2), s2)
  BY <1>18, ReadsFrom
<1>21. Reads(From(At(TRUE, 6), f2), s2)
  BY <1>19, <1>20
<1>22. Reads(w1, s3)
  BY <1>15, <1>21, ReadsCat
<1>23. VaultNodeFetch_To(m) = Layout(w2, 10, w1)
  BY <1>1, <1>2
<1>24. 10 \in Nat /\ 26 = 16 + 10
  OBVIOUS
<1>25. Known(s3, With({<<"msgtype", 16, 2>>}, s3), 10)
  BY DEF Known, With
<1>26. VaultLayout(m) = VaultNodeFetch_To(m)
  BY DEF VaultLayout
<1>27. VaultKnown(m) = 2 /\ 2 \in Nat /\ 10 > 0
  BY DEF VaultKnown, Counted
<1>28. Laid(BackendFormat(VaultNodeFetch_To(m)))
  BY <1>23, <1>9, <1>22, <1>24, <1>25, BackendLaid
<1>29. Wide(w2, 26 - 16) /\ 26 - 16 = 10
  BY <1>9, <1>24, WideLays
<1>30. VaultLayout(m) = Layout(w2, 10, w1)
  BY <1>23, <1>26
<1>31. Laid(HeardFormat(VaultHeard(m)))
  BY <1>2, <1>24, <1>27, <1>29, <1>30, VaultHeardLaid
<1> QED
  BY <1>26, <1>28, <1>31

\* VaultRefChange_To, in its long form.
LEMMA VaultRefChange_ToLongLaid ==
  ASSUME NEW m, NEW n \in Nat, m.n = n, m.class = "VaultRefChange_To", m.long
  PROVE  Laid(BackendFormat(VaultLayout(m))) /\ Laid(HeardFormat(VaultHeard(m)))
<1> DEFINE f1 == Fixed(VaultPassthroughMembers, <<"msgtype">>)
           s1 == With(With({<<"reqid", 18, 4>>}, {<<"parent", 22, 4>>}), {<<"child", 26,
               4>>})
           s2 == With(s1, {<<"owner", 30, 4>>})
           f2 == Fixed(VaultRefChange_ToMembers, <<"reqid", "parent", "child">>)
           w1 == f2 \o Fixed(VaultRefChange_ToMembers, <<"owner">>)
           w2 == From(At(TRUE, 2), w1)
<1>1. VaultRefChange_To(m) = Layout(f1 \o (w1), VaultLength(m), w2)
  BY DEF VaultRefChange_To, Vault, Client, ClientStr, Opt
<1>2. VaultLength(m) = 18
  BY DEF VaultLength
<1>3. VaultPassthroughMembers["msgtype"] = 2
  BY DEF VaultPassthroughMembers, UUID
<1>4. 16 \in Nat /\ 2 \in Nat /\ 18 = 16 + 2
  OBVIOUS
<1>5. Lays(f1, 16, {<<"msgtype", 16, 2>>}, 18)
  BY ONLY <1>3, <1>4, LaysFixedOne
<1>6. VaultRefChange_ToMembers["reqid"] = 4 /\ VaultRefChange_ToMembers["parent"] = 4
          /\ VaultRefChange_ToMembers["child"] = 4
  BY DEF VaultRefChange_ToMembers, UUID
<1>7. 18 \in Nat /\ 4 \in Nat /\ 22 = 18 + 4 /\ 26 = 22 + 4 /\ 30 = 26 + 4
  OBVIOUS
<1>8. Lays(f2, 18, s1, 30)
  BY ONLY <1>6, <1>7, LaysFixedThree
<1>9. VaultRefChange_ToMembers["owner"] = 4
  BY DEF VaultRefChange_ToMembers, UUID
<1>10. 30 \in Nat /\ 4 \in Nat /\ 34 = 30 + 4
  OBVIOUS
<1>11. Lays(Fixed(VaultRefChange_ToMembers, <<"owner">>), 30, {<<"owner", 30, 4>>}, 34)
  BY ONLY <1>9, <1>10, LaysFixedOne
<1>12. Lays(w1, 18, s2, 34)
  BY <1>8, <1>11, LaysCat
<1>13. Lays(f1 \o (w1), 16, With({<<"msgtype", 16, 2>>}, s2), 34)
  BY <1>5, <1>12, LaysCat
<1>14. At(TRUE, 2) = 18
  BY SendIs DEF At, BufStart, VaultOffset, HEADER
<1>15. Reads(From(18, w1), s2)
  BY <1>12, ReadsFrom
<1>16. Reads(w2, s2)
  BY <1>14, <1>15
<1>17. VaultRefChange_To(m) = Layout(f1 \o (w1), 18, w2)
  BY <1>1, <1>2
<1>18. 18 \in Nat /\ 34 = 16 + 18
  OBVIOUS
<1>19. Known(s2, With({<<"msgtype", 16, 2>>}, s2), 18)
  BY DEF Known, With
<1>20. VaultLayout(m) = VaultRefChange_To(m)
  BY DEF VaultLayout
<1>21. VaultKnown(m) = 2 /\ 2 \in Nat /\ 18 > 0
  BY DEF VaultKnown, Counted
<1>22. Laid(BackendFormat(VaultRefChange_To(m)))
  BY <1>17, <1>13, <1>16, <1>18, <1>19, BackendLaid
<1>23. Wide(f1 \o (w1), 34 - 16) /\ 34 - 16 = 18
  BY <1>13, <1>18, WideLays
<1>24. VaultLayout(m) = Layout(f1 \o (w1), 18, w2)
  BY <1>17, <1>20
<1>25. Laid(HeardFormat(VaultHeard(m)))
  BY <1>2, <1>18, <1>21, <1>23, <1>24, VaultHeardLaid
<1> QED
  BY <1>20, <1>22, <1>25

\* VaultRefChange_To, in its short form.
LEMMA VaultRefChange_ToShortLaid ==
  ASSUME NEW m, NEW n \in Nat, m.n = n, m.class = "VaultRefChange_To", ~m.long
  PROVE  Laid(BackendFormat(VaultLayout(m))) /\ Laid(HeardFormat(VaultHeard(m)))
<1> DEFINE s1 == With(With({<<"reqid", 18, 4>>}, {<<"parent", 22, 4>>}), {<<"child", 26,
    4>>})
           f1 == Fixed(VaultPassthroughMembers, <<"msgtype">>)
           f2 == Fixed(VaultRefChange_ToMembers, <<"reqid", "parent", "child">>)
           w1 == f2 \o <<>>
           w2 == From(At(TRUE, 2), w1)
<1>1. VaultRefChange_To(m) = Layout(f1 \o (w1), VaultLength(m), w2)
  BY DEF VaultRefChange_To, Vault, Client, ClientStr, Opt
<1>2. VaultLength(m) = 14
  BY DEF VaultLength
<1>3. VaultPassthroughMembers["msgtype"] = 2
  BY DEF VaultPassthroughMembers, UUID
<1>4. 16 \in Nat /\ 2 \in Nat /\ 18 = 16 + 2
  OBVIOUS
<1>5. Lays(f1, 16, {<<"msgtype", 16, 2>>}, 18)
  BY ONLY <1>3, <1>4, LaysFixedOne
<1>6. VaultRefChange_ToMembers["reqid"] = 4 /\ VaultRefChange_ToMembers["parent"] = 4
          /\ VaultRefChange_ToMembers["child"] = 4
  BY DEF VaultRefChange_ToMembers, UUID
<1>7. 18 \in Nat /\ 4 \in Nat /\ 22 = 18 + 4 /\ 26 = 22 + 4 /\ 30 = 26 + 4
  OBVIOUS
<1>8. Lays(f2, 18, s1, 30)
  BY ONLY <1>6, <1>7, LaysFixedThree
<1>9. 30 \in Nat
  OBVIOUS
<1>10. Lays(<<>>, 30, {}, 30)
  BY <1>9, LaysNone
<1>11. Lays(w1, 18, With(s1, {}), 30)
  BY <1>8, <1>10, LaysCat
<1>12. Lays(f1 \o (w1), 16, With({<<"msgtype", 16, 2>>}, With(s1, {})), 30)
  BY <1>5, <1>11, LaysCat
<1>13. At(TRUE, 2) = 18
  BY SendIs DEF At, BufStart, VaultOffset, HEADER
<1>14. Reads(From(18, w1), With(s1, {}))
  BY <1>11, ReadsFrom
<1>15. Reads(w2, With(s1, {}))
  BY <1>13, <1>14
<1>16. VaultRefChange_To(m) = Layout(f1 \o (w1), 14, w2)
  BY <1>1, <1>2
<1>17. 14 \in Nat /\ 30 = 16 + 14
  OBVIOUS
<1>18. Known(With(s1, {}), With({<<"msgtype", 16, 2>>}, With(s1, {})), 14)
  BY DEF Known, With
<1>19. VaultLayout(m) = VaultRefChange_To(m)
  BY DEF VaultLayout
<1>20. VaultKnown(m) = 2 /\ 2 \in Nat /\ 14 > 0
  BY DEF VaultKnown, Counted
<1>21. Laid(BackendFormat(VaultRefChange_To(m)))
  BY <1>16, <1>12, <1>15, <1>17, <1>18, BackendLaid
<1>22. Wide(f1 \o (w1), 30 - 16) /\ 30 - 16 = 14
  BY <1>12, <1>17, WideLays
<1>23. VaultLayout(m) = Layout(f1 \o (w1), 14, w2)
  BY <1>16, <1>19
<1>24. Laid(HeardFormat(VaultHeard(m)))
  BY <1>2, <1>17, <1>20, <1>22, <1>23, VaultHeardLaid
<1> QED
  BY <1>19, <1>21, <1>24

\* VaultInitAge_To.
LEMMA VaultInitAge_ToLaid ==
  ASSUME NEW m, NEW n \in Nat, m.n = n, m.class = "VaultInitAge_To"
  PROVE  Laid(BackendFormat(VaultLayout(m))) /\ Laid(HeardFormat(VaultHeard(m)))
<1> DEFINE f1 == Fixed(VaultPassthroughMembers, <<"msgtype">>)
           s1 == With(With({<<"reqid", 18, 4>>}, {<<"createuuid", 22, 16>>}),
               {<<"parentuuid", 38, 16>>})
           s2 == {<<"username", 58 + 4 * n, 2 + 2 * n>>}
           f2 == Str(m, "instance", WIDE, 0)
           s3 == {<<"dispname", 60 + 6 * n, 2 + 2 * n>>}
           f3 == Str(m, "username", WIDE, 0)
           s4 == {<<"filename", 54, 2 + 2 * n>>}
           f4 == Str(m, "dispname", WIDE, 0)
           s5 == {<<"instance", 56 + 2 * n, 2 + 2 * n>>}
           s6 == With(With(s1, s4), s5)
           f5 == Fixed(VaultInitAge_ToMembers, <<"reqid", "createuuid", "parentuuid">>)
           s7 == With({<<"unk", 62 + 8 * n, 4>>}, {<<"id", 66 + 8 * n, 4>>})
           s8 == With(With(With(s6, s2), s3), s7)
           f6 == Str(m, "filename", WIDE, 0)
           w1 == f5 \o f6
           w2 == w1 \o f2 \o f3 \o f4 \o Fixed(VaultInitAge_ToMembers, <<"unk", "id">>)
           w3 == From(At(m.owner, 2), w2)
<1>1. VaultInitAge_To(m) = Layout(f1 \o (w2), VaultLength(m), w3)
  BY DEF VaultInitAge_To, Vault, Client, ClientStr, Opt
<1>2. VaultLength(m) = 54 + 8 * n
  BY DEF VaultLength
<1>3. VaultPassthroughMembers["msgtype"] = 2
  BY DEF VaultPassthroughMembers, UUID
<1>4. 16 \in Nat /\ 2 \in Nat /\ 18 = 16 + 2
  OBVIOUS
<1>5. Lays(f1, 16, {<<"msgtype", 16, 2>>}, 18)
  BY ONLY <1>3, <1>4, LaysFixedOne
<1>6. VaultInitAge_ToMembers["reqid"] = 4 /\ VaultInitAge_ToMembers["createuuid"] = 16
          /\ VaultInitAge_ToMembers["parentuuid"] = 16
  BY DEF VaultInitAge_ToMembers, UUID
<1>7. 18 \in Nat /\ 4 \in Nat /\ 22 = 18 + 4 /\ 16 \in Nat /\ 38 = 22 + 16 /\ 54 = 38 + 16
  OBVIOUS
<1>8. Lays(f5, 18, s1, 54)
  BY ONLY <1>6, <1>7, LaysFixedThree
<1>9. 54 \in Nat /\ (2 + 2 * n) \in Nat /\ 56 + 2 * n = 54 + (2 + 2 * n)
  OBVIOUS
<1>10. f6 = Buf("filename", 2 + 2 * n)
  BY StrIs
<1>11. Lays(Buf("filename", 2 + 2 * n), 54, s4, 56 + 2 * n)
  BY <1>9, LaysOne
<1>12. Lays(f6, 54, s4, 56 + 2 * n)
  BY <1>10, <1>11
<1>13. Lays(w1, 18, With(s1, s4), 56 + 2 * n)
  BY <1>8, <1>12, LaysCat
<1>14. (56 + 2 * n) \in Nat /\ (2 + 2 * n) \in Nat /\ 58 + 4 * n
           = (56 + 2 * n) + (2 + 2 * n)
  OBVIOUS
<1>15. f2 = Buf("instance", 2 + 2 * n)
  BY StrIs
<1>16. Lays(Buf("instance", 2 + 2 * n), 56 + 2 * n, s5, 58 + 4 * n)
  BY <1>14, LaysOne
<1>17. Lays(f2, 56 + 2 * n, s5, 58 + 4 * n)
  BY <1>15, <1>16
<1>18. Lays(w1 \o f2, 18, s6, 58 + 4 * n)
  BY <1>13, <1>17, LaysCat
<1>19. (58 + 4 * n) \in Nat /\ (2 + 2 * n) \in Nat /\ 60 + 6 * n
           = (58 + 4 * n) + (2 + 2 * n)
  OBVIOUS
<1>20. f3 = Buf("username", 2 + 2 * n)
  BY StrIs
<1>21. Lays(Buf("username", 2 + 2 * n), 58 + 4 * n, s2, 60 + 6 * n)
  BY <1>19, LaysOne
<1>22. Lays(f3, 58 + 4 * n, s2, 60 + 6 * n)
  BY <1>20, <1>21
<1>23. Lays(w1 \o f2 \o f3, 18, With(s6, s2), 60 + 6 * n)
  BY <1>18, <1>22, LaysCat
<1>24. (60 + 6 * n) \in Nat /\ (2 + 2 * n) \in Nat /\ 62 + 8 * n
           = (60 + 6 * n) + (2 + 2 * n)
  OBVIOUS
<1>25. f4 = Buf("dispname", 2 + 2 * n)
  BY StrIs
<1>26. Lays(Buf("dispname", 2 + 2 * n), 60 + 6 * n, s3, 62 + 8 * n)
  BY <1>24, LaysOne
<1>27. Lays(f4, 60 + 6 * n, s3, 62 + 8 * n)
  BY <1>25, <1>26
<1>28. Lays(w1 \o f2 \o f3 \o f4, 18, With(With(s6, s2), s3), 62 + 8 * n)
  BY <1>23, <1>27, LaysCat
<1>29. VaultInitAge_ToMembers["unk"] = 4 /\ VaultInitAge_ToMembers["id"] = 4
  BY DEF VaultInitAge_ToMembers, UUID
<1>30. (62 + 8 * n) \in Nat /\ 4 \in Nat /\ 66 + 8 * n = (62 + 8 * n) + 4 /\ 70 + 8 * n
           = (66 + 8 * n) + 4
  OBVIOUS
<1>31. Lays(Fixed(VaultInitAge_ToMembers, <<"unk", "id">>), 62 + 8 * n, s7, 70 + 8 * n)
  BY ONLY <1>29, <1>30, LaysFixedTwo
<1>32. Lays(w2, 18, s8, 70 + 8 * n)
  BY <1>28, <1>31, LaysCat
<1>33. Lays(f1 \o (w2), 16, With({<<"msgtype", 16, 2>>}, s8), 70 + 8 * n)
  BY <1>5, <1>32, LaysCat
<1>34. At(m.owner, 2) = 18
  BY SendIs DEF At, BufStart, VaultOffset, HEADER
<1>35. Reads(From(18, w2), s8)
  BY <1>32, ReadsFrom
<1>36. Reads(w3, s8)
  BY <1>34, <1>35
<1>37. VaultInitAge_To(m) = Layout(f1 \o (w2), 54 + 8 * n, w3)
  BY <1>1, <1>2
<1>38. (54 + 8 * n) \in Nat /\ 70 + 8 * n = 16 + (54 + 8 * n)
  OBVIOUS
<1>39. Known(s8, With({<<"msgtype", 16, 2>>}, s8), 54 + 8 * n)
  BY DEF Known, With
<1>40. VaultLayout(m) = VaultInitAge_To(m)
  BY DEF VaultLayout
<1>41. VaultKnown(m) = 46 + 6 * n /\ (46 + 6 * n) \in Nat /\ (54 + 8 * n) > 0
  BY DEF VaultKnown, Counted
<1>42. Laid(BackendFormat(VaultInitAge_To(m)))
  BY <1>37, <1>33, <1>36, <1>38, <1>39, BackendLaid
<1>43. Wide(f1 \o (w2), (70 + 8 * n) - 16) /\ (70 + 8 * n) - 16 = 54 + 8 * n
  BY <1>33, <1>38, WideLays
<1>44. VaultLayout(m) = Layout(f1 \o (w2), 54 + 8 * n, w3)
  BY <1>37, <1>40
<1>45. Laid(HeardFormat(VaultHeard(m)))
  BY <1>2, <1>38, <1>41, <1>43, <1>44, VaultHeardLaid
<1> QED
  BY <1>40, <1>42, <1>45

\* VaultAgeList_To.
LEMMA VaultAgeList_ToLaid ==
  ASSUME NEW m, NEW n \in Nat, m.n = n, m.class = "VaultAgeList_To"
  PROVE  Laid(BackendFormat(VaultLayout(m))) /\ Laid(HeardFormat(VaultHeard(m)))
<1> DEFINE f1 == Fixed(VaultPassthroughMembers, <<"msgtype">>)
           s1 == {<<"filename", 22, 2 + 2 * n>>}
           s2 == With({<<"reqid", 18, 4>>}, s1)
           f2 == Str(m, "filename", WIDE, 0)
           w1 == Fixed(VaultAgeList_ToMembers, <<"reqid">>) \o f2
           w2 == From(At(m.owner, 2), w1)
<1>1. VaultAgeList_To(m) = Layout(f1 \o (w1), VaultLength(m), w2)
  BY DEF VaultAgeList_To, Vault, Client, ClientStr, Opt
<1>2. VaultLength(m) = 8 + 2 * n
  BY DEF VaultLength
<1>3. VaultPassthroughMembers["msgtype"] = 2
  BY DEF VaultPassthroughMembers, UUID
<1>4. 16 \in Nat /\ 2 \in Nat /\ 18 = 16 + 2
  OBVIOUS
<1>5. Lays(f1, 16, {<<"msgtype", 16, 2>>}, 18)
  BY ONLY <1>3, <1>4, LaysFixedOne
<1>6. VaultAgeList_ToMembers["reqid"] = 4
  BY DEF VaultAgeList_ToMembers, UUID
<1>7. 18 \in Nat /\ 4 \in Nat /\ 22 = 18 + 4
  OBVIOUS
<1>8. Lays(Fixed(VaultAgeList_ToMembers, <<"reqid">>), 18, {<<"reqid", 18, 4>>}, 22)
  BY ONLY <1>6, <1>7, LaysFixedOne
<1>9. 22 \in Nat /\ (2 + 2 * n) \in Nat /\ 24 + 2 * n = 22 + (2 + 2 * n)
  OBVIOUS
<1>10. f2 = Buf("filename", 2 + 2 * n)
  BY StrIs
<1>11. Lays(Buf("filename", 2 + 2 * n), 22, s1, 24 + 2 * n)
  BY <1>9, LaysOne
<1>12. Lays(f2, 22, s1, 24 + 2 * n)
  BY <1>10, <1>11
<1>13. Lays(w1, 18, s2, 24 + 2 * n)
  BY <1>8, <1>12, LaysCat
<1>14. Lays(f1 \o (w1), 16, With({<<"msgtype", 16, 2>>}, s2), 24 + 2 * n)
  BY <1>5, <1>13, LaysCat
<1>15. At(m.owner, 2) = 18
  BY SendIs DEF At, BufStart, VaultOffset, HEADER
<1>16. Reads(From(18, w1), s2)
  BY <1>13, ReadsFrom
<1>17. Reads(w2, s2)
  BY <1>15, <1>16
<1>18. VaultAgeList_To(m) = Layout(f1 \o (w1), 8 + 2 * n, w2)
  BY <1>1, <1>2
<1>19. (8 + 2 * n) \in Nat /\ 24 + 2 * n = 16 + (8 + 2 * n)
  OBVIOUS
<1>20. Known(s2, With({<<"msgtype", 16, 2>>}, s2), 8 + 2 * n)
  BY DEF Known, With
<1>21. VaultLayout(m) = VaultAgeList_To(m)
  BY DEF VaultLayout
<1>22. VaultKnown(m) = 8 /\ 8 \in Nat /\ (8 + 2 * n) > 0
  BY DEF VaultKnown, Counted
<1>23. Laid(BackendFormat(VaultAgeList_To(m)))
  BY <1>18, <1>14, <1>17, <1>19, <1>20, BackendLaid
<1>24. Wide(f1 \o (w1), (24 + 2 * n) - 16) /\ (24 + 2 * n) - 16 = 8 + 2 * n
  BY <1>14, <1>19, WideLays
<1>25. VaultLayout(m) = Layout(f1 \o (w1), 8 + 2 * n, w2)
  BY <1>18, <1>21
<1>26. Laid(HeardFormat(VaultHeard(m)))
  BY <1>2, <1>19, <1>22, <1>24, <1>25, VaultHeardLaid
<1> QED
  BY <1>21, <1>23, <1>26

\* VaultNodeSend.
LEMMA VaultNodeSendLaid ==
  ASSUME NEW m, NEW n \in Nat, m.n = n, m.class = "VaultNodeSend"
  PROVE  Laid(BackendFormat(VaultLayout(m))) /\ Laid(HeardFormat(VaultHeard(m)))
<1> DEFINE f1 == Fixed(VaultNodeSendMembers, <<"nodeid">>)
           f2 == Fixed(VaultNodeSendMembers, <<"player">>)
           w1 == From(At(TRUE, 2), f1) \o From(At(TRUE, 6), f2)
           s1 == {<<"nodeid", 18, 4>>}
           s2 == {<<"player", 22, 4>>}
           s3 == With(s1, s2)
           f3 == Fixed(VaultNodeSendMembers, <<"nodeid", "player">>)
           w2 == Fixed(VaultPassthroughMembers, <<"msgtype">>) \o f3
<1>1. VaultNodeSend(m) = Layout(w2, VaultLength(m), w1)
  BY DEF VaultNodeSend, Vault, Client, ClientStr, Opt
<1>2. VaultLength(m) = 10
  BY DEF VaultLength
<1>3. VaultPassthroughMembers["msgtype"] = 2
  BY DEF VaultPassthroughMembers, UUID
<1>4. 16 \in Nat /\ 2 \in Nat /\ 18 = 16 + 2
  OBVIOUS
<1>5. Lays(Fixed(VaultPassthroughMembers, <<"msgtype">>), 16, {<<"msgtype", 16, 2>>}, 18)
  BY ONLY <1>3, <1>4, LaysFixedOne
<1>6. VaultNodeSendMembers["nodeid"] = 4 /\ VaultNodeSendMembers["player"] = 4
  BY DEF VaultNodeSendMembers, UUID
<1>7. 18 \in Nat /\ 4 \in Nat /\ 22 = 18 + 4 /\ 26 = 22 + 4
  OBVIOUS
<1>8. Lays(f3, 18, s3, 26)
  BY ONLY <1>6, <1>7, LaysFixedTwo
<1>9. Lays(w2, 16, With({<<"msgtype", 16, 2>>}, s3), 26)
  BY <1>5, <1>8, LaysCat
<1>10. VaultNodeSendMembers["nodeid"] = 4
  BY DEF VaultNodeSendMembers, UUID
<1>11. 18 \in Nat /\ 4 \in Nat /\ 22 = 18 + 4
  OBVIOUS
<1>12. Lays(f1, 18, s1, 22)
  BY ONLY <1>10, <1>11, LaysFixedOne
<1>13. At(TRUE, 2) = 18
  BY SendIs DEF At, BufStart, VaultOffset, HEADER
<1>14. Reads(From(18, f1), s1)
  BY <1>12, ReadsFrom
<1>15. Reads(From(At(TRUE, 2), f1), s1)
  BY <1>13, <1>14
<1>16. VaultNodeSendMembers["player"] = 4
  BY DEF VaultNodeSendMembers, UUID
<1>17. 22 \in Nat /\ 4 \in Nat /\ 26 = 22 + 4
  OBVIOUS
<1>18. Lays(f2, 22, s2, 26)
  BY ONLY <1>16, <1>17, LaysFixedOne
<1>19. At(TRUE, 6) = 22
  BY SendIs DEF At, BufStart, VaultOffset, HEADER
<1>20. Reads(From(22, f2), s2)
  BY <1>18, ReadsFrom
<1>21. Reads(From(At(TRUE, 6), f2), s2)
  BY <1>19, <1>20
<1>22. Reads(w1, s3)
  BY <1>15, <1>21, ReadsCat
<1>23. VaultNodeSend(m) = Layout(w2, 10, w1)
  BY <1>1, <1>2
<1>24. 10 \in Nat /\ 26 = 16 + 10
  OBVIOUS
<1>25. Known(s3, With({<<"msgtype", 16, 2>>}, s3), 10)
  BY DEF Known, With
<1>26. VaultLayout(m) = VaultNodeSend(m)
  BY DEF VaultLayout
<1>27. VaultKnown(m) = 2 /\ 2 \in Nat /\ 10 > 0
  BY DEF VaultKnown, Counted
<1>28. Laid(BackendFormat(VaultNodeSend(m)))
  BY <1>23, <1>9, <1>22, <1>24, <1>25, BackendLaid
<1>29. Wide(w2, 26 - 16) /\ 26 - 16 = 10
  BY <1>9, <1>24, WideLays
<1>30. VaultLayout(m) = Layout(w2, 10, w1)
  BY <1>23, <1>26
<1>31. Laid(HeardFormat(VaultHeard(m)))
  BY <1>2, <1>24, <1>27, <1>29, <1>30, VaultHeardLaid
<1> QED
  BY <1>26, <1>28, <1>31

\* VaultSetAgePublic.
LEMMA VaultSetAgePublicLaid ==
  ASSUME NEW m, NEW n \in Nat, m.n = n, m.class = "VaultSetAgePublic"
  PROVE  Laid(BackendFormat(VaultLayout(m))) /\ Laid(HeardFormat(VaultHeard(m)))
<1> DEFINE f1 == Fixed(VaultSetAgePublicMembers, <<"nodeid">>)
           f2 == Fixed(VaultSetAgePublicMembers, <<"public">>)
           w1 == From(At(TRUE, 2), f1) \o From(At(TRUE, 6), f2)
           s1 == {<<"nodeid", 18, 4>>}
           s2 == {<<"public", 22, 1>>}
           s3 == With(s1, s2)
           f3 == Fixed(VaultSetAgePublicMembers, <<"nodeid", "public">>)
           w2 == Fixed(VaultPassthroughMembers, <<"msgtype">>) \o f3
<1>1. VaultSetAgePublic(m) = Layout(w2, VaultLength(m), w1)
  BY DEF VaultSetAgePublic, Vault, Client, ClientStr, Opt
<1>2. VaultLength(m) = 7
  BY DEF VaultLength
<1>3. VaultPassthroughMembers["msgtype"] = 2
  BY DEF VaultPassthroughMembers, UUID
<1>4. 16 \in Nat /\ 2 \in Nat /\ 18 = 16 + 2
  OBVIOUS
<1>5. Lays(Fixed(VaultPassthroughMembers, <<"msgtype">>), 16, {<<"msgtype", 16, 2>>}, 18)
  BY ONLY <1>3, <1>4, LaysFixedOne
<1>6. VaultSetAgePublicMembers["nodeid"] = 4 /\ VaultSetAgePublicMembers["public"] = 1
  BY DEF VaultSetAgePublicMembers, UUID
<1>7. 18 \in Nat /\ 4 \in Nat /\ 22 = 18 + 4 /\ 1 \in Nat /\ 23 = 22 + 1
  OBVIOUS
<1>8. Lays(f3, 18, s3, 23)
  BY ONLY <1>6, <1>7, LaysFixedTwo
<1>9. Lays(w2, 16, With({<<"msgtype", 16, 2>>}, s3), 23)
  BY <1>5, <1>8, LaysCat
<1>10. VaultSetAgePublicMembers["nodeid"] = 4
  BY DEF VaultSetAgePublicMembers, UUID
<1>11. 18 \in Nat /\ 4 \in Nat /\ 22 = 18 + 4
  OBVIOUS
<1>12. Lays(f1, 18, s1, 22)
  BY ONLY <1>10, <1>11, LaysFixedOne
<1>13. At(TRUE, 2) = 18
  BY SendIs DEF At, BufStart, VaultOffset, HEADER
<1>14. Reads(From(18, f1), s1)
  BY <1>12, ReadsFrom
<1>15. Reads(From(At(TRUE, 2), f1), s1)
  BY <1>13, <1>14
<1>16. VaultSetAgePublicMembers["public"] = 1
  BY DEF VaultSetAgePublicMembers, UUID
<1>17. 22 \in Nat /\ 1 \in Nat /\ 23 = 22 + 1
  OBVIOUS
<1>18. Lays(f2, 22, s2, 23)
  BY ONLY <1>16, <1>17, LaysFixedOne
<1>19. At(TRUE, 6) = 22
  BY SendIs DEF At, BufStart, VaultOffset, HEADER
<1>20. Reads(From(22, f2), s2)
  BY <1>18, ReadsFrom
<1>21. Reads(From(At(TRUE, 6), f2), s2)
  BY <1>19, <1>20
<1>22. Reads(w1, s3)
  BY <1>15, <1>21, ReadsCat
<1>23. VaultSetAgePublic(m) = Layout(w2, 7, w1)
  BY <1>1, <1>2
<1>24. 7 \in Nat /\ 23 = 16 + 7
  OBVIOUS
<1>25. Known(s3, With({<<"msgtype", 16, 2>>}, s3), 7)
  BY DEF Known, With
<1>26. VaultLayout(m) = VaultSetAgePublic(m)
  BY DEF VaultLayout
<1>27. VaultKnown(m) = 2 /\ 2 \in Nat /\ 7 > 0
  BY DEF VaultKnown, Counted
<1>28. Laid(BackendFormat(VaultSetAgePublic(m)))
  BY <1>23, <1>9, <1>22, <1>24, <1>25, BackendLaid
<1>29. Wide(w2, 23 - 16) /\ 23 - 16 = 7
  BY <1>9, <1>24, WideLays
<1>30. VaultLayout(m) = Layout(w2, 7, w1)
  BY <1>23, <1>26
<1>31. Laid(HeardFormat(VaultHeard(m)))
  BY <1>2, <1>24, <1>27, <1>29, <1>30, VaultHeardLaid
<1> QED
  BY <1>26, <1>28, <1>31

\* VaultScoreGet_To.
LEMMA VaultScoreGet_ToLaid ==
  ASSUME NEW m, NEW n \in Nat, m.n = n, m.class = "VaultScoreGet_To"
  PROVE  Laid(BackendFormat(VaultLayout(m))) /\ Laid(HeardFormat(VaultHeard(m)))
<1> DEFINE f1 == Fixed(VaultScoreGet_ToMembers, <<"holder">>)
           f2 == Fixed(VaultScoreGet_ToMembers, <<"reqid">>)
           f3 == Str(m, "name", WIDE, 0)
           f4 == Fixed(VaultScoreGet_ToMembers, <<"reqid", "holder">>)
           w1 == Fixed(VaultPassthroughMembers, <<"msgtype">>) \o (f4 \o f3)
           s1 == {<<"name", 26, 2 + 2 * n>>}
           s2 == {<<"holder", 22, 4>>}
           s3 == {<<"reqid", 18, 4>>}
           s4 == With(With(s3, s2), s1)
           w2 == From(At(m.owner, 2), f2) \o From(At(m.owner, 6), f1)
           w3 == w2 \o From(At(m.owner, 10), f3)
<1>1. VaultScoreGet_To(m) = Layout(w1, VaultLength(m), w3)
  BY DEF VaultScoreGet_To, Vault, Client, ClientStr, Opt
<1>2. VaultLength(m) = 12 + 2 * n
  BY DEF VaultLength
<1>3. VaultPassthroughMembers["msgtype"] = 2
  BY DEF VaultPassthroughMembers, UUID
<1>4. 16 \in Nat /\ 2 \in Nat /\ 18 = 16 + 2
  OBVIOUS
<1>5. Lays(Fixed(VaultPassthroughMembers, <<"msgtype">>), 16, {<<"msgtype", 16, 2>>}, 18)
  BY ONLY <1>3, <1>4, LaysFixedOne
<1>6. VaultScoreGet_ToMembers["reqid"] = 4 /\ VaultScoreGet_ToMembers["holder"] = 4
  BY DEF VaultScoreGet_ToMembers, UUID
<1>7. 18 \in Nat /\ 4 \in Nat /\ 22 = 18 + 4 /\ 26 = 22 + 4
  OBVIOUS
<1>8. Lays(f4, 18, With(s3, s2), 26)
  BY ONLY <1>6, <1>7, LaysFixedTwo
<1>9. 26 \in Nat /\ (2 + 2 * n) \in Nat /\ 28 + 2 * n = 26 + (2 + 2 * n)
  OBVIOUS
<1>10. f3 = Buf("name", 2 + 2 * n)
  BY StrIs
<1>11. Lays(Buf("name", 2 + 2 * n), 26, s1, 28 + 2 * n)
  BY <1>9, LaysOne
<1>12. Lays(f3, 26, s1, 28 + 2 * n)
  BY <1>10, <1>11
<1>13. Lays(f4 \o f3, 18, s4, 28 + 2 * n)
  BY <1>8, <1>12, LaysCat
<1>14. Lays(w1, 16, With({<<"msgtype", 16, 2>>}, s4), 28 + 2 * n)
  BY <1>5, <1>13, LaysCat
<1>15. VaultScoreGet_ToMembers["reqid"] = 4
  BY DEF VaultScoreGet_ToMembers, UUID
<1>16. 18 \in Nat /\ 4 \in Nat /\ 22 = 18 + 4
  OBVIOUS
<1>17. Lays(f2, 18, s3, 22)
  BY ONLY <1>15, <1>16, LaysFixedOne
<1>18. At(m.owner, 2) = 18
  BY SendIs DEF At, BufStart, VaultOffset, HEADER
<1>19. Reads(From(18, f2), s3)
  BY <1>17, ReadsFrom
<1>20. Reads(From(At(m.owner, 2), f2), s3)
  BY <1>18, <1>19
<1>21. VaultScoreGet_ToMembers["holder"] = 4
  BY DEF VaultScoreGet_ToMembers, UUID
<1>22. 22 \in Nat /\ 4 \in Nat /\ 26 = 22 + 4
  OBVIOUS
<1>23. Lays(f1, 22, s2, 26)
  BY ONLY <1>21, <1>22, LaysFixedOne
<1>24. At(m.owner, 6) = 22
  BY SendIs DEF At, BufStart, VaultOffset, HEADER
<1>25. Reads(From(22, f1), s2)
  BY <1>23, ReadsFrom
<1>26. Reads(From(At(m.owner, 6), f1), s2)
  BY <1>24, <1>25
<1>27. Reads(w2, With(s3, s2))
  BY <1>20, <1>26, ReadsCat
<1>28. At(m.owner, 10) = 26
  BY SendIs DEF At, BufStart, VaultOffset, HEADER
<1>29. Reads(From(26, f3), s1)
  BY <1>12, ReadsFrom
<1>30. Reads(From(At(m.owner, 10), f3), s1)
  BY <1>28, <1>29
<1>31. Reads(w3, s4)
  BY <1>27, <1>30, ReadsCat
<1>32. VaultScoreGet_To(m) = Layout(w1, 12 + 2 * n, w3)
  BY <1>1, <1>2
<1>33. (12 + 2 * n) \in Nat /\ 28 + 2 * n = 16 + (12 + 2 * n)
  OBVIOUS
<1>34. Known(s4, With({<<"msgtype", 16, 2>>}, s4), 12 + 2 * n)
  BY DEF Known, With
<1>35. VaultLayout(m) = VaultScoreGet_To(m)
  BY DEF VaultLayout
<1>36. VaultKnown(m) = 12 /\ 12 \in Nat /\ (12 + 2 * n) > 0
  BY DEF VaultKnown, Counted
<1>37. Laid(BackendFormat(VaultScoreGet_To(m)))
  BY <1>32, <1>14, <1>31, <1>33, <1>34, BackendLaid
<1>38. Wide(w1, (28 + 2 * n) - 16) /\ (28 + 2 * n) - 16 = 12 + 2 * n
  BY <1>14, <1>33, WideLays
<1>39. VaultLayout(m) = Layout(w1, 12 + 2 * n, w3)
  BY <1>32, <1>35
<1>40. Laid(HeardFormat(VaultHeard(m)))
  BY <1>2, <1>33, <1>36, <1>38, <1>39, VaultHeardLaid
<1> QED
  BY <1>35, <1>37, <1>40

\* VaultScoreCreate.
LEMMA VaultScoreCreateLaid ==
  ASSUME NEW m, NEW n \in Nat, m.n = n, m.class = "VaultScoreCreate", ~m.owner
  PROVE  Laid(BackendFormat(VaultLayout(m))) /\ Laid(HeardFormat(VaultHeard(m)))
<1> DEFINE f1 == Fixed(VaultScoreCreateMembers, <<"holder">>)
           f2 == Fixed(VaultScoreCreateMembers, <<"reqid">>)
           w1 == From(At(m.owner, 2), f2) \o From(At(m.owner, 6), f1)
           f3 == Fixed(VaultScoreCreateMembers, <<"reqid", "holder">>)
           s1 == With({<<"type", 28 + 2 * n, 4>>}, {<<"value", 32 + 2 * n, 4>>})
           s2 == {<<"holder", 22, 4>>}
           s3 == {<<"reqid", 18, 4>>}
           s4 == With(s3, s2)
           s5 == {<<"name", 26, 2 + 2 * n>>}
           s6 == With(s5, s1)
           f4 == Fixed(VaultScoreCreateMembers, <<"type", "value">>)
           w2 == Str(m, "name", WIDE, 0) \o f4
           w3 == Fixed(VaultPassthroughMembers, <<"msgtype">>) \o (f3 \o (w2))
           w4 == From(At(m.owner, 10), Str(m, "name", WIDE, 0))
           off == VaultOffset(m.owner) + 10 + Width(Str(m, "name", WIDE, 0))
           w5 == From(At(m.owner, off), f4)
<1>1. VaultScoreCreate(m) = Layout(w3, VaultLength(m), w1 \o w4 \o w5)
  BY DEF VaultScoreCreate, Vault, Client, ClientStr, Opt
<1>2. VaultLength(m) = 20 + 2 * n
  BY DEF VaultLength
<1>3. VaultPassthroughMembers["msgtype"] = 2
  BY DEF VaultPassthroughMembers, UUID
<1>4. 16 \in Nat /\ 2 \in Nat /\ 18 = 16 + 2
  OBVIOUS
<1>5. Lays(Fixed(VaultPassthroughMembers, <<"msgtype">>), 16, {<<"msgtype", 16, 2>>}, 18)
  BY ONLY <1>3, <1>4, LaysFixedOne
<1>6. VaultScoreCreateMembers["reqid"] = 4 /\ VaultScoreCreateMembers["holder"] = 4
  BY DEF VaultScoreCreateMembers, UUID
<1>7. 18 \in Nat /\ 4 \in Nat /\ 22 = 18 + 4 /\ 26 = 22 + 4
  OBVIOUS
<1>8. Lays(f3, 18, s4, 26)
  BY ONLY <1>6, <1>7, LaysFixedTwo
<1>9. 26 \in Nat /\ (2 + 2 * n) \in Nat /\ 28 + 2 * n = 26 + (2 + 2 * n)
  OBVIOUS
<1>10. Str(m, "name", WIDE, 0) = Buf("name", 2 + 2 * n)
  BY StrIs
<1>11. Lays(Buf("name", 2 + 2 * n), 26, s5, 28 + 2 * n)
  BY <1>9, LaysOne
<1>12. Lays(Str(m, "name", WIDE, 0), 26, s5, 28 + 2 * n)
  BY <1>10, <1>11
<1>13. VaultScoreCreateMembers["type"] = 4 /\ VaultScoreCreateMembers["value"] = 4
  BY DEF VaultScoreCreateMembers, UUID
<1>14. (28 + 2 * n) \in Nat /\ 4 \in Nat /\ 32 + 2 * n = (28 + 2 * n) + 4 /\ 36 + 2 * n
           = (32 + 2 * n) + 4
  OBVIOUS
<1>15. Lays(f4, 28 + 2 * n, s1, 36 + 2 * n)
  BY ONLY <1>13, <1>14, LaysFixedTwo
<1>16. Lays(w2, 26, s6, 36 + 2 * n)
  BY <1>12, <1>15, LaysCat
<1>17. Lays(f3 \o (w2), 18, With(s4, s6), 36 + 2 * n)
  BY <1>8, <1>16, LaysCat
<1>18. Lays(w3, 16, With({<<"msgtype", 16, 2>>}, With(s4, s6)), 36 + 2 * n)
  BY <1>5, <1>17, LaysCat
<1>19. VaultScoreCreateMembers["reqid"] = 4
  BY DEF VaultScoreCreateMembers, UUID
<1>20. 18 \in Nat /\ 4 \in Nat /\ 22 = 18 + 4
  OBVIOUS
<1>21. Lays(f2, 18, s3, 22)
  BY ONLY <1>19, <1>20, LaysFixedOne
<1>22. At(m.owner, 2) = 18
  BY SendIs DEF At, BufStart, VaultOffset, HEADER
<1>23. Reads(From(18, f2), s3)
  BY <1>21, ReadsFrom
<1>24. Reads(From(At(m.owner, 2), f2), s3)
  BY <1>22, <1>23
<1>25. VaultScoreCreateMembers["holder"] = 4
  BY DEF VaultScoreCreateMembers, UUID
<1>26. 22 \in Nat /\ 4 \in Nat /\ 26 = 22 + 4
  OBVIOUS
<1>27. Lays(f1, 22, s2, 26)
  BY ONLY <1>25, <1>26, LaysFixedOne
<1>28. At(m.owner, 6) = 22
  BY SendIs DEF At, BufStart, VaultOffset, HEADER
<1>29. Reads(From(22, f1), s2)
  BY <1>27, ReadsFrom
<1>30. Reads(From(At(m.owner, 6), f1), s2)
  BY <1>28, <1>29
<1>31. Reads(w1, s4)
  BY <1>24, <1>30, ReadsCat
<1>32. At(m.owner, 10) = 26
  BY SendIs DEF At, BufStart, VaultOffset, HEADER
<1>33. Reads(From(26, Str(m, "name", WIDE, 0)), s5)
  BY <1>12, ReadsFrom
<1>34. Reads(w4, s5)
  BY <1>32, <1>33
<1>35. Reads(w1 \o w4, With(s4, s5))
  BY <1>31, <1>34, ReadsCat
<1>45. At(m.owner, off) = 28 + 2 * n
  <2>1. Width(Str(m, "name", WIDE, 0)) = 2 + 2 * n
    BY <1>9, <1>10, OneField
  <2>2. VaultOffset(m.owner) = 0 /\ BufStart(m.owner) = 16
    BY DEF VaultOffset, BufStart, HEADER
  <2> QED
    BY <2>1, <2>2 DEF At
<1>46. Reads(From(28 + 2 * n, f4), s1)
  BY <1>15, ReadsFrom
<1>47. Reads(w5, s1)
  BY <1>45, <1>46
<1>48. Reads(w1 \o w4 \o w5, With(With(s4, s5), s1))
  BY <1>35, <1>47, ReadsCat
<1>36. VaultScoreCreate(m) = Layout(w3, 20 + 2 * n, w1 \o w4 \o w5)
  BY <1>1, <1>2
<1>37. (20 + 2 * n) \in Nat /\ 36 + 2 * n = 16 + (20 + 2 * n)
  OBVIOUS
<1>38. Known(With(With(s4, s5), s1),
           With({<<"msgtype", 16, 2>>}, With(s4, s6)), 20 + 2 * n)
  BY DEF Known, With
<1>39. VaultLayout(m) = VaultScoreCreate(m)
  BY DEF VaultLayout
<1>40. VaultKnown(m) = 12 /\ 12 \in Nat /\ (20 + 2 * n) > 0
  BY DEF VaultKnown, Counted
<1>41. Laid(BackendFormat(VaultScoreCreate(m)))
  BY <1>36, <1>18, <1>48, <1>37, <1>38, BackendLaid
<1>42. Wide(w3, (36 + 2 * n) - 16) /\ (36 + 2 * n) - 16 = 20 + 2 * n
  BY <1>18, <1>37, WideLays
<1>43. VaultLayout(m) = Layout(w3, 20 + 2 * n, w1 \o w4 \o w5)
  BY <1>36, <1>39
<1>44. Laid(HeardFormat(VaultHeard(m)))
  BY <1>2, <1>37, <1>40, <1>42, <1>43, VaultHeardLaid
<1> QED
  BY <1>39, <1>41, <1>44

\* VaultScoreAddPoints.
LEMMA VaultScoreAddPointsLaid ==
  ASSUME NEW m, NEW n \in Nat, m.n = n, m.class = "VaultScoreAddPoints"
  PROVE  Laid(BackendFormat(VaultLayout(m))) /\ Laid(HeardFormat(VaultHeard(m)))
<1> DEFINE f1 == Fixed(VaultScoreAddPointsMembers, <<"reqid", "scoreid", "delta">>)
           s1 == With(With({<<"reqid", 18, 4>>}, {<<"scoreid", 22, 4>>}), {<<"delta", 26,
               4>>})
           f2 == Fixed(VaultPassthroughMembers, <<"msgtype">>)
           w1 == From(At(TRUE, 2), f1)
<1>1. VaultScoreAddPoints(m) = Layout(f2 \o f1, VaultLength(m), w1)
  BY DEF VaultScoreAddPoints, Vault, Client, ClientStr, Opt
<1>2. VaultLength(m) = 14
  BY DEF VaultLength
<1>3. VaultPassthroughMembers["msgtype"] = 2
  BY DEF VaultPassthroughMembers, UUID
<1>4. 16 \in Nat /\ 2 \in Nat /\ 18 = 16 + 2
  OBVIOUS
<1>5. Lays(f2, 16, {<<"msgtype", 16, 2>>}, 18)
  BY ONLY <1>3, <1>4, LaysFixedOne
<1>6. VaultScoreAddPointsMembers["reqid"] = 4 /\ VaultScoreAddPointsMembers["scoreid"] = 4
          /\ VaultScoreAddPointsMembers["delta"] = 4
  BY DEF VaultScoreAddPointsMembers, UUID
<1>7. 18 \in Nat /\ 4 \in Nat /\ 22 = 18 + 4 /\ 26 = 22 + 4 /\ 30 = 26 + 4
  OBVIOUS
<1>8. Lays(f1, 18, s1, 30)
  BY ONLY <1>6, <1>7, LaysFixedThree
<1>9. Lays(f2 \o f1, 16, With({<<"msgtype", 16, 2>>}, s1), 30)
  BY <1>5, <1>8, LaysCat
<1>10. At(TRUE, 2) = 18
  BY SendIs DEF At, BufStart, VaultOffset, HEADER
<1>11. Reads(From(18, f1), s1)
  BY <1>8, ReadsFrom
<1>12. Reads(w1, s1)
  BY <1>10, <1>11
<1>13. VaultScoreAddPoints(m) = Layout(f2 \o f1, 14, w1)
  BY <1>1, <1>2
<1>14. 14 \in Nat /\ 30 = 16 + 14
  OBVIOUS
<1>15. Known(s1, With({<<"msgtype", 16, 2>>}, s1), 14)
  BY DEF Known, With
<1>16. VaultLayout(m) = VaultScoreAddPoints(m)
  BY DEF VaultLayout
<1>17. VaultKnown(m) = 2 /\ 2 \in Nat /\ 14 > 0
  BY DEF VaultKnown, Counted
<1>18. Laid(BackendFormat(VaultScoreAddPoints(m)))
  BY <1>13, <1>9, <1>12, <1>14, <1>15, BackendLaid
<1>19. Wide(f2 \o f1, 30 - 16) /\ 30 - 16 = 14
  BY <1>9, <1>14, WideLays
<1>20. VaultLayout(m) = Layout(f2 \o f1, 14, w1)
  BY <1>13, <1>16
<1>21. Laid(HeardFormat(VaultHeard(m)))
  BY <1>2, <1>14, <1>17, <1>19, <1>20, VaultHeardLaid
<1> QED
  BY <1>16, <1>18, <1>21

\* VaultScoreXferPoints.
LEMMA VaultScoreXferPointsLaid ==
  ASSUME NEW m, NEW n \in Nat, m.n = n, m.class = "VaultScoreXferPoints"
  PROVE  Laid(BackendFormat(VaultLayout(m))) /\ Laid(HeardFormat(VaultHeard(m)))
<1> DEFINE f1 == Fixed(VaultScoreXferPointsMembers, <<"reqid", "scoreid", "destid",
    "delta">>)
           s1 == With(With(With({<<"reqid", 18, 4>>}, {<<"scoreid", 22, 4>>}), {<<"destid",
               26, 4>>}), {<<"delta", 30, 4>>})
           f2 == Fixed(VaultPassthroughMembers, <<"msgtype">>)
           w1 == From(At(TRUE, 2), f1)
<1>1. VaultScoreXferPoints(m) = Layout(f2 \o f1, VaultLength(m), w1)
  BY DEF VaultScoreXferPoints, Vault, Client, ClientStr, Opt
<1>2. VaultLength(m) = 18
  BY DEF VaultLength
<1>3. VaultPassthroughMembers["msgtype"] = 2
  BY DEF VaultPassthroughMembers, UUID
<1>4. 16 \in Nat /\ 2 \in Nat /\ 18 = 16 + 2
  OBVIOUS
<1>5. Lays(f2, 16, {<<"msgtype", 16, 2>>}, 18)
  BY ONLY <1>3, <1>4, LaysFixedOne
<1>6. VaultScoreXferPointsMembers["reqid"] = 4 /\ VaultScoreXferPointsMembers["scoreid"]
          = 4 /\ VaultScoreXferPointsMembers["destid"] = 4
          /\ VaultScoreXferPointsMembers["delta"] = 4
  BY DEF VaultScoreXferPointsMembers, UUID
<1>7. 18 \in Nat /\ 4 \in Nat /\ 22 = 18 + 4 /\ 26 = 22 + 4 /\ 30 = 26 + 4 /\ 34 = 30 + 4
  OBVIOUS
<1>8. Lays(f1, 18, s1, 34)
  BY ONLY <1>6, <1>7, LaysFixedFour
<1>9. Lays(f2 \o f1, 16, With({<<"msgtype", 16, 2>>}, s1), 34)
  BY <1>5, <1>8, LaysCat
<1>10. At(TRUE, 2) = 18
  BY SendIs DEF At, BufStart, VaultOffset, HEADER
<1>11. Reads(From(18, f1), s1)
  BY <1>8, ReadsFrom
<1>12. Reads(w1, s1)
  BY <1>10, <1>11
<1>13. VaultScoreXferPoints(m) = Layout(f2 \o f1, 18, w1)
  BY <1>1, <1>2
<1>14. 18 \in Nat /\ 34 = 16 + 18
  OBVIOUS
<1>15. Known(s1, With({<<"msgtype", 16, 2>>}, s1), 18)
  BY DEF Known, With
<1>16. VaultLayout(m) = VaultScoreXferPoints(m)
  BY DEF VaultLayout
<1>17. VaultKnown(m) = 2 /\ 2 \in Nat /\ 18 > 0
  BY DEF VaultKnown, Counted
<1>18. Laid(BackendFormat(VaultScoreXferPoints(m)))
  BY <1>13, <1>9, <1>12, <1>14, <1>15, BackendLaid
<1>19. Wide(f2 \o f1, 34 - 16) /\ 34 - 16 = 18
  BY <1>9, <1>14, WideLays
<1>20. VaultLayout(m) = Layout(f2 \o f1, 18, w1)
  BY <1>13, <1>16
<1>21. Laid(HeardFormat(VaultHeard(m)))
  BY <1>2, <1>14, <1>17, <1>19, <1>20, VaultHeardLaid
<1> QED
  BY <1>16, <1>18, <1>21

\* VaultPassthrough.
LEMMA VaultPassthroughLaid ==
  ASSUME NEW m, NEW n \in Nat, m.n = n, ~m.owner
  PROVE  Laid(BackendFormat(VaultPassthrough(m))) /\ Laid(AnswerIs(VaultPassthrough(m)))
<1> DEFINE w1 == Fixed(VaultPassthroughMembers, <<"msgtype">>) \o Buf("contents", m.n)
           s1 == {<<"contents", 18, n>>}
<1>1. VaultPassthrough(m) = Layout(w1, 2 + m.n, <<<<"msgtype", BufStart(m.owner), 2>>,
          <<"whole", At(m.owner, 0), 2 + m.n>>>>)
  BY DEF VaultPassthrough, Client, Opt, Body, NodeLen
<1>2. At(m.owner, 0) = 16 /\ BufStart(m.owner) = 16
  BY DEF At, BufStart, VaultOffset, HEADER
<1>3. VaultPassthroughMembers["msgtype"] = 2
  BY DEF VaultPassthroughMembers, UUID
<1>4. 16 \in Nat /\ 2 \in Nat /\ 18 = 16 + 2
  OBVIOUS
<1>5. Lays(Fixed(VaultPassthroughMembers, <<"msgtype">>), 16, {<<"msgtype", 16, 2>>}, 18)
  BY ONLY <1>3, <1>4, LaysFixedOne
<1>6. 18 \in Nat /\ n \in Nat /\ 18 + n = 18 + n
  OBVIOUS
<1>7. m.n = n
  BY SendIs DEF UUID, HEADER
<1>8. Lays(Buf("contents", n), 18, s1, 18 + n)
  BY <1>6, LaysOne
<1>9. Lays(Buf("contents", m.n), 18, s1, 18 + n)
  BY <1>7, <1>8
<1>10. Lays(w1, 16, With({<<"msgtype", 16, 2>>}, s1), 18 + n)
  BY <1>5, <1>9, LaysCat
<1>11. 2 + m.n = 2 + n
  BY SendIs DEF UUID, HEADER
<1>12. Reads(<<<<"msgtype", 16, 2>>, <<"whole", 16, 2 + n>>>>,
           With({<<"msgtype", 16, 2>>}, {<<"whole", 16, 2 + n>>}))
  BY ReadsTwo
<1>13. Reads(<<<<"msgtype", BufStart(m.owner), 2>>,
          <<"whole", At(m.owner, 0), 2 + m.n>>>>,
           With({<<"msgtype", 16, 2>>}, {<<"whole", 16, 2 + n>>}))
  BY <1>2, <1>11, <1>12
<1>14. VaultPassthrough(m) = Layout(w1, 2 + n, <<<<"msgtype", BufStart(m.owner), 2>>,
          <<"whole", At(m.owner, 0), 2 + m.n>>>>)
  BY <1>1, <1>11
<1>15. (2 + n) \in Nat /\ 18 + n = 16 + (2 + n)
  OBVIOUS
<1>16. Known(With({<<"msgtype", 16, 2>>}, {<<"whole", 16, 2 + n>>}),
           With({<<"msgtype", 16, 2>>}, s1), 2 + n)
  BY DEF Known, With
<1>17. Laid(BackendFormat(VaultPassthrough(m)))
  BY <1>14, <1>10, <1>13, <1>15, <1>16, BackendLaid
<1>18. Wide(w1, (18 + n) - 16) /\ (18 + n) - 16 = 2 + n /\ (2 + n) > 0
  BY <1>10, WideLays
<1>19. Laid(AnswerIs(VaultPassthrough(m)))
  BY <1>14, <1>18, AnswerLaid
<1> QED
  BY <1>17, <1>19

\* VaultNodeFetch_From, in its long form.
LEMMA VaultNodeFetch_FromLongLaid ==
  ASSUME NEW m, NEW n \in Nat, m.n = n, m.long, ~m.owner
  PROVE  Laid(BackendFormat(VaultNodeFetch_From(m))) /\ Laid(AnswerIs(VaultNodeFetch_From(m)))
<1> DEFINE f1 == Fixed(VaultNodeFetch_FromMembers, <<"reqid", "result">>)
           w1 == Fixed(VaultPassthroughMembers, <<"msgtype">>) \o (f1 \o Buf("node",
               (4 + m.n)))
           s1 == With({<<"reqid", 18, 4>>}, {<<"result", 22, 4>>})
           s2 == With(s1, {<<"node", 26, 4 + n>>})
           s3 == {<<"whole", 16, 14 + n>>}
<1>1. VaultNodeFetch_From(m) = Layout(w1, 10 + (4 + m.n), <<<<"msgtype", BufStart(m.owner), 2>>,
          <<"whole", At(m.owner, 0),
          10 + (4 + m.n)>>>>)
  BY DEF VaultNodeFetch_From, Client, Opt, Body, NodeLen
<1>2. At(m.owner, 0) = 16 /\ BufStart(m.owner) = 16
  BY DEF At, BufStart, VaultOffset, HEADER
<1>3. VaultPassthroughMembers["msgtype"] = 2
  BY DEF VaultPassthroughMembers, UUID
<1>4. 16 \in Nat /\ 2 \in Nat /\ 18 = 16 + 2
  OBVIOUS
<1>5. Lays(Fixed(VaultPassthroughMembers, <<"msgtype">>), 16, {<<"msgtype", 16, 2>>}, 18)
  BY ONLY <1>3, <1>4, LaysFixedOne
<1>6. VaultNodeFetch_FromMembers["reqid"] = 4 /\ VaultNodeFetch_FromMembers["result"] = 4
  BY DEF VaultNodeFetch_FromMembers, UUID
<1>7. 18 \in Nat /\ 4 \in Nat /\ 22 = 18 + 4 /\ 26 = 22 + 4
  OBVIOUS
<1>8. Lays(f1, 18, s1, 26)
  BY ONLY <1>6, <1>7, LaysFixedTwo
<1>9. 26 \in Nat /\ (4 + n) \in Nat /\ 30 + n = 26 + (4 + n)
  OBVIOUS
<1>10. (4 + m.n) = 4 + n
  BY SendIs DEF UUID, HEADER
<1>11. Lays(Buf("node", 4 + n), 26, {<<"node", 26, 4 + n>>}, 30 + n)
  BY <1>9, LaysOne
<1>12. Lays(Buf("node", (4 + m.n)), 26, {<<"node", 26, 4 + n>>}, 30 + n)
  BY <1>10, <1>11
<1>13. Lays(f1 \o Buf("node", (4 + m.n)), 18, s2, 30 + n)
  BY <1>8, <1>12, LaysCat
<1>14. Lays(w1, 16, With({<<"msgtype", 16, 2>>}, s2), 30 + n)
  BY <1>5, <1>13, LaysCat
<1>15. 10 + (4 + m.n) = 14 + n
  BY SendIs DEF UUID, HEADER
<1>16. Reads(<<<<"msgtype", 16, 2>>, <<"whole", 16, 14 + n>>>>,
           With({<<"msgtype", 16, 2>>}, s3))
  BY ReadsTwo
<1>17. Reads(<<<<"msgtype", BufStart(m.owner), 2>>,
          <<"whole", At(m.owner, 0), 10 + (4 + m.n)>>>>,
           With({<<"msgtype", 16, 2>>}, s3))
  BY <1>2, <1>15, <1>16
<1>18. VaultNodeFetch_From(m) = Layout(w1, 14 + n, <<<<"msgtype", BufStart(m.owner), 2>>,
          <<"whole", At(m.owner, 0),
           10 + (4 + m.n)>>>>)
  BY <1>1, <1>15
<1>19. (14 + n) \in Nat /\ 30 + n = 16 + (14 + n)
  OBVIOUS
<1>20. Known(With({<<"msgtype", 16, 2>>}, s3),
           With({<<"msgtype", 16, 2>>}, s2), 14 + n)
  BY DEF Known, With
<1>21. Laid(BackendFormat(VaultNodeFetch_From(m)))
  BY <1>18, <1>14, <1>17, <1>19, <1>20, BackendLaid
<1>22. Wide(w1, (30 + n) - 16) /\ (30 + n) - 16 = 14 + n /\ (14 + n) > 0
  BY <1>14, WideLays
<1>23. Laid(AnswerIs(VaultNodeFetch_From(m)))
  BY <1>18, <1>22, AnswerLaid
<1> QED
  BY <1>21, <1>23

\* VaultNodeFetch_From, in its short form.
LEMMA VaultNodeFetch_FromShortLaid ==
  ASSUME NEW m, NEW n \in Nat, m.n = n, ~m.long, ~m.owner
  PROVE  Laid(BackendFormat(VaultNodeFetch_From(m))) /\ Laid(AnswerIs(VaultNodeFetch_From(m)))
<1> DEFINE f1 == Fixed(VaultNodeFetch_FromMembers, <<"reqid", "result">>)
           w1 == Fixed(VaultPassthroughMembers, <<"msgtype">>) \o (f1 \o Buf("node", 4))
           s1 == With({<<"reqid", 18, 4>>}, {<<"result", 22, 4>>})
           s2 == With(s1, {<<"node", 26, 4>>})
<1>1. VaultNodeFetch_From(m) = Layout(w1, 14, <<<<"msgtype", BufStart(m.owner), 2>>,
          <<"whole", At(m.owner, 0), 14>>>>)
  BY DEF VaultNodeFetch_From, Client, Opt, Body, NodeLen
<1>2. At(m.owner, 0) = 16 /\ BufStart(m.owner) = 16
  BY DEF At, BufStart, VaultOffset, HEADER
<1>3. VaultPassthroughMembers["msgtype"] = 2
  BY DEF VaultPassthroughMembers, UUID
<1>4. 16 \in Nat /\ 2 \in Nat /\ 18 = 16 + 2
  OBVIOUS
<1>5. Lays(Fixed(VaultPassthroughMembers, <<"msgtype">>), 16, {<<"msgtype", 16, 2>>}, 18)
  BY ONLY <1>3, <1>4, LaysFixedOne
<1>6. VaultNodeFetch_FromMembers["reqid"] = 4 /\ VaultNodeFetch_FromMembers["result"] = 4
  BY DEF VaultNodeFetch_FromMembers, UUID
<1>7. 18 \in Nat /\ 4 \in Nat /\ 22 = 18 + 4 /\ 26 = 22 + 4
  OBVIOUS
<1>8. Lays(f1, 18, s1, 26)
  BY ONLY <1>6, <1>7, LaysFixedTwo
<1>9. 26 \in Nat /\ 4 \in Nat /\ 30 = 26 + 4
  OBVIOUS
<1>10. Lays(Buf("node", 4), 26, {<<"node", 26, 4>>}, 30)
  BY <1>9, LaysOne
<1>11. Lays(f1 \o Buf("node", 4), 18, s2, 30)
  BY <1>8, <1>10, LaysCat
<1>12. Lays(w1, 16, With({<<"msgtype", 16, 2>>}, s2), 30)
  BY <1>5, <1>11, LaysCat
<1>13. Reads(<<<<"msgtype", 16, 2>>, <<"whole", 16, 14>>>>,
           With({<<"msgtype", 16, 2>>}, {<<"whole", 16, 14>>}))
  BY ReadsTwo
<1>14. Reads(<<<<"msgtype", BufStart(m.owner), 2>>,
          <<"whole", At(m.owner, 0), 14>>>>,
           With({<<"msgtype", 16, 2>>}, {<<"whole", 16, 14>>}))
  BY <1>2, <1>13
<1>15. 14 \in Nat /\ 30 = 16 + 14
  OBVIOUS
<1>16. Known(With({<<"msgtype", 16, 2>>}, {<<"whole", 16, 14>>}),
           With({<<"msgtype", 16, 2>>}, s2), 14)
  BY DEF Known, With
<1>17. Laid(BackendFormat(VaultNodeFetch_From(m)))
  BY <1>1, <1>12, <1>14, <1>15, <1>16, BackendLaid
<1>18. Wide(w1, 30 - 16) /\ 30 - 16 = 14 /\ 14 > 0
  BY <1>12, WideLays
<1>19. Laid(AnswerIs(VaultNodeFetch_From(m)))
  BY <1>1, <1>18, AnswerLaid
<1> QED
  BY <1>17, <1>19

\* VaultScoreGet_From, in its long form.
LEMMA VaultScoreGet_FromLongLaid ==
  ASSUME NEW m, NEW n \in Nat, m.n = n, m.long, ~m.owner
  PROVE  Laid(BackendFormat(VaultScoreGet_From(m))) /\ Laid(AnswerIs(VaultScoreGet_From(m)))
<1> DEFINE s1 == With(With(With({<<"reqid", 18, 4>>}, {<<"result", 22, 4>>}), {<<"code",
    26, 4>>}), {<<"msglen", 30, 4>>})
           f1 == Fixed(VaultScoreGet_FromMembers, <<"reqid", "result", "code", "msglen">>)
           w1 == Fixed(VaultPassthroughMembers, <<"msgtype">>) \o (f1 \o Buf("score",
               24 + 2 * (m.n + 1)))
           s2 == {<<"score", 34, 26 + 2 * n>>}
           s3 == {<<"whole", 16, 44 + 2 * n>>}
<1>1. VaultScoreGet_From(m) = Layout(w1, 18 + (24 + 2 * (m.n + 1)), <<<<"msgtype", BufStart(m.owner), 2>>,
          <<"whole", At(m.owner, 0), 18 + (24 + 2 * (m.n + 1))>>>>)
  BY DEF VaultScoreGet_From, Client, Opt, Body, NodeLen
<1>2. At(m.owner, 0) = 16 /\ BufStart(m.owner) = 16
  BY DEF At, BufStart, VaultOffset, HEADER
<1>3. 24 + 2 * (m.n + 1) = 26 + 2 * n
  OBVIOUS
<1>4. 18 + (24 + 2 * (m.n + 1)) = 44 + 2 * n
  OBVIOUS
<1>5. VaultPassthroughMembers["msgtype"] = 2
  BY DEF VaultPassthroughMembers, UUID
<1>6. 16 \in Nat /\ 2 \in Nat /\ 18 = 16 + 2
  OBVIOUS
<1>7. Lays(Fixed(VaultPassthroughMembers, <<"msgtype">>), 16, {<<"msgtype", 16, 2>>}, 18)
  BY ONLY <1>5, <1>6, LaysFixedOne
<1>8. VaultScoreGet_FromMembers["reqid"] = 4 /\ VaultScoreGet_FromMembers["result"] = 4
          /\ VaultScoreGet_FromMembers["code"] = 4 /\ VaultScoreGet_FromMembers["msglen"]
          = 4
  BY DEF VaultScoreGet_FromMembers, UUID
<1>9. 18 \in Nat /\ 4 \in Nat /\ 22 = 18 + 4 /\ 26 = 22 + 4 /\ 30 = 26 + 4 /\ 34 = 30 + 4
  OBVIOUS
<1>10. Lays(f1, 18, s1, 34)
  BY ONLY <1>8, <1>9, LaysFixedFour
<1>11. 34 \in Nat /\ (26 + 2 * n) \in Nat /\ 60 + 2 * n = 34 + (26 + 2 * n)
  OBVIOUS
<1>12. Lays(Buf("score", 26 + 2 * n), 34, s2, 60 + 2 * n)
  BY <1>11, LaysOne
<1>13. Lays(Buf("score", 24 + 2 * (m.n + 1)), 34, s2, 60 + 2 * n)
  BY <1>3, <1>12
<1>14. Lays(f1 \o Buf("score", 24 + 2 * (m.n + 1)), 18, With(s1, s2), 60 + 2 * n)
  BY <1>10, <1>13, LaysCat
<1>15. Lays(w1, 16, With({<<"msgtype", 16, 2>>}, With(s1, s2)), 60 + 2 * n)
  BY <1>7, <1>14, LaysCat
<1>16. Reads(<<<<"msgtype", 16, 2>>, <<"whole", 16, 44 + 2 * n>>>>,
           With({<<"msgtype", 16, 2>>}, s3))
  BY ReadsTwo
<1>17. Reads(<<<<"msgtype", BufStart(m.owner), 2>>,
          <<"whole", At(m.owner, 0), 18 + (24 + 2 * (m.n + 1))>>>>,
           With({<<"msgtype", 16, 2>>}, s3))
  BY <1>2, <1>4, <1>16
<1>18. VaultScoreGet_From(m) = Layout(w1, 44 + 2 * n, <<<<"msgtype", BufStart(m.owner), 2>>,
          <<"whole", At(m.owner, 0),
           18 + (24 + 2 * (m.n + 1))>>>>)
  BY <1>1, <1>4
<1>19. (44 + 2 * n) \in Nat /\ 60 + 2 * n = 16 + (44 + 2 * n)
  OBVIOUS
<1>20. Known(With({<<"msgtype", 16, 2>>}, s3),
           With({<<"msgtype", 16, 2>>}, With(s1, s2)), 44 + 2 * n)
  BY DEF Known, With
<1>21. Laid(BackendFormat(VaultScoreGet_From(m)))
  BY <1>18, <1>15, <1>17, <1>19, <1>20, BackendLaid
<1>22. Wide(w1, (60 + 2 * n) - 16) /\ (60 + 2 * n) - 16 = 44 + 2 * n /\ (44 + 2 * n) > 0
  BY <1>15, WideLays
<1>23. Laid(AnswerIs(VaultScoreGet_From(m)))
  BY <1>18, <1>22, AnswerLaid
<1> QED
  BY <1>21, <1>23

\* VaultScoreGet_From, in its short form.
LEMMA VaultScoreGet_FromShortLaid ==
  ASSUME NEW m, NEW n \in Nat, m.n = n, ~m.long, ~m.owner
  PROVE  Laid(BackendFormat(VaultScoreGet_From(m))) /\ Laid(AnswerIs(VaultScoreGet_From(m)))
<1> DEFINE s1 == With(With(With({<<"reqid", 18, 4>>}, {<<"result", 22, 4>>}), {<<"code",
    26, 4>>}), {<<"msglen", 30, 4>>})
           f1 == Fixed(VaultScoreGet_FromMembers, <<"reqid", "result", "code", "msglen">>)
           f2 == Fixed(VaultPassthroughMembers, <<"msgtype">>)
<1>1. VaultScoreGet_From(m) = Layout(f2 \o (f1 \o <<>>), 18, <<<<"msgtype", BufStart(m.owner), 2>>,
          <<"whole", At(m.owner, 0),
          18>>>>)
  BY DEF VaultScoreGet_From, Client, Opt, Body, NodeLen
<1>2. At(m.owner, 0) = 16 /\ BufStart(m.owner) = 16
  BY DEF At, BufStart, VaultOffset, HEADER
<1>3. VaultPassthroughMembers["msgtype"] = 2
  BY DEF VaultPassthroughMembers, UUID
<1>4. 16 \in Nat /\ 2 \in Nat /\ 18 = 16 + 2
  OBVIOUS
<1>5. Lays(f2, 16, {<<"msgtype", 16, 2>>}, 18)
  BY ONLY <1>3, <1>4, LaysFixedOne
<1>6. VaultScoreGet_FromMembers["reqid"] = 4 /\ VaultScoreGet_FromMembers["result"] = 4
          /\ VaultScoreGet_FromMembers["code"] = 4 /\ VaultScoreGet_FromMembers["msglen"]
          = 4
  BY DEF VaultScoreGet_FromMembers, UUID
<1>7. 18 \in Nat /\ 4 \in Nat /\ 22 = 18 + 4 /\ 26 = 22 + 4 /\ 30 = 26 + 4 /\ 34 = 30 + 4
  OBVIOUS
<1>8. Lays(f1, 18, s1, 34)
  BY ONLY <1>6, <1>7, LaysFixedFour
<1>9. 34 \in Nat
  OBVIOUS
<1>10. Lays(<<>>, 34, {}, 34)
  BY <1>9, LaysNone
<1>11. Lays(f1 \o <<>>, 18, With(s1, {}), 34)
  BY <1>8, <1>10, LaysCat
<1>12. Lays(f2 \o (f1 \o <<>>), 16, With({<<"msgtype", 16, 2>>}, With(s1, {})), 34)
  BY <1>5, <1>11, LaysCat
<1>13. Reads(<<<<"msgtype", 16, 2>>, <<"whole", 16, 18>>>>,
           With({<<"msgtype", 16, 2>>}, {<<"whole", 16, 18>>}))
  BY ReadsTwo
<1>14. Reads(<<<<"msgtype", BufStart(m.owner), 2>>,
          <<"whole", At(m.owner, 0), 18>>>>,
           With({<<"msgtype", 16, 2>>}, {<<"whole", 16, 18>>}))
  BY <1>2, <1>13
<1>15. 18 \in Nat /\ 34 = 16 + 18
  OBVIOUS
<1>16. Known(With({<<"msgtype", 16, 2>>}, {<<"whole", 16, 18>>}),
           With({<<"msgtype", 16, 2>>}, With(s1, {})), 18)
  BY DEF Known, With
<1>17. Laid(BackendFormat(VaultScoreGet_From(m)))
  BY <1>1, <1>12, <1>14, <1>15, <1>16, BackendLaid
<1>18. Wide(f2 \o (f1 \o <<>>), 34 - 16) /\ 34 - 16 = 18 /\ 18 > 0
  BY <1>12, WideLays
<1>19. Laid(AnswerIs(VaultScoreGet_From(m)))
  BY <1>1, <1>18, AnswerLaid
<1> QED
  BY <1>17, <1>19

-----------------------------------------------------------------------------
(***************************************************************************)
(* The classes between a server and a client.                              *)
(***************************************************************************)

\* The type in front of a message to a client or from it.
LEMMA TypeIs == Type = Buf("type", 2)
BY DEF Type, Buf

\* The number of the request.
LEMMA ReqidIs == Reqid = Buf("reqid", 4)
BY DEF Reqid, Buf

\* Bytes that nothing is in.
LEMMA BlankIs ==
  ASSUME NEW w
  PROVE  Blank(w) = Buf("blank", w)
BY DEF Blank, Buf

\* A string in a field of its own, when it is no longer than that.
LEMMA InFieldIs ==
  ASSUME NEW m, NEW n \in Nat, m.n = n, NEW name, NEW size \in Nat, 2 * n + 2 <= size
  PROVE  Wide(InField(m, name, size), size)
<1> DEFINE a == Buf(name, 2 * n + 2)
           b == Buf("nulls", size - (2 * n + 2))
           c == InField(m, name, size)
<1>1. 2 * n + 2 \in Nat /\ size - (2 * n + 2) \in Nat /\ size
          = (2 * n + 2) + (size - (2 * n + 2))
  OBVIOUS
<1>2. c = <<<<name, 2 * n + 2>>, <<"nulls", size - (2 * n + 2)>>>>
  <2>1. WIDE * (m.n + 1) = 2 * n + 2
    BY DEF WIDE
  <2> QED
    BY <2>1 DEF InField
<1>3. Wide(a, 2 * n + 2) /\ Wide(b, size - (2 * n + 2))
  BY <1>1, WideOne
<1>4. Wide(a \o b, size)
  <2> HIDE DEF a, b
  <2> DEFINE k == 2 * n + 2
  <2>1. k \in Nat /\ size = k + (size - k) /\ k = 0 + k /\ 0 \in Nat
    BY <1>1
  <2> HIDE DEF k
  <2>2. Wide(a, k) /\ Wide(b, size - k)
    BY <1>3 DEF k
  <2>3. Spans(a, 0, k)
    BY ONLY <2>1, <2>2, WideSpans
  <2>4. Spans(b, k, size)
    BY ONLY <2>1, <2>2, WideSpans
  <2>5. Spans(a \o b, 0, size)
    BY ONLY <2>3, <2>4, SpansCat
  <2> QED
    BY <2>5, SpansWide
<1>5. a \o b = c
  <2>1. Len(a) = 1 /\ a = [i \in 1..1 |-> a[i]] /\ a[1] = <<name, 2 * n + 2>>
    BY DEF Buf
  <2>2. Len(b) = 1 /\ b = [i \in 1..1 |-> b[i]] /\ b[1] = <<"nulls", size - (2 * n + 2)>>
    BY DEF Buf
  <2> HIDE DEF a, b
  <2> DEFINE d == a \o b
  <2>3. /\ d = [i \in 1..(1 + 1) |-> d[i]]
        /\ \A i \in 1..1 : d[i] = a[i]
        /\ \A i \in 1..1 : d[1 + i] = b[i]
    BY <2>1, <2>2, JoinIs
  <2> HIDE DEF d
  <2>4. d = [i \in 1..2 |-> d[i]] /\ d[1] = <<name, 2 * n + 2>> /\ d[2] = <<"nulls",
      size - (2 * n + 2)>>
    BY <2>1, <2>2, <2>3
  <2>5. c = [i \in 1..2 |-> c[i]] /\ c[1] = <<name, 2 * n + 2>> /\ c[2] = <<"nulls",
      size - (2 * n + 2)>>
    BY <1>2
  <2> HIDE DEF c
  <2>6. \A i \in 1..2 : c[i] = d[i]
    BY <2>4, <2>5
  <2>7. c = d
    BY <2>4, <2>5, <2>6
  <2> QED
    BY <2>7 DEF d
<1> QED
  BY <1>4, <1>5

\* The key of an object.
LEMMA KeyIs == KEY = 1 /\ 1 + KEY = 2
BY DEF KEY

\* AuthPing.
LEMMA AuthPingLaid ==
  ASSUME NEW m, NEW n \in Nat, m.n = n
  PROVE  Laid(HeardFormat(AuthPing(m)))
<1>1. AuthPing(m) = Heard(Type \o Buf("ping", 12), 14, 2, 2)
  BY DEF AuthPing
<1>2. 0 \in Nat /\ 2 \in Nat /\ 2 = 0 + 2
  OBVIOUS
<1>3. Type = Buf("type", 2)
  BY TypeIs
<1>4. Spans(Buf("type", 2), 0, 2)
  BY ONLY <1>2, SpansOne
<1>5. Spans(Type, 0, 2)
  BY ONLY <1>3, <1>4
<1>6. 2 \in Nat /\ 12 \in Nat /\ 14 = 2 + 12
  OBVIOUS
<1>7. Spans(Buf("ping", 12), 2, 14)
  BY ONLY <1>6, SpansOne
<1>8. Spans(Type \o Buf("ping", 12), 0, 14)
  BY ONLY <1>5, <1>7, SpansCat
<1>9. Wide(Type \o Buf("ping", 12), 14)
  BY <1>8, SpansWide
<1>10. 2 \in Nat /\ 2 \in Nat /\ 2 <= 2 /\ 14 > 0
  OBVIOUS
<1> QED
  BY <1>1, <1>9, <1>10, HeardLaid

\* ClientRegister.
LEMMA ClientRegisterLaid ==
  ASSUME NEW m, NEW n \in Nat, m.n = n
  PROVE  Laid(HeardFormat(ClientRegister(m)))
<1>1. ClientRegister(m) = Heard(Type \o Buf("build", 4), 6, 2, 2)
  BY DEF ClientRegister
<1>2. 0 \in Nat /\ 2 \in Nat /\ 2 = 0 + 2
  OBVIOUS
<1>3. Type = Buf("type", 2)
  BY TypeIs
<1>4. Spans(Buf("type", 2), 0, 2)
  BY ONLY <1>2, SpansOne
<1>5. Spans(Type, 0, 2)
  BY ONLY <1>3, <1>4
<1>6. 2 \in Nat /\ 4 \in Nat /\ 6 = 2 + 4
  OBVIOUS
<1>7. Spans(Buf("build", 4), 2, 6)
  BY ONLY <1>6, SpansOne
<1>8. Spans(Type \o Buf("build", 4), 0, 6)
  BY ONLY <1>5, <1>7, SpansCat
<1>9. Wide(Type \o Buf("build", 4), 6)
  BY <1>8, SpansWide
<1>10. 2 \in Nat /\ 2 \in Nat /\ 2 <= 2 /\ 6 > 0
  OBVIOUS
<1> QED
  BY <1>1, <1>9, <1>10, HeardLaid

\* AcctSetPlayer.
LEMMA AcctSetPlayerLaid ==
  ASSUME NEW m, NEW n \in Nat, m.n = n
  PROVE  Laid(HeardFormat(AcctSetPlayer(m)))
<1> DEFINE w1 == Type \o Reqid \o Buf("kinum", 4)
<1>1. AcctSetPlayer(m) = Heard(w1, 10, 2, 2)
  BY DEF AcctSetPlayer
<1>2. 0 \in Nat /\ 2 \in Nat /\ 2 = 0 + 2
  OBVIOUS
<1>3. Type = Buf("type", 2)
  BY TypeIs
<1>4. Spans(Buf("type", 2), 0, 2)
  BY ONLY <1>2, SpansOne
<1>5. Spans(Type, 0, 2)
  BY ONLY <1>3, <1>4
<1>6. 2 \in Nat /\ 4 \in Nat /\ 6 = 2 + 4
  OBVIOUS
<1>7. Reqid = Buf("reqid", 4)
  BY ReqidIs
<1>8. Spans(Buf("reqid", 4), 2, 6)
  BY ONLY <1>6, SpansOne
<1>9. Spans(Reqid, 2, 6)
  BY ONLY <1>7, <1>8
<1>10. Spans(Type \o Reqid, 0, 6)
  BY ONLY <1>5, <1>9, SpansCat
<1>11. 6 \in Nat /\ 4 \in Nat /\ 10 = 6 + 4
  OBVIOUS
<1>12. Spans(Buf("kinum", 4), 6, 10)
  BY ONLY <1>11, SpansOne
<1>13. Spans(w1, 0, 10)
  BY ONLY <1>10, <1>12, SpansCat
<1>14. Wide(w1, 10)
  BY <1>13, SpansWide
<1>15. 2 \in Nat /\ 2 \in Nat /\ 2 <= 2 /\ 10 > 0
  OBVIOUS
<1> QED
  BY <1>1, <1>14, <1>15, HeardLaid

\* AuthClientLogin.
LEMMA AuthClientLoginLaid ==
  ASSUME NEW m, NEW n \in Nat, m.n = n
  PROVE  Laid(HeardFormat(AuthClientLogin(m)))
<1> DEFINE f1 == Str(m, "os", WIDE, 0)
           w1 == Type \o Buf("head", 8) \o Str(m, "name", WIDE, 0)
           w2 == w1 \o Buf("hash", 20) \o Str(m, "token", WIDE, 0)
<1>1. AuthClientLogin(m) = Heard(w2 \o f1, ((10 + Counted(m)) + 20) + 2 * Counted(m),
          ((10 + Counted(m)) + 20) + Counted(m) + 2,
          ((10 + Counted(m)) + 20) + Counted(m) + 2)
  BY DEF AuthClientLogin, ClientStr
<1>2. 0 \in Nat /\ 2 \in Nat /\ 2 = 0 + 2
  OBVIOUS
<1>3. Type = Buf("type", 2)
  BY TypeIs
<1>4. Spans(Buf("type", 2), 0, 2)
  BY ONLY <1>2, SpansOne
<1>5. Spans(Type, 0, 2)
  BY ONLY <1>3, <1>4
<1>6. 2 \in Nat /\ 8 \in Nat /\ 10 = 2 + 8
  OBVIOUS
<1>7. Spans(Buf("head", 8), 2, 10)
  BY ONLY <1>6, SpansOne
<1>8. Spans(Type \o Buf("head", 8), 0, 10)
  BY ONLY <1>5, <1>7, SpansCat
<1>9. 10 \in Nat /\ (2 + 2 * n) \in Nat /\ 12 + 2 * n = 10 + (2 + 2 * n)
  OBVIOUS
<1>10. Str(m, "name", WIDE, 0) = Buf("name", 2 + 2 * n)
  BY StrIs
<1>11. Spans(Buf("name", 2 + 2 * n), 10, 12 + 2 * n)
  BY ONLY <1>9, SpansOne
<1>12. Spans(Str(m, "name", WIDE, 0), 10, 12 + 2 * n)
  BY ONLY <1>10, <1>11
<1>13. Spans(w1, 0, 12 + 2 * n)
  BY ONLY <1>8, <1>12, SpansCat
<1>14. (12 + 2 * n) \in Nat /\ 20 \in Nat /\ 32 + 2 * n = (12 + 2 * n) + 20
  OBVIOUS
<1>15. Spans(Buf("hash", 20), 12 + 2 * n, 32 + 2 * n)
  BY ONLY <1>14, SpansOne
<1>16. Spans(w1 \o Buf("hash", 20), 0, 32 + 2 * n)
  BY ONLY <1>13, <1>15, SpansCat
<1>17. (32 + 2 * n) \in Nat /\ (2 + 2 * n) \in Nat /\ 34 + 4 * n
           = (32 + 2 * n) + (2 + 2 * n)
  OBVIOUS
<1>18. Str(m, "token", WIDE, 0) = Buf("token", 2 + 2 * n)
  BY StrIs
<1>19. Spans(Buf("token", 2 + 2 * n), 32 + 2 * n, 34 + 4 * n)
  BY ONLY <1>17, SpansOne
<1>20. Spans(Str(m, "token", WIDE, 0), 32 + 2 * n, 34 + 4 * n)
  BY ONLY <1>18, <1>19
<1>21. Spans(w2, 0, 34 + 4 * n)
  BY ONLY <1>16, <1>20, SpansCat
<1>22. (34 + 4 * n) \in Nat /\ (2 + 2 * n) \in Nat /\ 36 + 6 * n
           = (34 + 4 * n) + (2 + 2 * n)
  OBVIOUS
<1>23. f1 = Buf("os", 2 + 2 * n)
  BY StrIs
<1>24. Spans(Buf("os", 2 + 2 * n), 34 + 4 * n, 36 + 6 * n)
  BY ONLY <1>22, SpansOne
<1>25. Spans(f1, 34 + 4 * n, 36 + 6 * n)
  BY ONLY <1>23, <1>24
<1>26. Spans(w2 \o f1, 0, 36 + 6 * n)
  BY ONLY <1>21, <1>25, SpansCat
<1>27. Wide(w2 \o f1, 36 + 6 * n)
  BY <1>26, SpansWide
<1>28. ((10 + Counted(m)) + 20) + 2 * Counted(m) = 36 + 6 * n
  BY SendIs DEF Counted, UUID
<1>29. ((10 + Counted(m)) + 20) + Counted(m) + 2 = 36 + 4 * n
  BY SendIs DEF Counted, UUID
<1>30. AuthClientLogin(m) = Heard(w2 \o f1, 36 + 6 * n, 36 + 4 * n, 36 + 4 * n)
  BY <1>1, <1>28, <1>29, <1>29
<1>31. (36 + 4 * n) \in Nat /\ (36 + 4 * n) \in Nat /\ 36 + 4 * n <= 36 + 4 * n
           /\ 36 + 6 * n > 0
  OBVIOUS
<1> QED
  BY <1>30, <1>27, <1>31, HeardLaid

\* AuthClientChangePass.
LEMMA AuthClientChangePassLaid ==
  ASSUME NEW m, NEW n \in Nat, m.n = n
  PROVE  Laid(HeardFormat(AuthClientChangePass(m)))
<1> DEFINE f1 == Str(m, "name", WIDE, 0)
           w1 == Type \o Reqid \o f1 \o Buf("hash", 20)
<1>1. AuthClientChangePass(m) = Heard(w1, 6 + Counted(m) + 20, 28, 8)
  BY DEF AuthClientChangePass, ClientStr
<1>2. 0 \in Nat /\ 2 \in Nat /\ 2 = 0 + 2
  OBVIOUS
<1>3. Type = Buf("type", 2)
  BY TypeIs
<1>4. Spans(Buf("type", 2), 0, 2)
  BY ONLY <1>2, SpansOne
<1>5. Spans(Type, 0, 2)
  BY ONLY <1>3, <1>4
<1>6. 2 \in Nat /\ 4 \in Nat /\ 6 = 2 + 4
  OBVIOUS
<1>7. Reqid = Buf("reqid", 4)
  BY ReqidIs
<1>8. Spans(Buf("reqid", 4), 2, 6)
  BY ONLY <1>6, SpansOne
<1>9. Spans(Reqid, 2, 6)
  BY ONLY <1>7, <1>8
<1>10. Spans(Type \o Reqid, 0, 6)
  BY ONLY <1>5, <1>9, SpansCat
<1>11. 6 \in Nat /\ (2 + 2 * n) \in Nat /\ 8 + 2 * n = 6 + (2 + 2 * n)
  OBVIOUS
<1>12. f1 = Buf("name", 2 + 2 * n)
  BY StrIs
<1>13. Spans(Buf("name", 2 + 2 * n), 6, 8 + 2 * n)
  BY ONLY <1>11, SpansOne
<1>14. Spans(f1, 6, 8 + 2 * n)
  BY ONLY <1>12, <1>13
<1>15. Spans(Type \o Reqid \o f1, 0, 8 + 2 * n)
  BY ONLY <1>10, <1>14, SpansCat
<1>16. (8 + 2 * n) \in Nat /\ 20 \in Nat /\ 28 + 2 * n = (8 + 2 * n) + 20
  OBVIOUS
<1>17. Spans(Buf("hash", 20), 8 + 2 * n, 28 + 2 * n)
  BY ONLY <1>16, SpansOne
<1>18. Spans(w1, 0, 28 + 2 * n)
  BY ONLY <1>15, <1>17, SpansCat
<1>19. Wide(w1, 28 + 2 * n)
  BY <1>18, SpansWide
<1>20. 6 + Counted(m) + 20 = 28 + 2 * n
  BY SendIs DEF Counted, UUID
<1>21. AuthClientChangePass(m) = Heard(w1, 28 + 2 * n, 28, 8)
  BY <1>1, <1>20
<1>22. 28 \in Nat /\ 8 \in Nat /\ 8 <= 28 /\ 28 + 2 * n > 0
  OBVIOUS
<1> QED
  BY <1>21, <1>19, <1>22, HeardLaid

\* FileChunkAck.
LEMMA FileChunkAckLaid ==
  ASSUME NEW m, NEW n \in Nat, m.n = n
  PROVE  Laid(HeardFormat(FileChunkAck(m)))
<1>1. FileChunkAck(m) = Heard(Type \o Reqid, 6, 2, 2)
  BY DEF FileChunkAck
<1>2. 0 \in Nat /\ 2 \in Nat /\ 2 = 0 + 2
  OBVIOUS
<1>3. Type = Buf("type", 2)
  BY TypeIs
<1>4. Spans(Buf("type", 2), 0, 2)
  BY ONLY <1>2, SpansOne
<1>5. Spans(Type, 0, 2)
  BY ONLY <1>3, <1>4
<1>6. 2 \in Nat /\ 4 \in Nat /\ 6 = 2 + 4
  OBVIOUS
<1>7. Reqid = Buf("reqid", 4)
  BY ReqidIs
<1>8. Spans(Buf("reqid", 4), 2, 6)
  BY ONLY <1>6, SpansOne
<1>9. Spans(Reqid, 2, 6)
  BY ONLY <1>7, <1>8
<1>10. Spans(Type \o Reqid, 0, 6)
  BY ONLY <1>5, <1>9, SpansCat
<1>11. Wide(Type \o Reqid, 6)
  BY <1>10, SpansWide
<1>12. 2 \in Nat /\ 2 \in Nat /\ 2 <= 2 /\ 6 > 0
  OBVIOUS
<1> QED
  BY <1>1, <1>11, <1>12, HeardLaid

\* AuthClientFile, in its long form.
LEMMA AuthClientFileLongLaid ==
  ASSUME NEW m, NEW n \in Nat, m.n = n, m.long
  PROVE  Laid(HeardFormat(AuthClientFile(m)))
<1> DEFINE f1 == Str(m, "filename", WIDE, 0)
           w1 == Type \o Reqid \o f1
<1>1. AuthClientFile(m) = Heard(w1, 6 + Counted(m), 8, 8)
  BY DEF AuthClientFile, ClientStr
<1>2. 0 \in Nat /\ 2 \in Nat /\ 2 = 0 + 2
  OBVIOUS
<1>3. Type = Buf("type", 2)
  BY TypeIs
<1>4. Spans(Buf("type", 2), 0, 2)
  BY ONLY <1>2, SpansOne
<1>5. Spans(Type, 0, 2)
  BY ONLY <1>3, <1>4
<1>6. 2 \in Nat /\ 4 \in Nat /\ 6 = 2 + 4
  OBVIOUS
<1>7. Reqid = Buf("reqid", 4)
  BY ReqidIs
<1>8. Spans(Buf("reqid", 4), 2, 6)
  BY ONLY <1>6, SpansOne
<1>9. Spans(Reqid, 2, 6)
  BY ONLY <1>7, <1>8
<1>10. Spans(Type \o Reqid, 0, 6)
  BY ONLY <1>5, <1>9, SpansCat
<1>11. 6 \in Nat /\ (2 + 2 * n) \in Nat /\ 8 + 2 * n = 6 + (2 + 2 * n)
  OBVIOUS
<1>12. f1 = Buf("filename", 2 + 2 * n)
  BY StrIs
<1>13. Spans(Buf("filename", 2 + 2 * n), 6, 8 + 2 * n)
  BY ONLY <1>11, SpansOne
<1>14. Spans(f1, 6, 8 + 2 * n)
  BY ONLY <1>12, <1>13
<1>15. Spans(w1, 0, 8 + 2 * n)
  BY ONLY <1>10, <1>14, SpansCat
<1>16. Wide(w1, 8 + 2 * n)
  BY <1>15, SpansWide
<1>17. 6 + Counted(m) = 8 + 2 * n
  BY SendIs DEF Counted, UUID
<1>18. AuthClientFile(m) = Heard(w1, 8 + 2 * n, 8, 8)
  BY <1>1, <1>17
<1>19. 8 \in Nat /\ 8 \in Nat /\ 8 <= 8 /\ 8 + 2 * n > 0
  OBVIOUS
<1> QED
  BY <1>18, <1>16, <1>19, HeardLaid

\* AuthClientFile, in its short form.
LEMMA AuthClientFileShortLaid ==
  ASSUME NEW m, NEW n \in Nat, m.n = n, ~m.long
  PROVE  Laid(HeardFormat(AuthClientFile(m)))
<1> DEFINE f1 == Str(m, "dir", WIDE, 0)
           w1 == Type \o Reqid \o f1 \o Str(m, "ext", WIDE, 0)
<1>1. AuthClientFile(m) = Heard(w1, 6 + 2 * Counted(m), 6 + Counted(m) + 2,
          6 + Counted(m) + 2)
  BY DEF AuthClientFile, ClientStr
<1>2. 0 \in Nat /\ 2 \in Nat /\ 2 = 0 + 2
  OBVIOUS
<1>3. Type = Buf("type", 2)
  BY TypeIs
<1>4. Spans(Buf("type", 2), 0, 2)
  BY ONLY <1>2, SpansOne
<1>5. Spans(Type, 0, 2)
  BY ONLY <1>3, <1>4
<1>6. 2 \in Nat /\ 4 \in Nat /\ 6 = 2 + 4
  OBVIOUS
<1>7. Reqid = Buf("reqid", 4)
  BY ReqidIs
<1>8. Spans(Buf("reqid", 4), 2, 6)
  BY ONLY <1>6, SpansOne
<1>9. Spans(Reqid, 2, 6)
  BY ONLY <1>7, <1>8
<1>10. Spans(Type \o Reqid, 0, 6)
  BY ONLY <1>5, <1>9, SpansCat
<1>11. 6 \in Nat /\ (2 + 2 * n) \in Nat /\ 8 + 2 * n = 6 + (2 + 2 * n)
  OBVIOUS
<1>12. f1 = Buf("dir", 2 + 2 * n)
  BY StrIs
<1>13. Spans(Buf("dir", 2 + 2 * n), 6, 8 + 2 * n)
  BY ONLY <1>11, SpansOne
<1>14. Spans(f1, 6, 8 + 2 * n)
  BY ONLY <1>12, <1>13
<1>15. Spans(Type \o Reqid \o f1, 0, 8 + 2 * n)
  BY ONLY <1>10, <1>14, SpansCat
<1>16. (8 + 2 * n) \in Nat /\ (2 + 2 * n) \in Nat /\ 10 + 4 * n = (8 + 2 * n) + (2 + 2 * n)
  OBVIOUS
<1>17. Str(m, "ext", WIDE, 0) = Buf("ext", 2 + 2 * n)
  BY StrIs
<1>18. Spans(Buf("ext", 2 + 2 * n), 8 + 2 * n, 10 + 4 * n)
  BY ONLY <1>16, SpansOne
<1>19. Spans(Str(m, "ext", WIDE, 0), 8 + 2 * n, 10 + 4 * n)
  BY ONLY <1>17, <1>18
<1>20. Spans(w1, 0, 10 + 4 * n)
  BY ONLY <1>15, <1>19, SpansCat
<1>21. Wide(w1, 10 + 4 * n)
  BY <1>20, SpansWide
<1>22. 6 + 2 * Counted(m) = 10 + 4 * n
  BY SendIs DEF Counted, UUID
<1>23. 6 + Counted(m) + 2 = 10 + 2 * n
  BY SendIs DEF Counted, UUID
<1>24. AuthClientFile(m) = Heard(w1, 10 + 4 * n, 10 + 2 * n, 10 + 2 * n)
  BY <1>1, <1>22, <1>23, <1>23
<1>25. (10 + 2 * n) \in Nat /\ (10 + 2 * n) \in Nat /\ 10 + 2 * n <= 10 + 2 * n
           /\ 10 + 4 * n > 0
  OBVIOUS
<1> QED
  BY <1>24, <1>21, <1>25, HeardLaid

\* AuthClientAgeRequest.
LEMMA AuthClientAgeRequestLaid ==
  ASSUME NEW m, NEW n \in Nat, m.n = n
  PROVE  Laid(HeardFormat(AuthClientAgeRequest(m)))
<1> DEFINE f1 == Str(m, "name", WIDE, 0)
           w1 == Type \o Reqid \o f1 \o Buf("uuid", UUID)
<1>1. AuthClientAgeRequest(m) = Heard(w1, 6 + Counted(m) + 16, 8, 8)
  BY DEF AuthClientAgeRequest, ClientStr
<1>2. 0 \in Nat /\ 2 \in Nat /\ 2 = 0 + 2
  OBVIOUS
<1>3. Type = Buf("type", 2)
  BY TypeIs
<1>4. Spans(Buf("type", 2), 0, 2)
  BY ONLY <1>2, SpansOne
<1>5. Spans(Type, 0, 2)
  BY ONLY <1>3, <1>4
<1>6. 2 \in Nat /\ 4 \in Nat /\ 6 = 2 + 4
  OBVIOUS
<1>7. Reqid = Buf("reqid", 4)
  BY ReqidIs
<1>8. Spans(Buf("reqid", 4), 2, 6)
  BY ONLY <1>6, SpansOne
<1>9. Spans(Reqid, 2, 6)
  BY ONLY <1>7, <1>8
<1>10. Spans(Type \o Reqid, 0, 6)
  BY ONLY <1>5, <1>9, SpansCat
<1>11. 6 \in Nat /\ (2 + 2 * n) \in Nat /\ 8 + 2 * n = 6 + (2 + 2 * n)
  OBVIOUS
<1>12. f1 = Buf("name", 2 + 2 * n)
  BY StrIs
<1>13. Spans(Buf("name", 2 + 2 * n), 6, 8 + 2 * n)
  BY ONLY <1>11, SpansOne
<1>14. Spans(f1, 6, 8 + 2 * n)
  BY ONLY <1>12, <1>13
<1>15. Spans(Type \o Reqid \o f1, 0, 8 + 2 * n)
  BY ONLY <1>10, <1>14, SpansCat
<1>16. (8 + 2 * n) \in Nat /\ 16 \in Nat /\ 24 + 2 * n = (8 + 2 * n) + 16
  OBVIOUS
<1>17. UUID = 16
  BY SendIs DEF UUID, HEADER
<1>18. Spans(Buf("uuid", 16), 8 + 2 * n, 24 + 2 * n)
  BY ONLY <1>16, SpansOne
<1>19. Spans(Buf("uuid", UUID), 8 + 2 * n, 24 + 2 * n)
  BY ONLY <1>17, <1>18
<1>20. Spans(w1, 0, 24 + 2 * n)
  BY ONLY <1>15, <1>19, SpansCat
<1>21. Wide(w1, 24 + 2 * n)
  BY <1>20, SpansWide
<1>22. 6 + Counted(m) + 16 = 24 + 2 * n
  BY SendIs DEF Counted, UUID
<1>23. AuthClientAgeRequest(m) = Heard(w1, 24 + 2 * n, 8, 8)
  BY <1>1, <1>22
<1>24. 8 \in Nat /\ 8 \in Nat /\ 8 <= 8 /\ 24 + 2 * n > 0
  OBVIOUS
<1> QED
  BY <1>23, <1>21, <1>24, HeardLaid

\* AuthClientLog.
LEMMA AuthClientLogLaid ==
  ASSUME NEW m, NEW n \in Nat, m.n = n
  PROVE  Laid(HeardFormat(AuthClientLog(m)))
<1> DEFINE f1 == Str(m, "text", WIDE, 0)
<1>1. AuthClientLog(m) = Heard(Type \o f1, 2 + Counted(m), 4, 4)
  BY DEF AuthClientLog, ClientStr
<1>2. 0 \in Nat /\ 2 \in Nat /\ 2 = 0 + 2
  OBVIOUS
<1>3. Type = Buf("type", 2)
  BY TypeIs
<1>4. Spans(Buf("type", 2), 0, 2)
  BY ONLY <1>2, SpansOne
<1>5. Spans(Type, 0, 2)
  BY ONLY <1>3, <1>4
<1>6. 2 \in Nat /\ (2 + 2 * n) \in Nat /\ 4 + 2 * n = 2 + (2 + 2 * n)
  OBVIOUS
<1>7. f1 = Buf("text", 2 + 2 * n)
  BY StrIs
<1>8. Spans(Buf("text", 2 + 2 * n), 2, 4 + 2 * n)
  BY ONLY <1>6, SpansOne
<1>9. Spans(f1, 2, 4 + 2 * n)
  BY ONLY <1>7, <1>8
<1>10. Spans(Type \o f1, 0, 4 + 2 * n)
  BY ONLY <1>5, <1>9, SpansCat
<1>11. Wide(Type \o f1, 4 + 2 * n)
  BY <1>10, SpansWide
<1>12. 2 + Counted(m) = 4 + 2 * n
  BY SendIs DEF Counted, UUID
<1>13. AuthClientLog(m) = Heard(Type \o f1, 4 + 2 * n, 4, 4)
  BY <1>1, <1>12
<1>14. 4 \in Nat /\ 4 \in Nat /\ 4 <= 4 /\ 4 + 2 * n > 0
  OBVIOUS
<1> QED
  BY <1>13, <1>11, <1>14, HeardLaid

\* SendFriendInvite.
LEMMA SendFriendInviteLaid ==
  ASSUME NEW m, NEW n \in Nat, m.n = n
  PROVE  Laid(HeardFormat(SendFriendInvite(m)))
<1> DEFINE f1 == Str(m, "mail", WIDE, 0)
           w1 == Type \o Buf("head", 20) \o f1 \o Str(m, "to", WIDE, 0)
<1>1. SendFriendInvite(m) = Heard(w1, 22 + 2 * Counted(m), 22 + Counted(m) + 2,
          22 + Counted(m) + 2)
  BY DEF SendFriendInvite, ClientStr
<1>2. 0 \in Nat /\ 2 \in Nat /\ 2 = 0 + 2
  OBVIOUS
<1>3. Type = Buf("type", 2)
  BY TypeIs
<1>4. Spans(Buf("type", 2), 0, 2)
  BY ONLY <1>2, SpansOne
<1>5. Spans(Type, 0, 2)
  BY ONLY <1>3, <1>4
<1>6. 2 \in Nat /\ 20 \in Nat /\ 22 = 2 + 20
  OBVIOUS
<1>7. Spans(Buf("head", 20), 2, 22)
  BY ONLY <1>6, SpansOne
<1>8. Spans(Type \o Buf("head", 20), 0, 22)
  BY ONLY <1>5, <1>7, SpansCat
<1>9. 22 \in Nat /\ (2 + 2 * n) \in Nat /\ 24 + 2 * n = 22 + (2 + 2 * n)
  OBVIOUS
<1>10. f1 = Buf("mail", 2 + 2 * n)
  BY StrIs
<1>11. Spans(Buf("mail", 2 + 2 * n), 22, 24 + 2 * n)
  BY ONLY <1>9, SpansOne
<1>12. Spans(f1, 22, 24 + 2 * n)
  BY ONLY <1>10, <1>11
<1>13. Spans(Type \o Buf("head", 20) \o f1, 0, 24 + 2 * n)
  BY ONLY <1>8, <1>12, SpansCat
<1>14. (24 + 2 * n) \in Nat /\ (2 + 2 * n) \in Nat /\ 26 + 4 * n
           = (24 + 2 * n) + (2 + 2 * n)
  OBVIOUS
<1>15. Str(m, "to", WIDE, 0) = Buf("to", 2 + 2 * n)
  BY StrIs
<1>16. Spans(Buf("to", 2 + 2 * n), 24 + 2 * n, 26 + 4 * n)
  BY ONLY <1>14, SpansOne
<1>17. Spans(Str(m, "to", WIDE, 0), 24 + 2 * n, 26 + 4 * n)
  BY ONLY <1>15, <1>16
<1>18. Spans(w1, 0, 26 + 4 * n)
  BY ONLY <1>13, <1>17, SpansCat
<1>19. Wide(w1, 26 + 4 * n)
  BY <1>18, SpansWide
<1>20. 22 + 2 * Counted(m) = 26 + 4 * n
  BY SendIs DEF Counted, UUID
<1>21. 22 + Counted(m) + 2 = 26 + 2 * n
  BY SendIs DEF Counted, UUID
<1>22. SendFriendInvite(m) = Heard(w1, 26 + 4 * n, 26 + 2 * n, 26 + 2 * n)
  BY <1>1, <1>20, <1>21, <1>21
<1>23. (26 + 2 * n) \in Nat /\ (26 + 2 * n) \in Nat /\ 26 + 2 * n <= 26 + 2 * n
           /\ 26 + 4 * n > 0
  OBVIOUS
<1> QED
  BY <1>22, <1>19, <1>23, HeardLaid

\* GamePing.
LEMMA GamePingLaid ==
  ASSUME NEW m, NEW n \in Nat, m.n = n
  PROVE  Laid(HeardFormat(GamePing(m)))
<1>1. GamePing(m) = Heard(Type \o Buf("ping", 4), 6, 2, 2)
  BY DEF GamePing
<1>2. 0 \in Nat /\ 2 \in Nat /\ 2 = 0 + 2
  OBVIOUS
<1>3. Type = Buf("type", 2)
  BY TypeIs
<1>4. Spans(Buf("type", 2), 0, 2)
  BY ONLY <1>2, SpansOne
<1>5. Spans(Type, 0, 2)
  BY ONLY <1>3, <1>4
<1>6. 2 \in Nat /\ 4 \in Nat /\ 6 = 2 + 4
  OBVIOUS
<1>7. Spans(Buf("ping", 4), 2, 6)
  BY ONLY <1>6, SpansOne
<1>8. Spans(Type \o Buf("ping", 4), 0, 6)
  BY ONLY <1>5, <1>7, SpansCat
<1>9. Wide(Type \o Buf("ping", 4), 6)
  BY <1>8, SpansWide
<1>10. 2 \in Nat /\ 2 \in Nat /\ 2 <= 2 /\ 6 > 0
  OBVIOUS
<1> QED
  BY <1>1, <1>9, <1>10, HeardLaid

\* GameJoinRequest.
LEMMA GameJoinRequestLaid ==
  ASSUME NEW m, NEW n \in Nat, m.n = n
  PROVE  Laid(HeardFormat(GameJoinRequest(m)))
<1> DEFINE w1 == Type \o Reqid \o Buf("serverid", 4) \o Buf("uuid", UUID)
<1>1. GameJoinRequest(m) = Heard(w1 \o Buf("kinum", 4), 30, 2, 2)
  BY DEF GameJoinRequest
<1>2. 0 \in Nat /\ 2 \in Nat /\ 2 = 0 + 2
  OBVIOUS
<1>3. Type = Buf("type", 2)
  BY TypeIs
<1>4. Spans(Buf("type", 2), 0, 2)
  BY ONLY <1>2, SpansOne
<1>5. Spans(Type, 0, 2)
  BY ONLY <1>3, <1>4
<1>6. 2 \in Nat /\ 4 \in Nat /\ 6 = 2 + 4
  OBVIOUS
<1>7. Reqid = Buf("reqid", 4)
  BY ReqidIs
<1>8. Spans(Buf("reqid", 4), 2, 6)
  BY ONLY <1>6, SpansOne
<1>9. Spans(Reqid, 2, 6)
  BY ONLY <1>7, <1>8
<1>10. Spans(Type \o Reqid, 0, 6)
  BY ONLY <1>5, <1>9, SpansCat
<1>11. 6 \in Nat /\ 4 \in Nat /\ 10 = 6 + 4
  OBVIOUS
<1>12. Spans(Buf("serverid", 4), 6, 10)
  BY ONLY <1>11, SpansOne
<1>13. Spans(Type \o Reqid \o Buf("serverid", 4), 0, 10)
  BY ONLY <1>10, <1>12, SpansCat
<1>14. 10 \in Nat /\ 16 \in Nat /\ 26 = 10 + 16
  OBVIOUS
<1>15. UUID = 16
  BY SendIs DEF UUID, HEADER
<1>16. Spans(Buf("uuid", 16), 10, 26)
  BY ONLY <1>14, SpansOne
<1>17. Spans(Buf("uuid", UUID), 10, 26)
  BY ONLY <1>15, <1>16
<1>18. Spans(w1, 0, 26)
  BY ONLY <1>13, <1>17, SpansCat
<1>19. 26 \in Nat /\ 4 \in Nat /\ 30 = 26 + 4
  OBVIOUS
<1>20. Spans(Buf("kinum", 4), 26, 30)
  BY ONLY <1>19, SpansOne
<1>21. Spans(w1 \o Buf("kinum", 4), 0, 30)
  BY ONLY <1>18, <1>20, SpansCat
<1>22. Wide(w1 \o Buf("kinum", 4), 30)
  BY <1>21, SpansWide
<1>23. 2 \in Nat /\ 2 \in Nat /\ 2 <= 2 /\ 30 > 0
  OBVIOUS
<1> QED
  BY <1>1, <1>22, <1>23, HeardLaid

\* PropagateBuffer.
LEMMA PropagateBufferLaid ==
  ASSUME NEW m, NEW n \in Nat, m.n = n
  PROVE  Laid(HeardFormat(PropagateBuffer(m)))
<1> DEFINE w1 == Type \o Buf("subtype", 4)
           w2 == w1 \o Buf("len", 4) \o Buf("body", m.n)
<1>1. PropagateBuffer(m) = Heard(w2, m.n + 10, 10, 10)
  BY DEF PropagateBuffer
<1>2. 0 \in Nat /\ 2 \in Nat /\ 2 = 0 + 2
  OBVIOUS
<1>3. Type = Buf("type", 2)
  BY TypeIs
<1>4. Spans(Buf("type", 2), 0, 2)
  BY ONLY <1>2, SpansOne
<1>5. Spans(Type, 0, 2)
  BY ONLY <1>3, <1>4
<1>6. 2 \in Nat /\ 4 \in Nat /\ 6 = 2 + 4
  OBVIOUS
<1>7. Spans(Buf("subtype", 4), 2, 6)
  BY ONLY <1>6, SpansOne
<1>8. Spans(w1, 0, 6)
  BY ONLY <1>5, <1>7, SpansCat
<1>9. 6 \in Nat /\ 4 \in Nat /\ 10 = 6 + 4
  OBVIOUS
<1>10. Spans(Buf("len", 4), 6, 10)
  BY ONLY <1>9, SpansOne
<1>11. Spans(w1 \o Buf("len", 4), 0, 10)
  BY ONLY <1>8, <1>10, SpansCat
<1>12. 10 \in Nat /\ n \in Nat /\ 10 + n = 10 + n
  OBVIOUS
<1>13. m.n = n
  BY SendIs DEF UUID, HEADER
<1>14. Spans(Buf("body", n), 10, 10 + n)
  BY ONLY <1>12, SpansOne
<1>15. Spans(Buf("body", m.n), 10, 10 + n)
  BY ONLY <1>13, <1>14
<1>16. Spans(w2, 0, 10 + n)
  BY ONLY <1>11, <1>15, SpansCat
<1>17. Wide(w2, 10 + n)
  BY <1>16, SpansWide
<1>18. m.n + 10 = 10 + n
  BY SendIs DEF Counted, UUID
<1>19. PropagateBuffer(m) = Heard(w2, 10 + n, 10, 10)
  BY <1>1, <1>18
<1>20. 10 \in Nat /\ 10 \in Nat /\ 10 <= 10 /\ 10 + n > 0
  OBVIOUS
<1> QED
  BY <1>19, <1>17, <1>20, HeardLaid

\* GameMgr.
LEMMA GameMgrLaid ==
  ASSUME NEW m, NEW n \in Nat, m.n = n
  PROVE  Laid(HeardFormat(GameMgr(m)))
<1> DEFINE w1 == Type \o Buf("len", 4) \o Buf("body", m.n)
<1>1. GameMgr(m) = Heard(w1, m.n + 6, 6, 6)
  BY DEF GameMgr
<1>2. 0 \in Nat /\ 2 \in Nat /\ 2 = 0 + 2
  OBVIOUS
<1>3. Type = Buf("type", 2)
  BY TypeIs
<1>4. Spans(Buf("type", 2), 0, 2)
  BY ONLY <1>2, SpansOne
<1>5. Spans(Type, 0, 2)
  BY ONLY <1>3, <1>4
<1>6. 2 \in Nat /\ 4 \in Nat /\ 6 = 2 + 4
  OBVIOUS
<1>7. Spans(Buf("len", 4), 2, 6)
  BY ONLY <1>6, SpansOne
<1>8. Spans(Type \o Buf("len", 4), 0, 6)
  BY ONLY <1>5, <1>7, SpansCat
<1>9. 6 \in Nat /\ n \in Nat /\ 6 + n = 6 + n
  OBVIOUS
<1>10. m.n = n
  BY SendIs DEF UUID, HEADER
<1>11. Spans(Buf("body", n), 6, 6 + n)
  BY ONLY <1>9, SpansOne
<1>12. Spans(Buf("body", m.n), 6, 6 + n)
  BY ONLY <1>10, <1>11
<1>13. Spans(w1, 0, 6 + n)
  BY ONLY <1>8, <1>12, SpansCat
<1>14. Wide(w1, 6 + n)
  BY <1>13, SpansWide
<1>15. m.n + 6 = 6 + n
  BY SendIs DEF Counted, UUID
<1>16. GameMgr(m) = Heard(w1, 6 + n, 6, 6)
  BY <1>1, <1>15
<1>17. 6 \in Nat /\ 6 \in Nat /\ 6 <= 6 /\ 6 + n > 0
  OBVIOUS
<1> QED
  BY <1>16, <1>14, <1>17, HeardLaid

\* GatekeeperClient.
LEMMA GatekeeperClientLaid ==
  ASSUME NEW m, NEW n \in Nat, m.n = n
  PROVE  Laid(HeardFormat(GatekeeperClient(m)))
<1> DEFINE w1 == Type \o Reqid \o Buf("ispatcher", 1)
<1>1. GatekeeperClient(m) = Heard(w1, 7, 7, 2)
  BY DEF GatekeeperClient
<1>2. 0 \in Nat /\ 2 \in Nat /\ 2 = 0 + 2
  OBVIOUS
<1>3. Type = Buf("type", 2)
  BY TypeIs
<1>4. Spans(Buf("type", 2), 0, 2)
  BY ONLY <1>2, SpansOne
<1>5. Spans(Type, 0, 2)
  BY ONLY <1>3, <1>4
<1>6. 2 \in Nat /\ 4 \in Nat /\ 6 = 2 + 4
  OBVIOUS
<1>7. Reqid = Buf("reqid", 4)
  BY ReqidIs
<1>8. Spans(Buf("reqid", 4), 2, 6)
  BY ONLY <1>6, SpansOne
<1>9. Spans(Reqid, 2, 6)
  BY ONLY <1>7, <1>8
<1>10. Spans(Type \o Reqid, 0, 6)
  BY ONLY <1>5, <1>9, SpansCat
<1>11. 6 \in Nat /\ 1 \in Nat /\ 7 = 6 + 1
  OBVIOUS
<1>12. Spans(Buf("ispatcher", 1), 6, 7)
  BY ONLY <1>11, SpansOne
<1>13. Spans(w1, 0, 7)
  BY ONLY <1>10, <1>12, SpansCat
<1>14. Wide(w1, 7)
  BY <1>13, SpansWide
<1>15. 7 \in Nat /\ 2 \in Nat /\ 2 <= 7 /\ 7 > 0
  OBVIOUS
<1> QED
  BY <1>1, <1>14, <1>15, HeardLaid

\* GatekeeperPing.
LEMMA GatekeeperPingLaid ==
  ASSUME NEW m, NEW n \in Nat, m.n = n
  PROVE  Laid(HeardFormat(GatekeeperPing(m)))
<1>1. GatekeeperPing(m) = Heard(Type \o Buf("ping", 12), 14, 14, 2)
  BY DEF GatekeeperPing
<1>2. 0 \in Nat /\ 2 \in Nat /\ 2 = 0 + 2
  OBVIOUS
<1>3. Type = Buf("type", 2)
  BY TypeIs
<1>4. Spans(Buf("type", 2), 0, 2)
  BY ONLY <1>2, SpansOne
<1>5. Spans(Type, 0, 2)
  BY ONLY <1>3, <1>4
<1>6. 2 \in Nat /\ 12 \in Nat /\ 14 = 2 + 12
  OBVIOUS
<1>7. Spans(Buf("ping", 12), 2, 14)
  BY ONLY <1>6, SpansOne
<1>8. Spans(Type \o Buf("ping", 12), 0, 14)
  BY ONLY <1>5, <1>7, SpansCat
<1>9. Wide(Type \o Buf("ping", 12), 14)
  BY <1>8, SpansWide
<1>10. 14 \in Nat /\ 2 \in Nat /\ 2 <= 14 /\ 14 > 0
  OBVIOUS
<1> QED
  BY <1>1, <1>9, <1>10, HeardLaid

\* The three forms of what a server tells a client.
LEMMA ManagedHead ==
  Spans(Type \o Buf("len", 4) \o Buf("msgtype", 4) \o Reqid \o Buf("gameid", 4)
      \o Buf("len2", 4), 0, 22)
<1> DEFINE w1 == Type \o Buf("len", 4) \o Buf("msgtype", 4)
<1>1. 0 \in Nat /\ 2 \in Nat /\ 2 = 0 + 2
  OBVIOUS
<1>2. Type = Buf("type", 2)
  BY TypeIs
<1>3. Spans(Buf("type", 2), 0, 2)
  BY ONLY <1>1, SpansOne
<1>4. Spans(Type, 0, 2)
  BY ONLY <1>2, <1>3
<1>5. 2 \in Nat /\ 4 \in Nat /\ 6 = 2 + 4
  OBVIOUS
<1>6. Spans(Buf("len", 4), 2, 6)
  BY ONLY <1>5, SpansOne
<1>7. Spans(Type \o Buf("len", 4), 0, 6)
  BY ONLY <1>4, <1>6, SpansCat
<1>8. 6 \in Nat /\ 4 \in Nat /\ 10 = 6 + 4
  OBVIOUS
<1>9. Spans(Buf("msgtype", 4), 6, 10)
  BY ONLY <1>8, SpansOne
<1>10. Spans(w1, 0, 10)
  BY ONLY <1>7, <1>9, SpansCat
<1>11. 10 \in Nat /\ 4 \in Nat /\ 14 = 10 + 4
  OBVIOUS
<1>12. Reqid = Buf("reqid", 4)
  BY ReqidIs
<1>13. Spans(Buf("reqid", 4), 10, 14)
  BY ONLY <1>11, SpansOne
<1>14. Spans(Reqid, 10, 14)
  BY ONLY <1>12, <1>13
<1>15. Spans(w1 \o Reqid, 0, 14)
  BY ONLY <1>10, <1>14, SpansCat
<1>16. 14 \in Nat /\ 4 \in Nat /\ 18 = 14 + 4
  OBVIOUS
<1>17. Spans(Buf("gameid", 4), 14, 18)
  BY ONLY <1>16, SpansOne
<1>18. Spans(w1 \o Reqid \o Buf("gameid", 4), 0, 18)
  BY ONLY <1>15, <1>17, SpansCat
<1>19. 18 \in Nat /\ 4 \in Nat /\ 22 = 18 + 4
  OBVIOUS
<1>20. Spans(Buf("len2", 4), 18, 22)
  BY ONLY <1>19, SpansOne
<1>21. Spans(w1 \o Reqid \o Buf("gameid", 4) \o Buf("len2", 4), 0, 22)
  BY ONLY <1>18, <1>20, SpansCat
<1> QED
  BY <1>21

\* What is in front of the fields of a game message.
LEMMA PropagatedHead ==
  Spans(Type \o Buf("subtype", 4) \o Buf("len", 4) \o Buf("again", 2) \o Buf("flags", 4),
      0, 16)
<1> DEFINE w1 == Type \o Buf("subtype", 4) \o Buf("len", 4)
<1>1. 0 \in Nat /\ 2 \in Nat /\ 2 = 0 + 2
  OBVIOUS
<1>2. Type = Buf("type", 2)
  BY TypeIs
<1>3. Spans(Buf("type", 2), 0, 2)
  BY ONLY <1>1, SpansOne
<1>4. Spans(Type, 0, 2)
  BY ONLY <1>2, <1>3
<1>5. 2 \in Nat /\ 4 \in Nat /\ 6 = 2 + 4
  OBVIOUS
<1>6. Spans(Buf("subtype", 4), 2, 6)
  BY ONLY <1>5, SpansOne
<1>7. Spans(Type \o Buf("subtype", 4), 0, 6)
  BY ONLY <1>4, <1>6, SpansCat
<1>8. 6 \in Nat /\ 4 \in Nat /\ 10 = 6 + 4
  OBVIOUS
<1>9. Spans(Buf("len", 4), 6, 10)
  BY ONLY <1>8, SpansOne
<1>10. Spans(w1, 0, 10)
  BY ONLY <1>7, <1>9, SpansCat
<1>11. 10 \in Nat /\ 2 \in Nat /\ 12 = 10 + 2
  OBVIOUS
<1>12. Spans(Buf("again", 2), 10, 12)
  BY ONLY <1>11, SpansOne
<1>13. Spans(w1 \o Buf("again", 2), 0, 12)
  BY ONLY <1>10, <1>12, SpansCat
<1>14. 12 \in Nat /\ 4 \in Nat /\ 16 = 12 + 4
  OBVIOUS
<1>15. Spans(Buf("flags", 4), 12, 16)
  BY ONLY <1>14, SpansOne
<1>16. Spans(w1 \o Buf("again", 2) \o Buf("flags", 4), 0, 16)
  BY ONLY <1>13, <1>15, SpansCat
<1> QED
  BY <1>16

\* Answers of the auth server to a request.
LEMMA AuthReplyLaid ==
  ASSUME NEW fields, NEW w, Wide(fields, w), NEW t, t = AuthReply(fields, w)
  PROVE  Laid(ToldIs(t))
<1>1. w \in Nat /\ Width(fields) = w
  BY DEF Wide
<1> DEFINE len == w + 2
<1>2. 0 \in Nat /\ 2 \in Nat /\ 2 = 0 + 2 /\ len = 2 + w /\ len > 0
  BY <1>1
<1>3. Spans(Type, 0, 2)
  <2>1. Spans(Buf("type", 2), 0, 2)
    BY ONLY <1>2, SpansOne
  <2> QED
    BY <2>1, TypeIs
<1>4. t = Told(Type \o fields, len, len)
  BY <1>1, <1>2 DEF AuthReply
<1> HIDE DEF len
<1>5. Spans(fields, 2, len)
  BY <1>2, WideSpans
<1>6. Spans(Type \o fields, 0, len)
  BY ONLY <1>3, <1>5, SpansCat
<1>7. Wide(Type \o fields, len)
  BY <1>6, SpansWide
<1> QED
  BY <1>2, <1>4, <1>7, ToldLaid

\* Messages of game managers: the header, and as much as it says.
LEMMA ManagedLaid ==
  ASSUME NEW fields, NEW w, Wide(fields, w), NEW len, len = header_len + w,
         NEW t, t = Managed(len, w, fields)
  PROVE  Laid(ToldIs(t))
<1> DEFINE head == Type \o Buf("len", 4) \o Buf("msgtype", 4) \o Reqid \o Buf("gameid", 4)
    \o Buf("len2", 4)
<1>1. w \in Nat
  BY DEF Wide
<1>2. Spans(head, 0, 22)
  BY ManagedHead
<1>3. t = Told(head \o fields, len, 6 + format_header(w))
  BY DEF Managed
<1> HIDE DEF head
<1>4. 22 \in Nat /\ len = 22 + w /\ 6 + format_header(w) = len /\ len > 0
  BY <1>1 DEF format_header, header_len
<1>5. Spans(fields, 22, len)
  BY <1>4, WideSpans
<1>6. Spans(head \o fields, 0, len)
  BY ONLY <1>2, <1>5, SpansCat
<1>7. Wide(head \o fields, len)
  BY <1>6, SpansWide
<1> QED
  BY <1>3, <1>4, <1>7, ToldLaid

\* A field that may be there.
LEMMA OptWide ==
  ASSUME NEW b \in BOOLEAN, NEW name, NEW w \in Nat
  PROVE  Wide(Opt(b, Buf(name, w)), IF b THEN w ELSE 0)
<1>1. CASE b
  <2>1. Opt(b, Buf(name, w)) = Buf(name, w) /\ (IF b THEN w ELSE 0) = w
    BY <1>1 DEF Opt
  <2>2. Wide(Buf(name, w), w)
    BY WideOne
  <2> QED
    BY <2>1, <2>2
<1>2. CASE ~b
  <2>1. Opt(b, Buf(name, w)) = <<>> /\ (IF b THEN w ELSE 0) = 0
    BY <1>2 DEF Opt
  <2> QED
    BY <2>1, WideNone
<1> QED
  BY <1>1, <1>2

\* Game messages with or without a time and a player.
LEMMA PropagatedLaid ==
  ASSUME NEW time \in BOOLEAN, NEW player \in BOOLEAN, NEW fields, NEW w, Wide(fields, w),
         NEW len, len = body_offset(time, player) + w,
         NEW t, t = Propagated(time, player, len, fields)
  PROVE  Laid(ToldIs(t))
<1> DEFINE x == IF time THEN 8 ELSE 0
           y == IF player THEN 4 ELSE 0
           u == 16 + x
           v == u + y
           a == Opt(time, Buf("time", 8))
           b == Opt(player, Buf("ki", 4))
           p == Type \o Buf("subtype", 4) \o Buf("len", 4) \o Buf("again", 2)
               \o Buf("flags", 4)
<1>1. w \in Nat /\ x \in Nat /\ y \in Nat
  BY DEF Wide
<1>2. Wide(a, x) /\ Wide(b, y)
  BY OptWide
<1>3. Spans(p, 0, 16)
  BY PropagatedHead
<1>4. t = Told(p \o a \o b \o fields, len, 10 + (len - 10))
  BY DEF Propagated
<1>5. len = v + w
  BY <1>1 DEF body_offset
<1> HIDE DEF p, a, b, x, y
<1>6. 16 \in Nat /\ u \in Nat /\ u = 16 + x /\ v \in Nat /\ v = u + y /\ 10 + (len - 10)
          = len /\ len > 0
  BY <1>1, <1>5
<1> HIDE DEF u, v
<1>7. Spans(a, 16, u)
  BY ONLY <1>2, <1>6, WideSpans
<1>8. Spans(b, u, v)
  BY ONLY <1>2, <1>6, WideSpans
<1>9. Spans(fields, v, len)
  BY <1>5, <1>6, WideSpans
<1>10. Spans(p \o a, 0, u)
  BY ONLY <1>3, <1>7, SpansCat
<1>11. Spans(p \o a \o b, 0, v)
  BY ONLY <1>8, <1>10, SpansCat
<1>12. Spans(p \o a \o b \o fields, 0, len)
  BY ONLY <1>9, <1>11, SpansCat
<1>13. Wide(p \o a \o b \o fields, len)
  BY <1>12, SpansWide
<1> QED
  BY <1>4, <1>6, <1>13, ToldLaid

\* AuthServerLogin, in its long form.
LEMMA AuthServerLoginLongLaid ==
  ASSUME NEW m, NEW n \in Nat, m.n = n, m.long
  PROVE  Laid(ToldIs(AuthServerLogin(m)))
<1> DEFINE w1 == Buf("uuid", UUID) \o Buf("unk", 4) \o Buf("customer_type", 4)
           w2 == Reqid \o Buf("status", 4) \o (w1 \o Buf("key", 16))
<1>1. AuthServerLogin(m) = AuthReply(w2, 48)
  BY DEF AuthServerLogin
<1>2. 0 \in Nat /\ 4 \in Nat /\ 4 = 0 + 4
  OBVIOUS
<1>3. Reqid = Buf("reqid", 4)
  BY ReqidIs
<1>4. Spans(Buf("reqid", 4), 0, 4)
  BY ONLY <1>2, SpansOne
<1>5. Spans(Reqid, 0, 4)
  BY ONLY <1>3, <1>4
<1>6. 4 \in Nat /\ 8 = 4 + 4
  OBVIOUS
<1>7. Spans(Buf("status", 4), 4, 8)
  BY ONLY <1>6, SpansOne
<1>8. Spans(Reqid \o Buf("status", 4), 0, 8)
  BY ONLY <1>5, <1>7, SpansCat
<1>9. 8 \in Nat /\ 16 \in Nat /\ 24 = 8 + 16
  OBVIOUS
<1>10. UUID = 16
  BY SendIs DEF UUID, HEADER
<1>11. Spans(Buf("uuid", 16), 8, 24)
  BY ONLY <1>9, SpansOne
<1>12. Spans(Buf("uuid", UUID), 8, 24)
  BY ONLY <1>10, <1>11
<1>13. 24 \in Nat /\ 4 \in Nat /\ 28 = 24 + 4
  OBVIOUS
<1>14. Spans(Buf("unk", 4), 24, 28)
  BY ONLY <1>13, SpansOne
<1>15. Spans(Buf("uuid", UUID) \o Buf("unk", 4), 8, 28)
  BY ONLY <1>12, <1>14, SpansCat
<1>16. 28 \in Nat /\ 4 \in Nat /\ 32 = 28 + 4
  OBVIOUS
<1>17. Spans(Buf("customer_type", 4), 28, 32)
  BY ONLY <1>16, SpansOne
<1>18. Spans(w1, 8, 32)
  BY ONLY <1>15, <1>17, SpansCat
<1>19. 32 \in Nat /\ 16 \in Nat /\ 48 = 32 + 16
  OBVIOUS
<1>20. Spans(Buf("key", 16), 32, 48)
  BY ONLY <1>19, SpansOne
<1>21. Spans(w1 \o Buf("key", 16), 8, 48)
  BY ONLY <1>18, <1>20, SpansCat
<1>22. Spans(w2, 0, 48)
  BY ONLY <1>8, <1>21, SpansCat
<1>23. Wide(w2, 48)
  BY <1>22, SpansWide
<1> QED
  BY <1>1, <1>23, AuthReplyLaid

\* AuthServerLogin, in its short form.
LEMMA AuthServerLoginShortLaid ==
  ASSUME NEW m, NEW n \in Nat, m.n = n, ~m.long
  PROVE  Laid(ToldIs(AuthServerLogin(m)))
<1> DEFINE w1 == Reqid \o Buf("status", 4) \o Blank(40)
<1>1. AuthServerLogin(m) = AuthReply(w1, 48)
  BY DEF AuthServerLogin
<1>2. 0 \in Nat /\ 4 \in Nat /\ 4 = 0 + 4
  OBVIOUS
<1>3. Reqid = Buf("reqid", 4)
  BY ReqidIs
<1>4. Spans(Buf("reqid", 4), 0, 4)
  BY ONLY <1>2, SpansOne
<1>5. Spans(Reqid, 0, 4)
  BY ONLY <1>3, <1>4
<1>6. 4 \in Nat /\ 8 = 4 + 4
  OBVIOUS
<1>7. Spans(Buf("status", 4), 4, 8)
  BY ONLY <1>6, SpansOne
<1>8. Spans(Reqid \o Buf("status", 4), 0, 8)
  BY ONLY <1>5, <1>7, SpansCat
<1>9. 8 \in Nat /\ 40 \in Nat /\ 48 = 8 + 40
  OBVIOUS
<1>10. Blank(40) = Buf("blank", 40)
  BY BlankIs
<1>11. Spans(Buf("blank", 40), 8, 48)
  BY ONLY <1>9, SpansOne
<1>12. Spans(Blank(40), 8, 48)
  BY ONLY <1>10, <1>11
<1>13. Spans(w1, 0, 48)
  BY ONLY <1>8, <1>12, SpansCat
<1>14. Wide(w1, 48)
  BY <1>13, SpansWide
<1> QED
  BY <1>1, <1>14, AuthReplyLaid

\* AuthServerChangePass.
LEMMA AuthServerChangePassLaid ==
  ASSUME NEW m, NEW n \in Nat, m.n = n
  PROVE  Laid(ToldIs(AuthServerChangePass(m)))
<1> DEFINE w1 == Reqid \o Buf("status", 4)
<1>1. AuthServerChangePass(m) = AuthReply(w1, 8)
  BY DEF AuthServerChangePass
<1>2. 0 \in Nat /\ 4 \in Nat /\ 4 = 0 + 4
  OBVIOUS
<1>3. Reqid = Buf("reqid", 4)
  BY ReqidIs
<1>4. Spans(Buf("reqid", 4), 0, 4)
  BY ONLY <1>2, SpansOne
<1>5. Spans(Reqid, 0, 4)
  BY ONLY <1>3, <1>4
<1>6. 4 \in Nat /\ 8 = 4 + 4
  OBVIOUS
<1>7. Spans(Buf("status", 4), 4, 8)
  BY ONLY <1>6, SpansOne
<1>8. Spans(w1, 0, 8)
  BY ONLY <1>5, <1>7, SpansCat
<1>9. Wide(w1, 8)
  BY <1>8, SpansWide
<1> QED
  BY <1>1, <1>9, AuthReplyLaid

\* AuthServerPlayerCreate, in its long form.
LEMMA AuthServerPlayerCreateLongLaid ==
  ASSUME NEW m, NEW n \in Nat, m.n = n, m.long
  PROVE  Laid(ToldIs(AuthServerPlayerCreate(m)))
<1> DEFINE f1 == Str(m, "gender", WIDE, 0)
           w1 == Reqid \o Buf("status", 4) \o Buf("kinum", 4)
           w2 == w1 \o Buf("acct_type", 4) \o Str(m, "name", WIDE, 0)
<1>1. AuthServerPlayerCreate(m) = AuthReply(w2 \o f1, 16 + 2 * send_len(m, WIDE, 0))
  BY DEF AuthServerPlayerCreate
<1>2. 0 \in Nat /\ 4 \in Nat /\ 4 = 0 + 4
  OBVIOUS
<1>3. Reqid = Buf("reqid", 4)
  BY ReqidIs
<1>4. Spans(Buf("reqid", 4), 0, 4)
  BY ONLY <1>2, SpansOne
<1>5. Spans(Reqid, 0, 4)
  BY ONLY <1>3, <1>4
<1>6. 4 \in Nat /\ 8 = 4 + 4
  OBVIOUS
<1>7. Spans(Buf("status", 4), 4, 8)
  BY ONLY <1>6, SpansOne
<1>8. Spans(Reqid \o Buf("status", 4), 0, 8)
  BY ONLY <1>5, <1>7, SpansCat
<1>9. 8 \in Nat /\ 4 \in Nat /\ 12 = 8 + 4
  OBVIOUS
<1>10. Spans(Buf("kinum", 4), 8, 12)
  BY ONLY <1>9, SpansOne
<1>11. Spans(w1, 0, 12)
  BY ONLY <1>8, <1>10, SpansCat
<1>12. 12 \in Nat /\ 4 \in Nat /\ 16 = 12 + 4
  OBVIOUS
<1>13. Spans(Buf("acct_type", 4), 12, 16)
  BY ONLY <1>12, SpansOne
<1>14. Spans(w1 \o Buf("acct_type", 4), 0, 16)
  BY ONLY <1>11, <1>13, SpansCat
<1>15. 16 \in Nat /\ (2 + 2 * n) \in Nat /\ 18 + 2 * n = 16 + (2 + 2 * n)
  OBVIOUS
<1>16. Str(m, "name", WIDE, 0) = Buf("name", 2 + 2 * n)
  BY StrIs
<1>17. Spans(Buf("name", 2 + 2 * n), 16, 18 + 2 * n)
  BY ONLY <1>15, SpansOne
<1>18. Spans(Str(m, "name", WIDE, 0), 16, 18 + 2 * n)
  BY ONLY <1>16, <1>17
<1>19. Spans(w2, 0, 18 + 2 * n)
  BY ONLY <1>14, <1>18, SpansCat
<1>20. (18 + 2 * n) \in Nat /\ (2 + 2 * n) \in Nat /\ 20 + 4 * n
           = (18 + 2 * n) + (2 + 2 * n)
  OBVIOUS
<1>21. f1 = Buf("gender", 2 + 2 * n)
  BY StrIs
<1>22. Spans(Buf("gender", 2 + 2 * n), 18 + 2 * n, 20 + 4 * n)
  BY ONLY <1>20, SpansOne
<1>23. Spans(f1, 18 + 2 * n, 20 + 4 * n)
  BY ONLY <1>21, <1>22
<1>24. Spans(w2 \o f1, 0, 20 + 4 * n)
  BY ONLY <1>19, <1>23, SpansCat
<1>25. Wide(w2 \o f1, 20 + 4 * n)
  BY <1>24, SpansWide
<1>26. 16 + 2 * send_len(m, WIDE, 0) = 20 + 4 * n
  BY SendIs DEF UUID
<1>27. AuthServerPlayerCreate(m) = AuthReply(w2 \o f1, 20 + 4 * n)
  BY <1>1, <1>26
<1> QED
  BY <1>27, <1>25, AuthReplyLaid

\* AuthServerPlayerCreate, in its short form.
LEMMA AuthServerPlayerCreateShortLaid ==
  ASSUME NEW m, NEW n \in Nat, m.n = n, ~m.long
  PROVE  Laid(ToldIs(AuthServerPlayerCreate(m)))
<1> DEFINE w1 == Reqid \o Buf("status", 4) \o Blank(12)
<1>1. AuthServerPlayerCreate(m) = AuthReply(w1, 20)
  BY DEF AuthServerPlayerCreate
<1>2. 0 \in Nat /\ 4 \in Nat /\ 4 = 0 + 4
  OBVIOUS
<1>3. Reqid = Buf("reqid", 4)
  BY ReqidIs
<1>4. Spans(Buf("reqid", 4), 0, 4)
  BY ONLY <1>2, SpansOne
<1>5. Spans(Reqid, 0, 4)
  BY ONLY <1>3, <1>4
<1>6. 4 \in Nat /\ 8 = 4 + 4
  OBVIOUS
<1>7. Spans(Buf("status", 4), 4, 8)
  BY ONLY <1>6, SpansOne
<1>8. Spans(Reqid \o Buf("status", 4), 0, 8)
  BY ONLY <1>5, <1>7, SpansCat
<1>9. 8 \in Nat /\ 12 \in Nat /\ 20 = 8 + 12
  OBVIOUS
<1>10. Blank(12) = Buf("blank", 12)
  BY BlankIs
<1>11. Spans(Buf("blank", 12), 8, 20)
  BY ONLY <1>9, SpansOne
<1>12. Spans(Blank(12), 8, 20)
  BY ONLY <1>10, <1>11
<1>13. Spans(w1, 0, 20)
  BY ONLY <1>8, <1>12, SpansCat
<1>14. Wide(w1, 20)
  BY <1>13, SpansWide
<1> QED
  BY <1>1, <1>14, AuthReplyLaid

\* AuthServerKick.
LEMMA AuthServerKickLaid ==
  ASSUME NEW m, NEW n \in Nat, m.n = n
  PROVE  Laid(ToldIs(AuthServerKick(m)))
<1>1. AuthServerKick(m) = AuthReply(Buf("reason", 4), 4)
  BY DEF AuthServerKick
<1>2. 0 \in Nat /\ 4 \in Nat /\ 4 = 0 + 4
  OBVIOUS
<1>3. Spans(Buf("reason", 4), 0, 4)
  BY ONLY <1>2, SpansOne
<1>4. Wide(Buf("reason", 4), 4)
  BY <1>3, SpansWide
<1> QED
  BY <1>1, <1>4, AuthReplyLaid

\* AuthServerAgeReply.
LEMMA AuthServerAgeReplyLaid ==
  ASSUME NEW m, NEW n \in Nat, m.n = n
  PROVE  Laid(ToldIs(AuthServerAgeReply(m)))
<1> DEFINE w1 == Type \o Reqid \o Buf("result", 4) \o Buf("body", 28)
<1>1. AuthServerAgeReply(m) = Told(w1, 28 + 10, 38)
  BY DEF AuthServerAgeReply
<1>2. 0 \in Nat /\ 2 \in Nat /\ 2 = 0 + 2
  OBVIOUS
<1>3. Type = Buf("type", 2)
  BY TypeIs
<1>4. Spans(Buf("type", 2), 0, 2)
  BY ONLY <1>2, SpansOne
<1>5. Spans(Type, 0, 2)
  BY ONLY <1>3, <1>4
<1>6. 2 \in Nat /\ 4 \in Nat /\ 6 = 2 + 4
  OBVIOUS
<1>7. Reqid = Buf("reqid", 4)
  BY ReqidIs
<1>8. Spans(Buf("reqid", 4), 2, 6)
  BY ONLY <1>6, SpansOne
<1>9. Spans(Reqid, 2, 6)
  BY ONLY <1>7, <1>8
<1>10. Spans(Type \o Reqid, 0, 6)
  BY ONLY <1>5, <1>9, SpansCat
<1>11. 6 \in Nat /\ 4 \in Nat /\ 10 = 6 + 4
  OBVIOUS
<1>12. Spans(Buf("result", 4), 6, 10)
  BY ONLY <1>11, SpansOne
<1>13. Spans(Type \o Reqid \o Buf("result", 4), 0, 10)
  BY ONLY <1>10, <1>12, SpansCat
<1>14. 10 \in Nat /\ 28 \in Nat /\ 38 = 10 + 28
  OBVIOUS
<1>15. Spans(Buf("body", 28), 10, 38)
  BY ONLY <1>14, SpansOne
<1>16. Spans(w1, 0, 38)
  BY ONLY <1>13, <1>15, SpansCat
<1>17. Wide(w1, 38)
  BY <1>16, SpansWide
<1>18. 28 + 10 = 38 /\ 38 = 38 /\ 38 > 0
  BY SendIs
<1>19. AuthServerAgeReply(m) = Told(w1, 38, 38)
  BY <1>1, <1>18
<1> QED
  BY <1>19, <1>17, <1>18, ToldLaid

\* GameJoinReply.
LEMMA GameJoinReplyLaid ==
  ASSUME NEW m, NEW n \in Nat, m.n = n
  PROVE  Laid(ToldIs(GameJoinReply(m)))
<1> DEFINE w1 == Type \o Reqid \o Buf("result", 4)
<1>1. GameJoinReply(m) = Told(w1, 10, 10)
  BY DEF GameJoinReply
<1>2. 0 \in Nat /\ 2 \in Nat /\ 2 = 0 + 2
  OBVIOUS
<1>3. Type = Buf("type", 2)
  BY TypeIs
<1>4. Spans(Buf("type", 2), 0, 2)
  BY ONLY <1>2, SpansOne
<1>5. Spans(Type, 0, 2)
  BY ONLY <1>3, <1>4
<1>6. 2 \in Nat /\ 4 \in Nat /\ 6 = 2 + 4
  OBVIOUS
<1>7. Reqid = Buf("reqid", 4)
  BY ReqidIs
<1>8. Spans(Buf("reqid", 4), 2, 6)
  BY ONLY <1>6, SpansOne
<1>9. Spans(Reqid, 2, 6)
  BY ONLY <1>7, <1>8
<1>10. Spans(Type \o Reqid, 0, 6)
  BY ONLY <1>5, <1>9, SpansCat
<1>11. 6 \in Nat /\ 4 \in Nat /\ 10 = 6 + 4
  OBVIOUS
<1>12. Spans(Buf("result", 4), 6, 10)
  BY ONLY <1>11, SpansOne
<1>13. Spans(w1, 0, 10)
  BY ONLY <1>10, <1>12, SpansCat
<1>14. Wide(w1, 10)
  BY <1>13, SpansWide
<1>15. 10 = 10 /\ 10 = 10 /\ 10 > 0
  BY SendIs
<1>16. GameJoinReply(m) = Told(w1, 10, 10)
  BY <1>1, <1>15
<1> QED
  BY <1>16, <1>14, <1>15, ToldLaid

\* PlNetMsgGroupOwner.
LEMMA PlNetMsgGroupOwnerLaid ==
  ASSUME NEW m, NEW n \in Nat, m.n = n
  PROVE  Laid(ToldIs(PlNetMsgGroupOwner(m)))
<1> DEFINE w1 == Buf("mask", 4) \o Buf("group", 6) \o Buf("unk", 1)
<1>1. PlNetMsgGroupOwner(m) = Propagated(TRUE, FALSE, body_offset(TRUE, FALSE) + 12, w1
          \o Buf("is_owner", 1))
  BY DEF PlNetMsgGroupOwner
<1>2. 0 \in Nat /\ 4 \in Nat /\ 4 = 0 + 4
  OBVIOUS
<1>3. Spans(Buf("mask", 4), 0, 4)
  BY ONLY <1>2, SpansOne
<1>4. 4 \in Nat
      /\ 6 \in Nat /\ 10 = 4 + 6
  OBVIOUS
<1>5. Spans(Buf("group", 6), 4, 10)
  BY ONLY <1>4, SpansOne
<1>6. Spans(Buf("mask", 4) \o Buf("group", 6), 0, 10)
  BY ONLY <1>3, <1>5, SpansCat
<1>7. 10 \in Nat /\ 1 \in Nat /\ 11 = 10 + 1
  OBVIOUS
<1>8. Spans(Buf("unk", 1), 10, 11)
  BY ONLY <1>7, SpansOne
<1>9. Spans(w1, 0, 11)
  BY ONLY <1>6, <1>8, SpansCat
<1>10. 11 \in Nat /\ 1 \in Nat /\ 12 = 11 + 1
  OBVIOUS
<1>11. Spans(Buf("is_owner", 1), 11, 12)
  BY ONLY <1>10, SpansOne
<1>12. Spans(w1 \o Buf("is_owner", 1), 0, 12)
  BY ONLY <1>9, <1>11, SpansCat
<1>13. Wide(w1 \o Buf("is_owner", 1), 12)
  BY <1>12, SpansWide
<1>14. body_offset(TRUE, FALSE) + 12 = body_offset(TRUE, FALSE) + 12
  BY SendIs DEF body_offset, KEY
<1> QED
  BY <1>1, <1>13, <1>14, PropagatedLaid

\* PlNetMsgInitialAgeStateSent.
LEMMA PlNetMsgInitialAgeStateSentLaid ==
  ASSUME NEW m, NEW n \in Nat, m.n = n
  PROVE  Laid(ToldIs(PlNetMsgInitialAgeStateSent(m)))
<1>1. PlNetMsgInitialAgeStateSent(m) = Propagated(TRUE, FALSE, body_offset(TRUE,
          FALSE) + 4, Buf("howmany", 4))
  BY DEF PlNetMsgInitialAgeStateSent
<1>2. 0 \in Nat /\ 4 \in Nat /\ 4 = 0 + 4
  OBVIOUS
<1>3. Spans(Buf("howmany", 4), 0, 4)
  BY ONLY <1>2, SpansOne
<1>4. Wide(Buf("howmany", 4), 4)
  BY <1>3, SpansWide
<1>5. body_offset(TRUE, FALSE) + 4 = body_offset(TRUE, FALSE) + 4
  BY SendIs DEF body_offset, KEY
<1> QED
  BY <1>1, <1>4, <1>5, PropagatedLaid

\* PlNetMsgMembers, in its short form.
LEMMA PlNetMsgMembersShortLaid ==
  ASSUME NEW m, NEW n \in Nat, m.n = n, ~m.long
  PROVE  Laid(ToldIs(PlNetMsgMembers(m)))
<1> DEFINE w1 == Buf("unk", 4) \o Buf("contents", 2)
           f1 == Str(m, "name", NARROW, 0)
           w2 == w1 \o Buf("ki", 4) \o f1
<1>1. PlNetMsgMembers(m) = Propagated(TRUE, TRUE, finalize(m, 1), w2 \o Buf("ccr", 1)
          \o Buf("key", KEY) \o Buf("pagein", 1))
  BY DEF PlNetMsgMembers, MemberOf
<1>2. 0 \in Nat /\ 4 \in Nat /\ 4 = 0 + 4
  OBVIOUS
<1>3. Spans(Buf("unk", 4), 0, 4)
  BY ONLY <1>2, SpansOne
<1>4. 4 \in Nat /\ 2 \in Nat /\ 6 = 4 + 2
  OBVIOUS
<1>5. Spans(Buf("contents", 2), 4, 6)
  BY ONLY <1>4, SpansOne
<1>6. Spans(w1, 0, 6)
  BY ONLY <1>3, <1>5, SpansCat
<1>7. 6 \in Nat /\ 4 \in Nat /\ 10 = 6 + 4
  OBVIOUS
<1>8. Spans(Buf("ki", 4), 6, 10)
  BY ONLY <1>7, SpansOne
<1>9. Spans(w1 \o Buf("ki", 4), 0, 10)
  BY ONLY <1>6, <1>8, SpansCat
<1>10. 10 \in Nat /\ (2 + n) \in Nat /\ 12 + n = 10 + (2 + n)
  OBVIOUS
<1>11. f1 = Buf("name", 2 + n)
  BY StrIs
<1>12. Spans(Buf("name", 2 + n), 10, 12 + n)
  BY ONLY <1>10, SpansOne
<1>13. Spans(f1, 10, 12 + n)
  BY ONLY <1>11, <1>12
<1>14. Spans(w2, 0, 12 + n)
  BY ONLY <1>9, <1>13, SpansCat
<1>15. (12 + n) \in Nat /\ 1 \in Nat /\ 13 + n = (12 + n) + 1
  OBVIOUS
<1>16. Spans(Buf("ccr", 1), 12 + n, 13 + n)
  BY ONLY <1>15, SpansOne
<1>17. Spans(w2 \o Buf("ccr", 1), 0, 13 + n)
  BY ONLY <1>14, <1>16, SpansCat
<1>18. (13 + n) \in Nat /\ 1 \in Nat /\ 14 + n = (13 + n) + 1
  OBVIOUS
<1>19. KEY = 1
  BY KeyIs DEF UUID, HEADER
<1>20. Spans(Buf("key", 1), 13 + n, 14 + n)
  BY ONLY <1>18, SpansOne
<1>21. Spans(Buf("key", KEY), 13 + n, 14 + n)
  BY ONLY <1>19, <1>20
<1>22. Spans(w2 \o Buf("ccr", 1) \o Buf("key", KEY), 0, 14 + n)
  BY ONLY <1>17, <1>21, SpansCat
<1>23. (14 + n) \in Nat /\ 1 \in Nat /\ 15 + n = (14 + n) + 1
  OBVIOUS
<1>24. Spans(Buf("pagein", 1), 14 + n, 15 + n)
  BY ONLY <1>23, SpansOne
<1>25. Spans(w2 \o Buf("ccr", 1) \o Buf("key", KEY) \o Buf("pagein", 1), 0, 15 + n)
  BY ONLY <1>22, <1>24, SpansCat
<1>26. Wide(w2 \o Buf("ccr", 1) \o Buf("key", KEY) \o Buf("pagein", 1), 15 + n)
  BY <1>25, SpansWide
<1>27. finalize(m, 1) = body_offset(TRUE, TRUE) + (15 + n)
  BY SendIs DEF body_offset, KEY, finalize
<1> QED
  BY <1>1, <1>26, <1>27, PropagatedLaid

\* PlNetMsgSDLState.
LEMMA PlNetMsgSDLStateLaid ==
  ASSUME NEW m, NEW n \in Nat, m.n = n, m.long \in BOOLEAN
  PROVE  Laid(ToldIs(PlNetMsgSDLState(m)))
<1> DEFINE w1 == Buf("sdl", m.n) \o Buf("initial", 2)
<1>1. PlNetMsgSDLState(m) = Propagated(m.long, FALSE, body_offset(m.long, FALSE) + m.n + 3,
          w1 \o Buf("end", 1))
  BY DEF PlNetMsgSDLState
<1>2. 0 \in Nat /\ n \in Nat /\ n = 0 + n
  OBVIOUS
<1>3. m.n = n
  BY SendIs DEF UUID, HEADER
<1>4. Spans(Buf("sdl", n), 0, n)
  BY ONLY <1>2, SpansOne
<1>5. Spans(Buf("sdl", m.n), 0, n)
  BY ONLY <1>3, <1>4
<1>6. n \in Nat /\ 2 \in Nat /\ 2 + n = n + 2
  OBVIOUS
<1>7. Spans(Buf("initial", 2), n, 2 + n)
  BY ONLY <1>6, SpansOne
<1>8. Spans(w1, 0, 2 + n)
  BY ONLY <1>5, <1>7, SpansCat
<1>9. (2 + n) \in Nat /\ 1 \in Nat /\ 3 + n = (2 + n) + 1
  OBVIOUS
<1>10. Spans(Buf("end", 1), 2 + n, 3 + n)
  BY ONLY <1>9, SpansOne
<1>11. Spans(w1 \o Buf("end", 1), 0, 3 + n)
  BY ONLY <1>8, <1>10, SpansCat
<1>12. Wide(w1 \o Buf("end", 1), 3 + n)
  BY <1>11, SpansWide
<1>13. body_offset(m.long, FALSE) + m.n + 3 = body_offset(m.long, FALSE) + (3 + n)
  BY SendIs DEF body_offset, KEY
<1> QED
  BY <1>1, <1>12, <1>13, PropagatedLaid

\* PlServerReply.
LEMMA PlServerReplyLaid ==
  ASSUME NEW m, NEW n \in Nat, m.n = n
  PROVE  Laid(ToldIs(PlServerReply(m)))
<1> DEFINE w1 == Buf("wrapper", 9) \o Buf("msg_type", 2) \o Buf("object", 1)
           w2 == w1 \o Buf("subobject_count", 4) \o Buf("subobject", 1 + KEY)
<1>1. PlServerReply(m) = Propagated(TRUE, FALSE, body_offset(TRUE,
          FALSE) + 4 + 11 + 5 + 12 + 1 + 1 + KEY, w2 \o Buf("unk", 8) \o Buf("msg_flags",
          4) \o Buf("result", 4) \o Buf("end", 1))
  BY DEF PlServerReply
<1>2. 0 \in Nat /\ 9 \in Nat /\ 9 = 0 + 9
  OBVIOUS
<1>3. Spans(Buf("wrapper", 9), 0, 9)
  BY ONLY <1>2, SpansOne
<1>4. 9 \in Nat /\ 2 \in Nat /\ 11 = 9 + 2
  OBVIOUS
<1>5. Spans(Buf("msg_type", 2), 9, 11)
  BY ONLY <1>4, SpansOne
<1>6. Spans(Buf("wrapper", 9) \o Buf("msg_type", 2), 0, 11)
  BY ONLY <1>3, <1>5, SpansCat
<1>7. 11 \in Nat /\ 1 \in Nat /\ 12 = 11 + 1
  OBVIOUS
<1>8. Spans(Buf("object", 1), 11, 12)
  BY ONLY <1>7, SpansOne
<1>9. Spans(w1, 0, 12)
  BY ONLY <1>6, <1>8, SpansCat
<1>10. 12 \in Nat /\ 4 \in Nat /\ 16 = 12 + 4
  OBVIOUS
<1>11. Spans(Buf("subobject_count", 4), 12, 16)
  BY ONLY <1>10, SpansOne
<1>12. Spans(w1 \o Buf("subobject_count", 4), 0, 16)
  BY ONLY <1>9, <1>11, SpansCat
<1>13. 16 \in Nat /\ 2 \in Nat /\ 18 = 16 + 2
  OBVIOUS
<1>14. 1 + KEY = 2
  BY KeyIs DEF UUID, HEADER
<1>15. Spans(Buf("subobject", 2), 16, 18)
  BY ONLY <1>13, SpansOne
<1>16. Spans(Buf("subobject", 1 + KEY), 16, 18)
  BY ONLY <1>14, <1>15
<1>17. Spans(w2, 0, 18)
  BY ONLY <1>12, <1>16, SpansCat
<1>18. 18 \in Nat /\ 8 \in Nat /\ 26 = 18 + 8
  OBVIOUS
<1>19. Spans(Buf("unk", 8), 18, 26)
  BY ONLY <1>18, SpansOne
<1>20. Spans(w2 \o Buf("unk", 8), 0, 26)
  BY ONLY <1>17, <1>19, SpansCat
<1>21. 26 \in Nat /\ 4 \in Nat /\ 30 = 26 + 4
  OBVIOUS
<1>22. Spans(Buf("msg_flags", 4), 26, 30)
  BY ONLY <1>21, SpansOne
<1>23. Spans(w2 \o Buf("unk", 8) \o Buf("msg_flags", 4), 0, 30)
  BY ONLY <1>20, <1>22, SpansCat
<1>24. 30 \in Nat /\ 4 \in Nat /\ 34 = 30 + 4
  OBVIOUS
<1>25. Spans(Buf("result", 4), 30, 34)
  BY ONLY <1>24, SpansOne
<1>26. Spans(w2 \o Buf("unk", 8) \o Buf("msg_flags", 4) \o Buf("result", 4), 0, 34)
  BY ONLY <1>23, <1>25, SpansCat
<1>27. 34 \in Nat /\ 1 \in Nat /\ 35 = 34 + 1
  OBVIOUS
<1>28. Spans(Buf("end", 1), 34, 35)
  BY ONLY <1>27, SpansOne
<1>29. Spans(w2 \o Buf("unk", 8) \o Buf("msg_flags", 4) \o Buf("result", 4) \o Buf("end",
           1), 0, 35)
  BY ONLY <1>26, <1>28, SpansCat
<1>30. Wide(w2 \o Buf("unk", 8) \o Buf("msg_flags", 4) \o Buf("result", 4) \o Buf("end",
           1), 35)
  BY <1>29, SpansWide
<1>31. body_offset(TRUE, FALSE) + 4 + 11 + 5 + 12 + 1 + 1 + KEY = body_offset(TRUE,
           FALSE) + 35
  BY SendIs DEF body_offset, KEY
<1> QED
  BY <1>1, <1>30, <1>31, PropagatedLaid

\* PlNetMsgLoadClone.
LEMMA PlNetMsgLoadCloneLaid ==
  ASSUME NEW m, NEW n \in Nat, m.n = n
  PROVE  Laid(ToldIs(PlNetMsgLoadClone(m)))
<1> DEFINE w1 == Buf("clone", m.n) \o Buf("object", KEY) \o Buf("player", 1)
<1>1. PlNetMsgLoadClone(m) = Propagated(TRUE, TRUE, body_offset(TRUE,
          TRUE) + m.n + KEY + 3, w1 \o Buf("is_load", 2))
  BY DEF PlNetMsgLoadClone
<1>2. 0 \in Nat /\ n \in Nat /\ n = 0 + n
  OBVIOUS
<1>3. m.n = n
  BY SendIs DEF UUID, HEADER
<1>4. Spans(Buf("clone", n), 0, n)
  BY ONLY <1>2, SpansOne
<1>5. Spans(Buf("clone", m.n), 0, n)
  BY ONLY <1>3, <1>4
<1>6. n \in Nat /\ 1 \in Nat /\ 1 + n = n + 1
  OBVIOUS
<1>7. KEY = 1
  BY KeyIs DEF UUID, HEADER
<1>8. Spans(Buf("object", 1), n, 1 + n)
  BY ONLY <1>6, SpansOne
<1>9. Spans(Buf("object", KEY), n, 1 + n)
  BY ONLY <1>7, <1>8
<1>10. Spans(Buf("clone", m.n) \o Buf("object", KEY), 0, 1 + n)
  BY ONLY <1>5, <1>9, SpansCat
<1>11. (1 + n) \in Nat /\ 1 \in Nat /\ 2 + n = (1 + n) + 1
  OBVIOUS
<1>12. Spans(Buf("player", 1), 1 + n, 2 + n)
  BY ONLY <1>11, SpansOne
<1>13. Spans(w1, 0, 2 + n)
  BY ONLY <1>10, <1>12, SpansCat
<1>14. (2 + n) \in Nat /\ 2 \in Nat /\ 4 + n = (2 + n) + 2
  OBVIOUS
<1>15. Spans(Buf("is_load", 2), 2 + n, 4 + n)
  BY ONLY <1>14, SpansOne
<1>16. Spans(w1 \o Buf("is_load", 2), 0, 4 + n)
  BY ONLY <1>13, <1>15, SpansCat
<1>17. Wide(w1 \o Buf("is_load", 2), 4 + n)
  BY <1>16, SpansWide
<1>18. body_offset(TRUE, TRUE) + m.n + KEY + 3 = body_offset(TRUE, TRUE) + (4 + n)
  BY SendIs DEF body_offset, KEY
<1> QED
  BY <1>1, <1>17, <1>18, PropagatedLaid

\* GameMgr_Setup_Reply.
LEMMA GameMgr_Setup_ReplyLaid ==
  ASSUME NEW m, NEW n \in Nat, m.n = n
  PROVE  Laid(ToldIs(GameMgr_Setup_Reply(m)))
<1> DEFINE w1 == Blank(4) \o Buf("clientid", 4)
           w2 == w1 \o Buf("uuid", UUID) \o Buf("new_gameid", 4)
<1>1. GameMgr_Setup_Reply(m) = Managed(header_len + 12 + UUID,
          header_len + 12 + UUID - header_len, w2)
  BY DEF GameMgr_Setup_Reply
<1>2. 0 \in Nat /\ 4 \in Nat /\ 4 = 0 + 4
  OBVIOUS
<1>3. Blank(4) = Buf("blank", 4)
  BY BlankIs
<1>4. Spans(Buf("blank", 4), 0, 4)
  BY ONLY <1>2, SpansOne
<1>5. Spans(Blank(4), 0, 4)
  BY ONLY <1>3, <1>4
<1>6. 4 \in Nat /\ 8 = 4 + 4
  OBVIOUS
<1>7. Spans(Buf("clientid", 4), 4, 8)
  BY ONLY <1>6, SpansOne
<1>8. Spans(w1, 0, 8)
  BY ONLY <1>5, <1>7, SpansCat
<1>9. 8 \in Nat /\ 16 \in Nat /\ 24 = 8 + 16
  OBVIOUS
<1>10. UUID = 16
  BY SendIs DEF UUID, HEADER
<1>11. Spans(Buf("uuid", 16), 8, 24)
  BY ONLY <1>9, SpansOne
<1>12. Spans(Buf("uuid", UUID), 8, 24)
  BY ONLY <1>10, <1>11
<1>13. Spans(w1 \o Buf("uuid", UUID), 0, 24)
  BY ONLY <1>8, <1>12, SpansCat
<1>14. 24 \in Nat /\ 4 \in Nat /\ 28 = 24 + 4
  OBVIOUS
<1>15. Spans(Buf("new_gameid", 4), 24, 28)
  BY ONLY <1>14, SpansOne
<1>16. Spans(w2, 0, 28)
  BY ONLY <1>13, <1>15, SpansCat
<1>17. Wide(w2, 28)
  BY <1>16, SpansWide
<1>18. header_len + 12 + UUID - header_len = 28 /\ header_len + 12 + UUID = header_len + 28
  BY DEF header_len, UUID
<1>19. GameMgr_Setup_Reply(m) = Managed(header_len + 12 + UUID, 28, w2)
  BY <1>1, <1>18
<1> QED
  BY <1>19, <1>17, <1>18, ManagedLaid

\* GameMgr_Simple.
LEMMA GameMgr_SimpleLaid ==
  ASSUME NEW m, NEW n \in Nat, m.n = n
  PROVE  Laid(ToldIs(GameMgr_Simple(m)))
<1>1. GameMgr_Simple(m) = Managed(header_len, 0, <<>>)
  BY DEF GameMgr_Simple
<1>2. 0 \in Nat
  OBVIOUS
<1>3. Spans(<<>>, 0, 0)
  BY ONLY <1>2, SpansNone
<1>4. Wide(<<>>, 0)
  BY <1>3, SpansWide
<1>5. 0 = 0 /\ header_len = header_len + 0
  BY DEF header_len, UUID
<1>6. GameMgr_Simple(m) = Managed(header_len, 0, <<>>)
  BY <1>1, <1>5
<1> QED
  BY <1>6, <1>4, <1>5, ManagedLaid

\* GameMgr_OneByte.
LEMMA GameMgr_OneByteLaid ==
  ASSUME NEW m, NEW n \in Nat, m.n = n
  PROVE  Laid(ToldIs(GameMgr_OneByte(m)))
<1>1. GameMgr_OneByte(m) = Managed(header_len + 1, 1, Buf("data", 1))
  BY DEF GameMgr_OneByte
<1>2. 0 \in Nat /\ 1 \in Nat /\ 1 = 0 + 1
  OBVIOUS
<1>3. Spans(Buf("data", 1), 0, 1)
  BY ONLY <1>2, SpansOne
<1>4. Wide(Buf("data", 1), 1)
  BY <1>3, SpansWide
<1>5. 1 = 1 /\ header_len + 1 = header_len + 1
  BY DEF header_len, UUID
<1>6. GameMgr_OneByte(m) = Managed(header_len + 1, 1, Buf("data", 1))
  BY <1>1, <1>5
<1> QED
  BY <1>6, <1>4, <1>5, ManagedLaid

\* GameMgr_FourByte.
LEMMA GameMgr_FourByteLaid ==
  ASSUME NEW m, NEW n \in Nat, m.n = n
  PROVE  Laid(ToldIs(GameMgr_FourByte(m)))
<1>1. GameMgr_FourByte(m) = Managed(header_len + 4, 4, Buf("data", 4))
  BY DEF GameMgr_FourByte
<1>2. 0 \in Nat /\ 4 \in Nat /\ 4 = 0 + 4
  OBVIOUS
<1>3. Spans(Buf("data", 4), 0, 4)
  BY ONLY <1>2, SpansOne
<1>4. Wide(Buf("data", 4), 4)
  BY <1>3, SpansWide
<1>5. 4 = 4 /\ header_len + 4 = header_len + 4
  BY DEF header_len, UUID
<1>6. GameMgr_FourByte(m) = Managed(header_len + 4, 4, Buf("data", 4))
  BY <1>1, <1>5
<1> QED
  BY <1>6, <1>4, <1>5, ManagedLaid

\* GameMgr_VarSync_VarCreated.
LEMMA GameMgr_VarSync_VarCreatedLaid ==
  ASSUME NEW m, NEW n \in Nat, m.n = n, 2 * n + 2 <= 512
  PROVE  Laid(ToldIs(GameMgr_VarSync_VarCreated(m)))
<1> DEFINE w1 == InField(m, "name", 512) \o Buf("idx", 4) \o Buf("value", 8)
<1>1. GameMgr_VarSync_VarCreated(m) = Managed(header_len + 524, 524, w1)
  BY DEF GameMgr_VarSync_VarCreated
<1>2. 2 * n + 2 <= 512
  OBVIOUS
<1>3. Wide(InField(m, "name", 512), 512)
  BY InFieldIs
<1>4. 0 \in Nat /\ 512 \in Nat /\ 512 = 0 + 512
  OBVIOUS
<1>5. Spans(InField(m, "name", 512), 0, 512)
  BY ONLY <1>3, <1>4, WideSpans
<1>6. 512 \in Nat /\ 4 \in Nat /\ 516 = 512 + 4
  OBVIOUS
<1>7. Spans(Buf("idx", 4), 512, 516)
  BY ONLY <1>6, SpansOne
<1>8. Spans(InField(m, "name", 512) \o Buf("idx", 4), 0, 516)
  BY ONLY <1>5, <1>7, SpansCat
<1>9. 516 \in Nat /\ 8 \in Nat /\ 524 = 516 + 8
  OBVIOUS
<1>10. Spans(Buf("value", 8), 516, 524)
  BY ONLY <1>9, SpansOne
<1>11. Spans(w1, 0, 524)
  BY ONLY <1>8, <1>10, SpansCat
<1>12. Wide(w1, 524)
  BY <1>11, SpansWide
<1>13. 524 = 524 /\ header_len + 524 = header_len + 524
  BY DEF header_len, UUID
<1>14. GameMgr_VarSync_VarCreated(m) = Managed(header_len + 524, 524, w1)
  BY <1>1, <1>13
<1> QED
  BY <1>14, <1>12, <1>13, ManagedLaid

\* GameMgr_Marker_GameCreated.
LEMMA GameMgr_Marker_GameCreatedLaid ==
  ASSUME NEW m, NEW n \in Nat, m.n = n
  PROVE  Laid(ToldIs(GameMgr_Marker_GameCreated(m)))
<1> DEFINE w1 == Buf("uuid", UUID_STR_LEN * 2) \o Buf("blank", 160 - UUID_STR_LEN * 2)
<1>1. GameMgr_Marker_GameCreated(m) = Managed(header_len + 160, 160, w1)
  BY DEF GameMgr_Marker_GameCreated, Blank, Buf
<1>2. UUID_STR_LEN * 2 = 74
  BY DEF UUID_STR_LEN
<1>3. 160 - UUID_STR_LEN * 2 = 86
  BY DEF UUID_STR_LEN
<1>4. 0 \in Nat /\ 74 \in Nat /\ 74 = 0 + 74
  OBVIOUS
<1>5. Spans(Buf("uuid", 74), 0, 74)
  BY ONLY <1>4, SpansOne
<1>6. Spans(Buf("uuid", UUID_STR_LEN * 2), 0, 74)
  BY ONLY <1>2, <1>5
<1>7. 74 \in Nat /\ 86 \in Nat /\ 160 = 74 + 86
  OBVIOUS
<1>8. Spans(Buf("blank", 86), 74, 160)
  BY ONLY <1>7, SpansOne
<1>9. Spans(Buf("blank", 160 - UUID_STR_LEN * 2), 74, 160)
  BY ONLY <1>3, <1>8
<1>10. Spans(w1, 0, 160)
  BY ONLY <1>6, <1>9, SpansCat
<1>11. Wide(w1, 160)
  BY <1>10, SpansWide
<1>12. 160 = 160 /\ header_len + 160 = header_len + 160
  BY DEF header_len, UUID
<1>13. GameMgr_Marker_GameCreated(m) = Managed(header_len + 160, 160, w1)
  BY <1>1, <1>12
<1> QED
  BY <1>13, <1>11, <1>12, ManagedLaid

\* GameMgr_Marker_GameNameChanged.
LEMMA GameMgr_Marker_GameNameChangedLaid ==
  ASSUME NEW m, NEW n \in Nat, m.n = n, 2 * n + 2 <= 512
  PROVE  Laid(ToldIs(GameMgr_Marker_GameNameChanged(m)))
<1>1. GameMgr_Marker_GameNameChanged(m) = Managed(header_len + 512, 512, InField(m, "name",
          512))
  BY DEF GameMgr_Marker_GameNameChanged
<1>2. 2 * n + 2 <= 512
  OBVIOUS
<1>3. Wide(InField(m, "name", 512), 512)
  BY InFieldIs
<1>4. 0 \in Nat /\ 512 \in Nat /\ 512 = 0 + 512
  OBVIOUS
<1>5. Spans(InField(m, "name", 512), 0, 512)
  BY ONLY <1>3, <1>4, WideSpans
<1>6. Wide(InField(m, "name", 512), 512)
  BY <1>5, SpansWide
<1>7. 512 = 512 /\ header_len + 512 = header_len + 512
  BY DEF header_len, UUID
<1>8. GameMgr_Marker_GameNameChanged(m) = Managed(header_len + 512, 512, InField(m, "name",
          512))
  BY <1>1, <1>7
<1> QED
  BY <1>8, <1>6, <1>7, ManagedLaid

\* GameMgr_Marker_MarkerAdded.
LEMMA GameMgr_Marker_MarkerAddedLaid ==
  ASSUME NEW m, NEW n \in Nat, m.n = n, 2 * n + 2 <= 160
  PROVE  Laid(ToldIs(GameMgr_Marker_MarkerAdded(m)))
<1> DEFINE w1 == Buf("data", 28) \o InField(m, "name", 512) \o InField(m, "age", 160)
<1>1. GameMgr_Marker_MarkerAdded(m) = Managed(header_len + 28 + 512 + 160, 28 + 512 + 160,
          w1)
  BY DEF GameMgr_Marker_MarkerAdded
<1>2. 2 * n + 2 <= 512 /\ 2 * n + 2 <= 160
  OBVIOUS
<1>3. 0 \in Nat /\ 28 \in Nat /\ 28 = 0 + 28
  OBVIOUS
<1>4. Spans(Buf("data", 28), 0, 28)
  BY ONLY <1>3, SpansOne
<1>5. Wide(InField(m, "name", 512), 512)
  BY InFieldIs
<1>6. 28 \in Nat /\ 512 \in Nat /\ 540 = 28 + 512
  OBVIOUS
<1>7. Spans(InField(m, "name", 512), 28, 540)
  BY ONLY <1>5, <1>6, WideSpans
<1>8. Spans(Buf("data", 28) \o InField(m, "name", 512), 0, 540)
  BY ONLY <1>4, <1>7, SpansCat
<1>9. Wide(InField(m, "age", 160), 160)
  BY InFieldIs
<1>10. 540 \in Nat /\ 160 \in Nat /\ 700 = 540 + 160
  OBVIOUS
<1>11. Spans(InField(m, "age", 160), 540, 700)
  BY ONLY <1>9, <1>10, WideSpans
<1>12. Spans(w1, 0, 700)
  BY ONLY <1>8, <1>11, SpansCat
<1>13. Wide(w1, 700)
  BY <1>12, SpansWide
<1>14. 28 + 512 + 160 = 700 /\ header_len + 28 + 512 + 160 = header_len + 700
  BY DEF header_len, UUID
<1>15. GameMgr_Marker_MarkerAdded(m) = Managed(header_len + 28 + 512 + 160, 700, w1)
  BY <1>1, <1>14
<1> QED
  BY <1>15, <1>13, <1>14, ManagedLaid

\* GameMgr_Marker_MarkerCaptured.
LEMMA GameMgr_Marker_MarkerCapturedLaid ==
  ASSUME NEW m, NEW n \in Nat, m.n = n
  PROVE  Laid(ToldIs(GameMgr_Marker_MarkerCaptured(m)))
<1> DEFINE w1 == Buf("marker", 4) \o Buf("value", 1)
<1>1. GameMgr_Marker_MarkerCaptured(m) = Managed(header_len + 5, 5, w1)
  BY DEF GameMgr_Marker_MarkerCaptured
<1>2. 0 \in Nat /\ 4 \in Nat /\ 4 = 0 + 4
  OBVIOUS
<1>3. Spans(Buf("marker", 4), 0, 4)
  BY ONLY <1>2, SpansOne
<1>4. 4 \in Nat /\ 1 \in Nat /\ 5 = 4 + 1
  OBVIOUS
<1>5. Spans(Buf("value", 1), 4, 5)
  BY ONLY <1>4, SpansOne
<1>6. Spans(w1, 0, 5)
  BY ONLY <1>3, <1>5, SpansCat
<1>7. Wide(w1, 5)
  BY <1>6, SpansWide
<1>8. 5 = 5 /\ header_len + 5 = header_len + 5
  BY DEF header_len, UUID
<1>9. GameMgr_Marker_MarkerCaptured(m) = Managed(header_len + 5, 5, w1)
  BY <1>1, <1>8
<1> QED
  BY <1>9, <1>7, <1>8, ManagedLaid

\* GameMgr_Marker_MarkerNameChanged.
LEMMA GameMgr_Marker_MarkerNameChangedLaid ==
  ASSUME NEW m, NEW n \in Nat, m.n = n, 2 * n + 2 <= 512
  PROVE  Laid(ToldIs(GameMgr_Marker_MarkerNameChanged(m)))
<1> DEFINE w1 == Buf("marker", 4) \o InField(m, "name", 512)
<1>1. GameMgr_Marker_MarkerNameChanged(m) = Managed(header_len + 4 + 512, 516, w1)
  BY DEF GameMgr_Marker_MarkerNameChanged
<1>2. 2 * n + 2 <= 512
  OBVIOUS
<1>3. 0 \in Nat /\ 4 \in Nat /\ 4 = 0 + 4
  OBVIOUS
<1>4. Spans(Buf("marker", 4), 0, 4)
  BY ONLY <1>3, SpansOne
<1>5. Wide(InField(m, "name", 512), 512)
  BY InFieldIs
<1>6. 4 \in Nat /\ 512 \in Nat /\ 516 = 4 + 512
  OBVIOUS
<1>7. Spans(InField(m, "name", 512), 4, 516)
  BY ONLY <1>5, <1>6, WideSpans
<1>8. Spans(w1, 0, 516)
  BY ONLY <1>4, <1>7, SpansCat
<1>9. Wide(w1, 516)
  BY <1>8, SpansWide
<1>10. 516 = 516 /\ header_len + 4 + 512 = header_len + 516
  BY DEF header_len, UUID
<1>11. GameMgr_Marker_MarkerNameChanged(m) = Managed(header_len + 4 + 512, 516, w1)
  BY <1>1, <1>10
<1> QED
  BY <1>11, <1>9, <1>10, ManagedLaid

\* GameMgr_BlueSpiral_ClothOrder.
LEMMA GameMgr_BlueSpiral_ClothOrderLaid ==
  ASSUME NEW m, NEW n \in Nat, m.n = n
  PROVE  Laid(ToldIs(GameMgr_BlueSpiral_ClothOrder(m)))
<1>1. GameMgr_BlueSpiral_ClothOrder(m) = Managed(header_len + 7, 7, Buf("order", 7))
  BY DEF GameMgr_BlueSpiral_ClothOrder
<1>2. 0 \in Nat /\ 7 \in Nat /\ 7 = 0 + 7
  OBVIOUS
<1>3. Spans(Buf("order", 7), 0, 7)
  BY ONLY <1>2, SpansOne
<1>4. Wide(Buf("order", 7), 7)
  BY <1>3, SpansWide
<1>5. 7 = 7 /\ header_len + 7 = header_len + 7
  BY DEF header_len, UUID
<1>6. GameMgr_BlueSpiral_ClothOrder(m) = Managed(header_len + 7, 7, Buf("order", 7))
  BY <1>1, <1>5
<1> QED
  BY <1>6, <1>4, <1>5, ManagedLaid

\* GameMgr_Heek_PlayGame.
LEMMA GameMgr_Heek_PlayGameLaid ==
  ASSUME NEW m, NEW n \in Nat, m.n = n
  PROVE  Laid(ToldIs(GameMgr_Heek_PlayGame(m)))
<1> DEFINE w1 == Buf("playing", 1) \o Buf("single", 1) \o Buf("enable", 1)
<1>1. GameMgr_Heek_PlayGame(m) = Managed(header_len + 3, 3, w1)
  BY DEF GameMgr_Heek_PlayGame
<1>2. 0 \in Nat /\ 1 \in Nat /\ 1 = 0 + 1
  OBVIOUS
<1>3. Spans(Buf("playing", 1), 0, 1)
  BY ONLY <1>2, SpansOne
<1>4. 1 \in Nat /\ 2 = 1 + 1
  OBVIOUS
<1>5. Spans(Buf("single", 1), 1, 2)
  BY ONLY <1>4, SpansOne
<1>6. Spans(Buf("playing", 1) \o Buf("single", 1), 0, 2)
  BY ONLY <1>3, <1>5, SpansCat
<1>7. 2 \in Nat /\ 1 \in Nat /\ 3 = 2 + 1
  OBVIOUS
<1>8. Spans(Buf("enable", 1), 2, 3)
  BY ONLY <1>7, SpansOne
<1>9. Spans(w1, 0, 3)
  BY ONLY <1>6, <1>8, SpansCat
<1>10. Wide(w1, 3)
  BY <1>9, SpansWide
<1>11. 3 = 3 /\ header_len + 3 = header_len + 3
  BY DEF header_len, UUID
<1>12. GameMgr_Heek_PlayGame(m) = Managed(header_len + 3, 3, w1)
  BY <1>1, <1>11
<1> QED
  BY <1>12, <1>10, <1>11, ManagedLaid

\* GameMgr_Heek_Welcome.
LEMMA GameMgr_Heek_WelcomeLaid ==
  ASSUME NEW m, NEW n \in Nat, m.n = n, 2 * n + 2 <= 512
  PROVE  Laid(ToldIs(GameMgr_Heek_Welcome(m)))
<1> DEFINE w1 == Buf("score", 4) \o Buf("rank", 4) \o InField(m, "name", 512)
<1>1. GameMgr_Heek_Welcome(m) = Managed(header_len + 8 + 512, 8 + 512, w1)
  BY DEF GameMgr_Heek_Welcome
<1>2. 2 * n + 2 <= 512
  OBVIOUS
<1>3. 0 \in Nat /\ 4 \in Nat /\ 4 = 0 + 4
  OBVIOUS
<1>4. Spans(Buf("score", 4), 0, 4)
  BY ONLY <1>3, SpansOne
<1>5. 4 \in Nat /\ 8 = 4 + 4
  OBVIOUS
<1>6. Spans(Buf("rank", 4), 4, 8)
  BY ONLY <1>5, SpansOne
<1>7. Spans(Buf("score", 4) \o Buf("rank", 4), 0, 8)
  BY ONLY <1>4, <1>6, SpansCat
<1>8. Wide(InField(m, "name", 512), 512)
  BY InFieldIs
<1>9. 8 \in Nat /\ 512 \in Nat /\ 520 = 8 + 512
  OBVIOUS
<1>10. Spans(InField(m, "name", 512), 8, 520)
  BY ONLY <1>8, <1>9, WideSpans
<1>11. Spans(w1, 0, 520)
  BY ONLY <1>7, <1>10, SpansCat
<1>12. Wide(w1, 520)
  BY <1>11, SpansWide
<1>13. 8 + 512 = 520 /\ header_len + 8 + 512 = header_len + 520
  BY DEF header_len, UUID
<1>14. GameMgr_Heek_Welcome(m) = Managed(header_len + 8 + 512, 520, w1)
  BY <1>1, <1>13
<1> QED
  BY <1>14, <1>12, <1>13, ManagedLaid

\* GameMgr_Heek_PointUpdate.
LEMMA GameMgr_Heek_PointUpdateLaid ==
  ASSUME NEW m, NEW n \in Nat, m.n = n
  PROVE  Laid(ToldIs(GameMgr_Heek_PointUpdate(m)))
<1> DEFINE w1 == Buf("send_message", 1) \o Buf("score", 4) \o Buf("rank", 4)
<1>1. GameMgr_Heek_PointUpdate(m) = Managed(header_len + 9, 9, w1)
  BY DEF GameMgr_Heek_PointUpdate
<1>2. 0 \in Nat /\ 1 \in Nat /\ 1 = 0 + 1
  OBVIOUS
<1>3. Spans(Buf("send_message", 1), 0, 1)
  BY ONLY <1>2, SpansOne
<1>4. 1 \in Nat /\ 4 \in Nat /\ 5 = 1 + 4
  OBVIOUS
<1>5. Spans(Buf("score", 4), 1, 5)
  BY ONLY <1>4, SpansOne
<1>6. Spans(Buf("send_message", 1) \o Buf("score", 4), 0, 5)
  BY ONLY <1>3, <1>5, SpansCat
<1>7. 5 \in Nat /\ 4 \in Nat /\ 9 = 5 + 4
  OBVIOUS
<1>8. Spans(Buf("rank", 4), 5, 9)
  BY ONLY <1>7, SpansOne
<1>9. Spans(w1, 0, 9)
  BY ONLY <1>6, <1>8, SpansCat
<1>10. Wide(w1, 9)
  BY <1>9, SpansWide
<1>11. 9 = 9 /\ header_len + 9 = header_len + 9
  BY DEF header_len, UUID
<1>12. GameMgr_Heek_PointUpdate(m) = Managed(header_len + 9, 9, w1)
  BY <1>1, <1>11
<1> QED
  BY <1>12, <1>10, <1>11, ManagedLaid

\* GameMgr_Heek_WinLose.
LEMMA GameMgr_Heek_WinLoseLaid ==
  ASSUME NEW m, NEW n \in Nat, m.n = n
  PROVE  Laid(ToldIs(GameMgr_Heek_WinLose(m)))
<1> DEFINE w1 == Buf("win", 1) \o Buf("choice", 1)
<1>1. GameMgr_Heek_WinLose(m) = Managed(header_len + 2, 2, w1)
  BY DEF GameMgr_Heek_WinLose
<1>2. 0 \in Nat /\ 1 \in Nat /\ 1 = 0 + 1
  OBVIOUS
<1>3. Spans(Buf("win", 1), 0, 1)
  BY ONLY <1>2, SpansOne
<1>4. 1 \in Nat /\ 2 = 1 + 1
  OBVIOUS
<1>5. Spans(Buf("choice", 1), 1, 2)
  BY ONLY <1>4, SpansOne
<1>6. Spans(w1, 0, 2)
  BY ONLY <1>3, <1>5, SpansCat
<1>7. Wide(w1, 2)
  BY <1>6, SpansWide
<1>8. 2 = 2 /\ header_len + 2 = header_len + 2
  BY DEF header_len, UUID
<1>9. GameMgr_Heek_WinLose(m) = Managed(header_len + 2, 2, w1)
  BY <1>1, <1>8
<1> QED
  BY <1>9, <1>7, <1>8, ManagedLaid

\* GameMgr_Heek_Lights.
LEMMA GameMgr_Heek_LightsLaid ==
  ASSUME NEW m, NEW n \in Nat, m.n = n
  PROVE  Laid(ToldIs(GameMgr_Heek_Lights(m)))
<1> DEFINE w1 == Buf("light", 1) \o Buf("type", 1)
<1>1. GameMgr_Heek_Lights(m) = Managed(header_len + 2, 2, w1)
  BY DEF GameMgr_Heek_Lights
<1>2. 0 \in Nat /\ 1 \in Nat /\ 1 = 0 + 1
  OBVIOUS
<1>3. Spans(Buf("light", 1), 0, 1)
  BY ONLY <1>2, SpansOne
<1>4. 1 \in Nat /\ 2 = 1 + 1
  OBVIOUS
<1>5. Spans(Buf("type", 1), 1, 2)
  BY ONLY <1>4, SpansOne
<1>6. Spans(w1, 0, 2)
  BY ONLY <1>3, <1>5, SpansCat
<1>7. Wide(w1, 2)
  BY <1>6, SpansWide
<1>8. 2 = 2 /\ header_len + 2 = header_len + 2
  BY DEF header_len, UUID
<1>9. GameMgr_Heek_Lights(m) = Managed(header_len + 2, 2, w1)
  BY <1>1, <1>8
<1> QED
  BY <1>9, <1>7, <1>8, ManagedLaid

\* GatekeeperServer.
LEMMA GatekeeperServerLaid ==
  ASSUME NEW m, NEW n \in Nat, m.n = n
  PROVE  Laid(ToldIs(GatekeeperServer(m)))
<1> DEFINE w1 == Type \o Reqid \o Str(m, "addr", WIDE, 0)
<1>1. GatekeeperServer(m) = Told(w1, 6 + send_len(m, WIDE, 0), 6 + send_len(m, WIDE, 0))
  BY DEF GatekeeperServer
<1>2. 0 \in Nat /\ 2 \in Nat /\ 2 = 0 + 2
  OBVIOUS
<1>3. Type = Buf("type", 2)
  BY TypeIs
<1>4. Spans(Buf("type", 2), 0, 2)
  BY ONLY <1>2, SpansOne
<1>5. Spans(Type, 0, 2)
  BY ONLY <1>3, <1>4
<1>6. 2 \in Nat /\ 4 \in Nat /\ 6 = 2 + 4
  OBVIOUS
<1>7. Reqid = Buf("reqid", 4)
  BY ReqidIs
<1>8. Spans(Buf("reqid", 4), 2, 6)
  BY ONLY <1>6, SpansOne
<1>9. Spans(Reqid, 2, 6)
  BY ONLY <1>7, <1>8
<1>10. Spans(Type \o Reqid, 0, 6)
  BY ONLY <1>5, <1>9, SpansCat
<1>11. 6 \in Nat /\ (2 + 2 * n) \in Nat /\ 8 + 2 * n = 6 + (2 + 2 * n)
  OBVIOUS
<1>12. Str(m, "addr", WIDE, 0) = Buf("addr", 2 + 2 * n)
  BY StrIs
<1>13. Spans(Buf("addr", 2 + 2 * n), 6, 8 + 2 * n)
  BY ONLY <1>11, SpansOne
<1>14. Spans(Str(m, "addr", WIDE, 0), 6, 8 + 2 * n)
  BY ONLY <1>12, <1>13
<1>15. Spans(w1, 0, 8 + 2 * n)
  BY ONLY <1>10, <1>14, SpansCat
<1>16. Wide(w1, 8 + 2 * n)
  BY <1>15, SpansWide
<1>17. 6 + send_len(m, WIDE, 0) = 8 + 2 * n /\ 6 + send_len(m, WIDE, 0) = 8 + 2 * n
           /\ 8 + 2 * n > 0
  BY SendIs
<1>18. GatekeeperServer(m) = Told(w1, 8 + 2 * n, 8 + 2 * n)
  BY <1>1, <1>17
<1> QED
  BY <1>18, <1>16, <1>17, ToldLaid

-----------------------------------------------------------------------------
(***************************************************************************)
(* Lists of entries of one kind.                                           *)
(***************************************************************************)

\* One sequence more, of as many as there are.
LEMMA FlattenMore ==
  ASSUME NEW S, NEW k \in Nat, NEW b, \A i \in 1..(k + 1) : b[i] \in Seq(S)
  PROVE  FlattenSeq([i \in 1..(k + 1) |-> b[i]]) = FlattenSeq([i \in 1..k |-> b[i]]) \o b[k + 1]
<1> DEFINE ss == [i \in 1..k |-> b[i]]
           tt == [i \in 1..(k + 1) |-> b[i]]
<1>1. k + 1 \in 1..(k + 1) /\ \A i \in 1..k : i \in 1..(k + 1)
  OBVIOUS
<1>2. ss \in Seq(Seq(S)) /\ Len(ss) = k
  BY <1>1
<1>3. tt \in Seq(Seq(S)) /\ Len(tt) = k + 1
  BY <1>1
<1>4. /\ Append(ss, b[k + 1]) \in Seq(Seq(S)) /\ Len(Append(ss, b[k + 1])) = k + 1
      /\ Append(ss, b[k + 1])[k + 1] = b[k + 1]
      /\ \A i \in 1..k : Append(ss, b[k + 1])[i] = ss[i]
  BY <1>1, <1>2, AppendProperties
<1>5. \A i \in 1..(k + 1) : Append(ss, b[k + 1])[i] = tt[i]
  <2>1. \A i \in 1..(k + 1) : i \in 1..k \/ i = k + 1
    OBVIOUS
  <2>2. \A i \in 1..k : ss[i] = b[i]
    OBVIOUS
  <2>3. \A i \in 1..(k + 1) : tt[i] = b[i]
    OBVIOUS
  <2> HIDE DEF ss, tt
  <2> QED
    BY <1>1, <1>4, <2>1, <2>2, <2>3
<1> HIDE DEF ss, tt
<1>6. Append(ss, b[k + 1]) = tt
  <2> DEFINE uu == Append(ss, b[k + 1])
  <2>1. uu \in Seq(Seq(S)) /\ Len(uu) = k + 1 /\ \A i \in 1..(k + 1) : uu[i] = tt[i]
    BY <1>4, <1>5
  <2> HIDE DEF uu
  <2>2. uu = tt
    BY <1>3, <2>1, SeqEqual
  <2> QED
    BY <2>2 DEF uu
<1>7. FlattenSeq(Append(ss, b[k + 1])) = FlattenSeq(ss) \o b[k + 1]
  BY <1>1, <1>2, FlattenAppend
<1> QED
  BY <1>6, <1>7 DEF ss, tt

\* Of no sequences.
LEMMA FlattenNone ==
  ASSUME NEW b
  PROVE  FlattenSeq([i \in 1..0 |-> b[i]]) = <<>>
<1>1. [i \in 1..0 |-> b[i]] = <<>>
  OBVIOUS
<1> QED
  BY <1>1 DEF FlattenSeq

\* A list of entries of one kind, and the receiver going along it.
Entries(fs, k) == FlattenSeq([i \in 1..k |-> fs])
EntriesRead(fs, at, w, k) == FlattenSeq([i \in 1..k |-> From(at + (i - 1) * w, fs)])
Named(fs) == \A i \in 1..Len(fs) : fs[i][1] # "whole"
Along(fs, at, w, k) ==
  \E S : /\ Lays(Entries(fs, k), at, S, at + k * w)
         /\ Reads(EntriesRead(fs, at, w, k), S)
         /\ Named(fs) => \A x \in S : x[1] # "whole"

\* A list with one entry more.
LEMMA EntriesMore ==
  ASSUME NEW fs, IsFields(fs), NEW k \in Nat, NEW at \in Nat, NEW w \in Nat
  PROVE  /\ Entries(fs, 0) = <<>> /\ EntriesRead(fs, at, w, 0) = <<>>
         /\ Entries(fs, k + 1) = Entries(fs, k) \o fs
         /\ EntriesRead(fs, at, w, k + 1) = EntriesRead(fs, at, w, k) \o From(at + k * w, fs)
<1>1. Entries(fs, 0) = <<>>
  <2>1. [i \in 1..0 |-> fs] = <<>>
    OBVIOUS
  <2> QED
    BY <2>1 DEF FlattenSeq, Entries
<1>2. EntriesRead(fs, at, w, 0) = <<>>
  <2>1. [i \in 1..0 |-> From(at + (i - 1) * w, fs)] = <<>>
    OBVIOUS
  <2> QED
    BY <2>1 DEF FlattenSeq, EntriesRead
<1>3. Entries(fs, k + 1) = Entries(fs, k) \o fs
  <2> DEFINE S == {fs[i] : i \in 1..Len(fs)}
             b == [i \in 1..(k + 1) |-> fs]
  <2>1. fs \in Seq(S)
    <3>1. fs \in [1..Len(fs) -> S] /\ Len(fs) \in Nat
      BY DEF IsFields
    <3> HIDE DEF S
    <3> QED
      BY <3>1, SeqDef
  <2> HIDE DEF S
  <2>2. \A i \in 1..(k + 1) : b[i] \in Seq(S) /\ b[i] = fs
    BY <2>1
  <2>3. [i \in 1..(k + 1) |-> b[i]] = [i \in 1..(k + 1) |-> fs] /\ [i \in 1..k |-> b[i]] = [i \in 1..k |-> fs]
        /\ b[k + 1] = fs
    <3>1. k + 1 \in 1..(k + 1) /\ \A i \in 1..k : i \in 1..(k + 1)
      OBVIOUS
    <3> QED
      BY <3>1
  <2> HIDE DEF b
  <2>4. FlattenSeq([i \in 1..(k + 1) |-> b[i]]) = FlattenSeq([i \in 1..k |-> b[i]])
      \o b[k + 1]
    BY <2>2, FlattenMore
  <2> QED
    BY <2>3, <2>4 DEF Entries
<1>4. EntriesRead(fs, at, w, k + 1) = EntriesRead(fs, at, w, k) \o From(at + k * w, fs)
  <2> DEFINE q(i) == at + (i - 1) * w
             b == [i \in 1..(k + 1) |-> From(q(i), fs)]
             S == {b[x[1]][x[2]] : x \in (1..(k + 1)) \X (1..Len(fs))}
  <2>1. ASSUME NEW i \in 1..(k + 1)
        PROVE  b[i] \in Seq(S)
    <3>1. PICK f : Sums(fs, f)
      BY WidthIs
    <3>2. q(i) \in Nat
      <4>1. i - 1 \in Nat
        OBVIOUS
      <4>2. \A x \in Nat : x * w \in Nat
        OBVIOUS
      <4>3. (i - 1) * w \in Nat
        BY <4>1, <4>2
      <4> QED
        BY <4>3
    <3>3. IsMarks(From(q(i), fs)) /\ Len(From(q(i), fs)) = Len(fs)
      BY <3>1, <3>2, FromIs
    <3>4. b[i] = From(q(i), fs)
      OBVIOUS
    <3> DEFINE r == b[i]
    <3>5. Len(r) = Len(fs) /\ Len(fs) \in Nat /\ r = [j \in 1..Len(fs) |-> r[j]]
      BY <3>3, <3>4 DEF IsMarks
    <3>6. \A j \in 1..Len(fs) : r[j] \in S
      <4>1. \A j \in 1..Len(fs) : <<i, j>> \in (1..(k + 1)) \X (1..Len(fs)) /\ r[j]
          = b[<<i, j>>[1]][<<i, j>>[2]]
        OBVIOUS
      <4> HIDE DEF b, r
      <4> QED
        BY <4>1
    <3> HIDE DEF S, b, r
    <3>7. r \in [1..Len(fs) -> S]
      BY <3>5, <3>6
    <3>8. r \in Seq(S)
      BY <3>5, <3>7, SeqDef
    <3> QED
      BY <3>8 DEF r
  <2> HIDE DEF S
  <2>2. /\ [i \in 1..(k + 1) |-> b[i]] = [i \in 1..(k + 1) |-> From(at + (i - 1) * w, fs)]
        /\ [i \in 1..k |-> b[i]] = [i \in 1..k |-> From(at + (i - 1) * w, fs)]
        /\ b[k + 1] = From(at + k * w, fs)
    <3>1. k + 1 \in 1..(k + 1) /\ (\A i \in 1..k : i \in 1..(k + 1)) /\ (k + 1) - 1 = k
      OBVIOUS
    <3> QED
      BY <3>1
  <2> HIDE DEF b
  <2>3. FlattenSeq([i \in 1..(k + 1) |-> b[i]]) = FlattenSeq([i \in 1..k |-> b[i]])
      \o b[k + 1]
    BY <2>1, FlattenMore
  <2> QED
    BY <2>2, <2>3 DEF EntriesRead
<1> QED
  BY <1>1, <1>2, <1>3, <1>4

\* Entries of one width lie one behind the other, and the receiver finds them there.
LEMMA AlongTheList ==
  ASSUME NEW fs, NEW w \in Nat, Wide(fs, w), NEW at \in Nat, NEW n \in Nat
  PROVE  Along(fs, at, w, n)
<1> DEFINE T == {k \in 0..n : Along(fs, at, w, k)}
<1>1. IsFields(fs) /\ Width(fs) = w
  BY DEF Wide
<1>2. 0 \in T
  <2>1. Entries(fs, 0) = <<>> /\ EntriesRead(fs, at, w, 0) = <<>>
    BY <1>1, EntriesMore
  <2>2. Lays(<<>>, at, {}, at) /\ Reads(<<>>, {}) /\ at + 0 * w = at
    BY LaysNone, ReadsNone
  <2>3. Along(fs, at, w, 0)
    BY <2>1, <2>2 DEF Along
  <2> QED
    BY <2>3
<1>3. ASSUME NEW k \in Nat, k < n, k \in T  PROVE k + 1 \in T
  <2> DEFINE mid == at + k * w
             end == at + (k + 1) * w
             M == Marks(mid, fs)
  <2>1. PICK S : /\ Lays(Entries(fs, k), at, S, mid)
                 /\ Reads(EntriesRead(fs, at, w, k), S)
                 /\ Named(fs) => \A x \in S : x[1] # "whole"
    BY <1>3 DEF Along
  <2>2. mid \in Nat /\ end \in Nat /\ end = mid + w
    <3>1. k * w \in Nat /\ (k + 1) * w = k * w + w
      OBVIOUS
    <3> DEFINE z == k * w
               y == (k + 1) * w
    <3>2. z \in Nat /\ y = z + w
      BY <3>1
    <3> HIDE DEF z, y
    <3>3. at + z \in Nat /\ at + y \in Nat /\ at + y = (at + z) + w
      BY <3>2
    <3> QED
      BY <3>3 DEF z, y
  <2> HIDE DEF mid, end
  <2>3. Lays(fs, mid, M, end)
    BY <1>1, <2>2 DEF Lays
  <2>4. Reads(From(mid, fs), M)
    BY <2>3, ReadsFrom
  <2>5. ASSUME Named(fs)  PROVE \A x \in M : x[1] # "whole"
    <3>1. PICK f : Sums(fs, f)
      BY <1>1, WidthIs
    <3>2. Len(From(mid, fs)) = Len(fs)
      /\ \A i \in 1..Len(fs) : From(mid, fs)[i] = <<fs[i][1], mid + f[i - 1], fs[i][2]>>
      BY <1>1, <2>2, <3>1, FromIs
    <3>3. \A i \in 1..Len(fs) : From(mid, fs)[i][1] # "whole"
      BY <2>5, <3>2 DEF Named
    <3> QED
      BY <3>3 DEF Marks
  <2> HIDE DEF M
  <2>6. Entries(fs, k + 1) = Entries(fs, k) \o fs
        /\ EntriesRead(fs, at, w, k + 1) = EntriesRead(fs, at, w, k) \o From(mid, fs)
    <3>1. IsFields(fs) /\ k \in Nat /\ at \in Nat /\ w \in Nat
      BY <1>1
    <3>2. /\ Entries(fs, k + 1) = Entries(fs, k) \o fs
          /\ EntriesRead(fs, at, w, k + 1) = EntriesRead(fs, at, w, k) \o From(at + k * w, fs)
      BY ONLY <3>1, EntriesMore
    <3> QED
      BY <3>2 DEF mid
  <2>7. Lays(Entries(fs, k) \o fs, at, With(S, M), end)
    BY <2>1, <2>3, LaysCat
  <2>8. Reads(EntriesRead(fs, at, w, k) \o From(mid, fs), With(S, M))
    BY <2>1, <2>4, ReadsCat
  <2>9. Named(fs) => \A x \in With(S, M) : x[1] # "whole"
    BY <2>1, <2>5 DEF With
  <2>10. Along(fs, at, w, k + 1)
    BY <2>6, <2>7, <2>8, <2>9 DEF Along, end
  <2>11. k + 1 \in 0..n
    BY <1>3
  <2> QED
    BY <2>10, <2>11
<1> HIDE DEF T
<1>4. n \in T
  <2>1. \A i \in 0..n : i \in T
    BY <1>2, <1>3, UpTo
  <2> QED
    BY <2>1
<1> QED
  BY <1>4 DEF T

\* What a list of markers has of each.
LEMMA InfoWide ==
  ASSUME NEW m, NEW n \in Nat, m.n = n
  PROVE  /\ Wide(InfoOf(m), 32 + 2 * n) /\ info_size(m) = 32 + 2 * n
         /\ Named(InfoOf(m))
<1> DEFINE a == Buf("data", 28)
           b == Buf("name", 2 + n)
           c == Buf("agename", 2 + n)
<1>1. InfoOf(m) = a \o b \o c
  BY StrIs DEF InfoOf, marker_data_len
<1>2. 0 \in Nat /\ 28 \in Nat /\ 2 + n \in Nat /\ 28 = 0 + 28 /\ 30 + n = 28 + (2 + n)
      /\ 30 + n \in Nat /\ 32 + 2 * n = (30 + n) + (2 + n)
  OBVIOUS
<1>3. Lays(a, 0, {<<"data", 0, 28>>}, 28)
  BY ONLY <1>2, LaysOne
<1>4. Lays(b, 28, {<<"name", 28, 2 + n>>}, 30 + n)
  BY ONLY <1>2, LaysOne
<1>5. Lays(c, 30 + n, {<<"agename", 30 + n, 2 + n>>}, 32 + 2 * n)
  BY ONLY <1>2, LaysOne
<1>6. Lays(a \o b \o c, 0, With(With({<<"data", 0, 28>>}, {<<"name", 28, 2 + n>>}),
          {<<"agename", 30 + n, 2 + n>>}), 32 + 2 * n)
  BY <1>3, <1>4, <1>5, LaysCat
<1> HIDE DEF a, b, c
<1>7. Wide(a \o b \o c, 32 + 2 * n)
  <2>1. Wide(a \o b \o c, (32 + 2 * n) - 0)
    BY <1>6, WideLays
  <2> QED
    BY <2>1
<1>8. info_size(m) = 32 + 2 * n
  BY SendIs DEF info_size, marker_data_len
<1>9. Named(a \o b \o c)
  <2> DEFINE fs == a \o b \o c
  <2>1. IsFields(fs) /\ Marks(0, fs) = With(With({<<"data", 0, 28>>}, {<<"name", 28,
      2 + n>>}), {<<"agename", 30 + n, 2 + n>>})
    BY <1>6 DEF Lays
  <2> HIDE DEF fs
  <2>2. PICK f : Sums(fs, f)
    BY <2>1, WidthIs
  <2>3. Len(From(0, fs)) = Len(fs)
        /\ \A i \in 1..Len(fs) : From(0, fs)[i] = <<fs[i][1], 0 + f[i - 1], fs[i][2]>>
    BY <2>1, <2>2, FromIs
  <2>4. \A i \in 1..Len(fs) : From(0, fs)[i] \in With(With({<<"data", 0, 28>>}, {<<"name",
      28, 2 + n>>}), {<<"agename", 30 + n, 2 + n>>})
    BY <2>1 DEF Marks
  <2>5. \A x \in With(With({<<"data", 0, 28>>}, {<<"name", 28, 2 + n>>}), {<<"agename",
      30 + n, 2 + n>>}) : x[1] # "whole"
    BY DEF With
  <2>6. \A i \in 1..Len(fs) : From(0, fs)[i][1] = fs[i][1]
    BY <2>3
  <2>7. \A i \in 1..Len(fs) : fs[i][1] # "whole"
    BY <2>4, <2>5, <2>6
  <2> QED
    BY <2>7 DEF fs, Named
<1> QED
  BY <1>1, <1>7, <1>8, <1>9

\* A MarkersAll message, of any number of markers.
LEMMA MarkersAllLaid ==
  ASSUME NEW m, NEW n \in Nat, m.n = n
  PROVE  Laid(BackendFormat(MarkersAll(m)))
<1> DEFINE w == 32 + 2 * n
           u == n * w
           head == Fixed(MarkerMembers, <<"requester", "localid">>)
           listlen == Fixed(MarkersAllMembers, <<"listlen">>)
           H == With(With({<<"requester", 16, 4>>}, {<<"localid", 20, 4>>}), {<<"listlen",
               24, 4>>})
           hread == From(16, Fixed(MarkerMembers, <<"requester">>)) \o From(20,
               Fixed(MarkerMembers, <<"localid">>)) \o From(24, listlen)
           list == Entries(InfoOf(m), n)
           lread == EntriesRead(InfoOf(m), 28, w, n)
<1>1. Wide(InfoOf(m), w) /\ info_size(m) = w /\ Named(InfoOf(m))
  BY InfoWide
<1>2. w \in Nat /\ u \in Nat /\ 12 + u \in Nat /\ 28 + u = 16 + (12 + u) /\ (n = 0 => u = 0)
  <2>1. w \in Nat
    OBVIOUS
  <2> HIDE DEF w
  <2>2. u \in Nat /\ (n = 0 => u = 0)
    BY <2>1
  <2> HIDE DEF u
  <2> QED
    BY <2>1, <2>2
<1>3. MarkersAll(m) = Layout(head \o listlen \o list, 12 + u, hread \o lread)
  <2>1. MarkersAllClaim(m) = 12 + u
    <3>1. MarkersAllClaim(m) = IF n > 0 THEN 12 + n * w ELSE 12
      BY <1>1 DEF MarkersAllClaim
    <3>2. n > 0 \/ n = 0
      OBVIOUS
    <3> DEFINE z == n * w
    <3>3. z = u
      OBVIOUS
    <3> HIDE DEF u, w, z
    <3>4. MarkersAllClaim(m) = IF n > 0 THEN 12 + z ELSE 12
      BY <3>1 DEF z
    <3>5. CASE n > 0
      BY <3>3, <3>4, <3>5
    <3>6. CASE n = 0
      BY <1>2, <3>4, <3>6
    <3> QED
      BY <3>2, <3>5, <3>6
  <2>2. FlattenSeq(MarkersAllRead(m)) = lread
    BY <1>1 DEF MarkersAllRead, EntriesRead
  <2>3. FlattenSeq([i \in 1..m.n |-> InfoOf(m)]) = list
    BY DEF Entries
  <2> HIDE DEF w, u, list, lread
  <2> QED
    BY <2>1, <2>2, <2>3 DEF MarkersAll, Marker, MarkerRead
<1>4. PICK S : /\ Lays(list, 28, S, 28 + u)
               /\ Reads(lread, S)
               /\ \A x \in S : x[1] # "whole"
  <2>1. w \in Nat /\ 28 \in Nat
    BY <1>2
  <2> HIDE DEF w
  <2>2. Along(InfoOf(m), 28, w, n)
    BY ONLY <1>1, <2>1, n \in Nat, AlongTheList
  <2> QED
    BY <1>1, <2>2 DEF Along
<1>5. Lays(head \o listlen, 16, H, 28)
  <2>1. MarkerMembers["requester"] = 4 /\ MarkerMembers["localid"] = 4
      /\ MarkersAllMembers["listlen"] = 4
    BY DEF MarkerMembers, MarkersAllMembers
  <2>2. 16 \in Nat /\ 4 \in Nat /\ 24 \in Nat /\ 20 = 16 + 4 /\ 24 = 20 + 4 /\ 28 = 24 + 4
    OBVIOUS
  <2>3. Lays(head, 16, With({<<"requester", 16, 4>>}, {<<"localid", 20, 4>>}), 24)
    BY ONLY <2>1, <2>2, LaysFixedTwo
  <2>4. Lays(listlen, 24, {<<"listlen", 24, 4>>}, 28)
    BY ONLY <2>1, <2>2, LaysFixedOne
  <2> QED
    BY <2>3, <2>4, LaysCat
<1>6. Reads(hread, H)
  <2>1. MarkerMembers["requester"] = 4 /\ MarkerMembers["localid"] = 4
      /\ MarkersAllMembers["listlen"] = 4
    BY DEF MarkerMembers, MarkersAllMembers
  <2>2. 16 \in Nat /\ 4 \in Nat /\ 24 \in Nat /\ 20 \in Nat /\ 20 = 16 + 4 /\ 24 = 20 + 4
      /\ 28 = 24 + 4
    OBVIOUS
  <2>3. Lays(Fixed(MarkerMembers, <<"requester">>), 16, {<<"requester", 16, 4>>}, 20)
    BY ONLY <2>1, <2>2, LaysFixedOne
  <2>4. Lays(Fixed(MarkerMembers, <<"localid">>), 20, {<<"localid", 20, 4>>}, 24)
    BY ONLY <2>1, <2>2, LaysFixedOne
  <2>5. Lays(listlen, 24, {<<"listlen", 24, 4>>}, 28)
    BY ONLY <2>1, <2>2, LaysFixedOne
  <2> HIDE DEF listlen
  <2>6. /\ Reads(From(16, Fixed(MarkerMembers, <<"requester">>)), {<<"requester", 16, 4>>})
        /\ Reads(From(20, Fixed(MarkerMembers, <<"localid">>)), {<<"localid", 20, 4>>})
        /\ Reads(From(24, listlen), {<<"listlen", 24, 4>>})
    BY <2>3, <2>4, <2>5, ReadsFrom
  <2> QED
    BY <2>6, ReadsCat
<1>7. Known(With(H, S), With(H, S), 12 + u)
  BY <1>4 DEF Known, With
<1> HIDE DEF w, u, head, listlen, H, hread, list, lread
<1>8. Lays(head \o listlen \o list, 16, With(H, S), 28 + u)
  BY <1>4, <1>5, LaysCat
<1>9. Reads(hread \o lread, With(H, S))
  BY <1>4, <1>6, ReadsCat
<1> QED
  BY <1>2, <1>3, <1>7, <1>8, <1>9, BackendLaid

\* What a list of members has of each.
LEMMA MemberWide ==
  ASSUME NEW m, NEW n \in Nat, m.n = n
  PROVE  Wide(MemberOf(m), 13 + n + KEY)
<1> DEFINE a == Buf("unk", 4)
           b == Buf("contents", 2)
           c == Buf("ki", 4)
           d == Buf("name", 2 + n)
           e == Buf("ccr", 1)
           f == Buf("key", 1)
<1>1. MemberOf(m) = a \o b \o c \o d \o e \o f /\ KEY = 1
  BY StrIs DEF MemberOf, KEY
<1>2. /\ 0 \in Nat /\ 1 \in Nat /\ 2 \in Nat /\ 4 \in Nat
      /\ 6 \in Nat /\ 10 \in Nat /\ 2 + n \in Nat /\ 12 + n \in Nat /\ 13 + n \in Nat
      /\ 4 = 0 + 4 /\ 6 = 4 + 2 /\ 10 = 6 + 4 /\ 12 + n = 10 + (2 + n) /\ 13 + n = (12 + n) + 1
      /\ 13 + n + 1 = (13 + n) + 1
  OBVIOUS
<1>3. Spans(a, 0, 4) /\ Spans(b, 4, 6) /\ Spans(c, 6, 10)
  BY ONLY <1>2, SpansOne
<1>4. Spans(d, 10, 12 + n)
  BY ONLY <1>2, SpansOne
<1>5. Spans(e, 12 + n, 13 + n)
  BY ONLY <1>2, SpansOne
<1>6. Spans(f, 13 + n, 13 + n + 1)
  BY ONLY <1>2, SpansOne
<1> HIDE DEF a, b, c, d, e, f
<1>7. Spans(a \o b \o c, 0, 10)
  BY ONLY <1>3, SpansCat
<1>8. Spans(a \o b \o c \o d \o e, 0, 13 + n)
  BY ONLY <1>4, <1>5, <1>7, SpansCat
<1>9. Spans(a \o b \o c \o d \o e \o f, 0, 13 + n + 1)
  BY ONLY <1>6, <1>8, SpansCat
<1> QED
  BY <1>1, <1>9, SpansWide

\* A PlNetMsgMembers message with a list, of any number of members.
LEMMA PlNetMsgMembersLongLaid ==
  ASSUME NEW m, NEW n \in Nat, m.n = n, m.long
  PROVE  Laid(ToldIs(PlNetMsgMembers(m)))
<1> DEFINE w == 13 + n + KEY
           u == n * w
           list == Entries(MemberOf(m), n)
           fs == Buf("listlen", 2) \o list
           len == body_offset(TRUE, TRUE) + (2 + u)
<1>1. Wide(MemberOf(m), w)
  BY MemberWide
<1>2. w \in Nat /\ u \in Nat /\ 0 \in Nat /\ 2 \in Nat /\ 2 = 0 + 2
  <2>1. w \in Nat
    BY DEF KEY
  <2> HIDE DEF w
  <2> QED
    BY <2>1
<1>3. PlNetMsgMembers(m) = Propagated(TRUE, TRUE, len, fs)
  <2>1. 10 + send_len(m, NARROW, 0) + 1 + KEY = w
    BY SendIs DEF KEY
  <2>2. finalize(m, n) = len
    <3>1. finalize(m, n) = body_offset(TRUE, TRUE) + n * w + 2
      BY <2>1 DEF finalize
    <3> DEFINE z == n * w
    <3>2. z = u
      OBVIOUS
    <3>3. finalize(m, n) = body_offset(TRUE, TRUE) + z + 2
      BY <3>1
    <3>4. body_offset(TRUE, TRUE) = 28
      BY DEF body_offset
    <3>5. len = 28 + (2 + u) /\ finalize(m, n) = 28 + z + 2
      BY <3>3, <3>4
    <3> HIDE DEF w, u, z, len
    <3> QED
      BY <1>2, <3>2, <3>5
  <2>3. FlattenSeq([i \in 1..m.n |-> MemberOf(m)]) = list
    BY DEF Entries
  <2> HIDE DEF list, len
  <2> QED
    BY <2>2, <2>3 DEF PlNetMsgMembers
<1>4. PICK S : Lays(list, 2, S, 2 + u)
  <2> HIDE DEF w
  <2>1. Along(MemberOf(m), 2, w, n)
    BY ONLY <1>1, <1>2, n \in Nat, AlongTheList
  <2> QED
    BY <2>1 DEF Along
<1>5. Lays(Buf("listlen", 2), 0, {<<"listlen", 0, 2>>}, 2)
  BY ONLY <1>2, LaysOne
<1> HIDE DEF w, list, u
<1>6. Lays(fs, 0, With({<<"listlen", 0, 2>>}, S), 2 + u)
  BY <1>4, <1>5, LaysCat
<1>7. Wide(fs, 2 + u)
  <2> HIDE DEF fs
  <2>1. Wide(fs, (2 + u) - 0) /\ (2 + u) - 0 = 2 + u
    BY <1>2, <1>6, WideLays
  <2> QED
    BY <2>1
<1> HIDE DEF fs
<1> QED
  BY <1>3, <1>7, PropagatedLaid

-----------------------------------------------------------------------------
(***************************************************************************)
(* Every class of message.                                                 *)
(***************************************************************************)

\* The classes with a string in a field of fixed size: it has to fit.
Bounded == {"GameMgr_VarSync_VarCreated", "GameMgr_Marker_GameNameChanged",
            "GameMgr_Marker_MarkerNameChanged", "GameMgr_Heek_Welcome"}
Fits(m) ==
  /\ m.class \in Bounded => 2 * m.n + 2 <= 512
  /\ m.class = "GameMgr_Marker_MarkerAdded" => 2 * m.n + 2 <= 160

\* Every class of message between servers and the backend.
LEMMA BackendLayoutLaid ==
  ASSUME NEW m, NEW n \in Nat, m.n = n, m.long \in BOOLEAN,
         m.class \in BackendClasses
  PROVE  Laid(BackendFormat(BackendLayout(m)))
<1>1. CASE m.class = "Hello"
  <2>1. BackendLayout(m) = Hello(m)
    BY <1>1 DEF BackendLayout
  <2> QED
    BY <2>1, HelloLaid
<1>2. CASE m.class = "KillClient"
  <2>1. BackendLayout(m) = KillClient(m)
    BY <1>2 DEF BackendLayout
  <2> QED
    BY <2>1, KillClientLongLaid, KillClientShortLaid
<1>3. CASE m.class = "AuthAcctLogin_To"
  <2>1. BackendLayout(m) = AuthAcctLogin_To(m)
    BY <1>3 DEF BackendLayout
  <2> QED
    BY <2>1, AuthAcctLogin_ToLongLaid, AuthAcctLogin_ToShortLaid
<1>4. CASE m.class = "AuthAcctLogin_From"
  <2>1. BackendLayout(m) = AuthAcctLogin_From(m)
    BY <1>4 DEF BackendLayout
  <2> QED
    BY <2>1, AuthAcctLogin_FromLongLaid, AuthAcctLogin_FromShortLaid
<1>5. CASE m.class = "AuthKIValidate_To"
  <2>1. BackendLayout(m) = AuthKIValidate_To(m)
    BY <1>5 DEF BackendLayout
  <2> QED
    BY <2>1, AuthKIValidate_ToLaid
<1>6. CASE m.class = "AuthKIValidate_From"
  <2>1. BackendLayout(m) = AuthKIValidate_From(m)
    BY <1>6 DEF BackendLayout
  <2> QED
    BY <2>1, AuthKIValidate_FromLaid
<1>7. CASE m.class = "AuthPlayerLogout"
  <2>1. BackendLayout(m) = AuthPlayerLogout(m)
    BY <1>7 DEF BackendLayout
  <2> QED
    BY <2>1, AuthPlayerLogoutLaid
<1>8. CASE m.class = "AuthChangePassword_To"
  <2>1. BackendLayout(m) = AuthChangePassword_To(m)
    BY <1>8 DEF BackendLayout
  <2> QED
    BY <2>1, AuthChangePassword_ToLaid
<1>9. CASE m.class = "AuthChangePassword_From"
  <2>1. BackendLayout(m) = AuthChangePassword_From(m)
    BY <1>9 DEF BackendLayout
  <2> QED
    BY <2>1, AuthChangePassword_FromLaid
<1>10. CASE m.class = "VaultPlayerCreate_To"
  <2>1. BackendLayout(m) = VaultPlayerCreate_To(m)
    BY <1>10 DEF BackendLayout
  <2> QED
    BY <2>1, VaultPlayerCreate_ToLaid
<1>11. CASE m.class = "VaultPlayerCreate_From"
  <2>1. BackendLayout(m) = VaultPlayerCreate_From(m)
    BY <1>11 DEF BackendLayout
  <2> QED
    BY <2>1, VaultPlayerCreate_FromLongLaid, VaultPlayerCreate_FromShortLaid
<1>12. CASE m.class = "VaultPlayerDelete_To"
  <2>1. BackendLayout(m) = VaultPlayerDelete_To(m)
    BY <1>12 DEF BackendLayout
  <2> QED
    BY <2>1, VaultPlayerDelete_ToLaid
<1>13. CASE m.class = "VaultPlayerDelete_From"
  <2>1. BackendLayout(m) = VaultPlayerDelete_From(m)
    BY <1>13 DEF BackendLayout
  <2> QED
    BY <2>1, VaultPlayerDelete_FromLaid
<1>14. CASE m.class = "TrackPing"
  <2>1. BackendLayout(m) = TrackPing(m)
    BY <1>14 DEF BackendLayout
  <2> QED
    BY <2>1, TrackPingLaid
<1>15. CASE m.class = "TrackServiceTypes"
  <2>1. BackendLayout(m) = TrackServiceTypes(m)
    BY <1>15 DEF BackendLayout
  <2> QED
    BY <2>1, TrackServiceTypesLongLaid, TrackServiceTypesShortLaid
<1>16. CASE m.class = "TrackFindService_To"
  <2>1. BackendLayout(m) = TrackFindService_To(m)
    BY <1>16 DEF BackendLayout
  <2> QED
    BY <2>1, TrackFindService_ToLaid
<1>17. CASE m.class = "TrackFindService_From"
  <2>1. BackendLayout(m) = TrackFindService_From(m)
    BY <1>17 DEF BackendLayout
  <2> QED
    BY <2>1, TrackFindService_FromLongLaid, TrackFindService_FromShortLaid
<1>18. CASE m.class = "TrackGameHello"
  <2>1. BackendLayout(m) = TrackGameHello(m)
    BY <1>18 DEF BackendLayout
  <2> QED
    BY <2>1, TrackGameHelloLaid
<1>19. CASE m.class = "TrackGameBye_To"
  <2>1. BackendLayout(m) = TrackGameBye_To(m)
    BY <1>19 DEF BackendLayout
  <2> QED
    BY <2>1, TrackGameBye_ToLaid
<1>20. CASE m.class = "TrackGameBye_From"
  <2>1. BackendLayout(m) = TrackGameBye_From(m)
    BY <1>20 DEF BackendLayout
  <2> QED
    BY <2>1, TrackGameBye_FromLaid
<1>21. CASE m.class = "TrackGamePlayerInfo"
  <2>1. BackendLayout(m) = TrackGamePlayerInfo(m)
    BY <1>21 DEF BackendLayout
  <2> QED
    BY <2>1, TrackGamePlayerInfoLaid
<1>22. CASE m.class = "TrackMsgForward"
  <2>1. BackendLayout(m) = TrackMsgForward(m)
    BY <1>22 DEF BackendLayout
  <2> QED
    BY <2>1, TrackMsgForwardLaid
<1>23. CASE m.class = "TrackSDLUpdate"
  <2>1. BackendLayout(m) = TrackSDLUpdate(m)
    BY <1>23 DEF BackendLayout
  <2> QED
    BY <2>1, TrackSDLUpdateLaid
<1>24. CASE m.class = "TrackNextGameID"
  <2>1. BackendLayout(m) = TrackNextGameID(m)
    BY <1>24 DEF BackendLayout
  <2> QED
    BY <2>1, TrackNextGameIDLongLaid, TrackNextGameIDShortLaid
<1>25. CASE m.class = "TrackAgeRequest_To"
  <2>1. BackendLayout(m) = TrackAgeRequest_To(m)
    BY <1>25 DEF BackendLayout
  <2> QED
    BY <2>1, TrackAgeRequest_ToLaid
<1>26. CASE m.class = "TrackAgeRequest_From"
  <2>1. BackendLayout(m) = TrackAgeRequest_From(m)
    BY <1>26 DEF BackendLayout
  <2> QED
    BY <2>1, TrackAgeRequest_FromLaid
<1>27. CASE m.class = "TrackStartAge_From"
  <2>1. BackendLayout(m) = TrackStartAge_From(m)
    BY <1>27 DEF BackendLayout
  <2> QED
    BY <2>1, TrackStartAge_FromLaid
<1>28. CASE m.class = "TrackStartAge_To"
  <2>1. BackendLayout(m) = TrackStartAge_To(m)
    BY <1>28 DEF BackendLayout
  <2> QED
    BY <2>1, TrackStartAge_ToLaid
<1>29. CASE m.class = "TrackAddPlayer_From"
  <2>1. BackendLayout(m) = TrackAddPlayer_From(m)
    BY <1>29 DEF BackendLayout
  <2> QED
    BY <2>1, TrackAddPlayer_FromLaid
<1>30. CASE m.class = "TrackAddPlayer_To"
  <2>1. BackendLayout(m) = TrackAddPlayer_To(m)
    BY <1>30 DEF BackendLayout
  <2> QED
    BY <2>1, TrackAddPlayer_ToLaid
<1>31. CASE m.class = "MarkerGetGame"
  <2>1. BackendLayout(m) = MarkerGetGame(m)
    BY <1>31 DEF BackendLayout
  <2> QED
    BY <2>1, MarkerGetGameLaid
<1>32. CASE m.class = "MarkerAdd"
  <2>1. BackendLayout(m) = MarkerAdd(m)
    BY <1>32 DEF BackendLayout
  <2> QED
    BY <2>1, MarkerAddLaid
<1>33. CASE m.class = "MarkersAll"
  <2>1. BackendLayout(m) = MarkersAll(m)
    BY <1>33 DEF BackendLayout
  <2> QED
    BY <2>1, MarkersAllLaid
<1>34. CASE m.class = "MarkersCaptured"
  <2>1. BackendLayout(m) = MarkersCaptured(m)
    BY <1>34 DEF BackendLayout
  <2>2. n > 0 \/ n = 0
    OBVIOUS
  <2> QED
    BY <2>1, <2>2, MarkersCapturedLongLaid, MarkersCapturedShortLaid
<1>35. CASE m.class = "MarkerGameRename"
  <2>1. BackendLayout(m) = MarkerGameRename(m)
    BY <1>35 DEF BackendLayout
  <2> QED
    BY <2>1, MarkerGameRenameLaid
<1>36. CASE m.class = "MarkerGameDelete"
  <2>1. BackendLayout(m) = MarkerGameDelete(m)
    BY <1>36 DEF BackendLayout
  <2> QED
    BY <2>1, MarkerGameDeleteLaid
<1>37. CASE m.class = "MarkerGameRenameMarker"
  <2>1. BackendLayout(m) = MarkerGameRenameMarker(m)
    BY <1>37 DEF BackendLayout
  <2> QED
    BY <2>1, MarkerGameRenameMarkerLaid
<1>38. CASE m.class = "MarkerGameDeleteMarker"
  <2>1. BackendLayout(m) = MarkerGameDeleteMarker(m)
    BY <1>38 DEF BackendLayout
  <2> QED
    BY <2>1, MarkerGameDeleteMarkerLaid
<1>39. CASE m.class = "MarkerGameCaptureMarker"
  <2>1. BackendLayout(m) = MarkerGameCaptureMarker(m)
    BY <1>39 DEF BackendLayout
  <2> QED
    BY <2>1, MarkerGameCaptureMarkerLaid
<1>40. CASE m.class = "MarkerGameStop"
  <2>1. BackendLayout(m) = MarkerGameStop(m)
    BY <1>40 DEF BackendLayout
  <2> QED
    BY <2>1, MarkerGameStopLaid
<1> QED
  BY <1>1, <1>2, <1>3, <1>4, <1>5, <1>6, <1>7, <1>8, <1>9, <1>10, <1>11, <1>12, <1>13,
      <1>14, <1>15, <1>16, <1>17, <1>18, <1>19, <1>20, <1>21, <1>22, <1>23, <1>24, <1>25,
      <1>26, <1>27, <1>28, <1>29, <1>30, <1>31, <1>32, <1>33, <1>34, <1>35, <1>36, <1>37,
      <1>38, <1>39, <1>40 DEF BackendClasses

\* Every answer of the backend, on its way to the auth server and to the client.
LEMMA AnswerLayoutLaid ==
  ASSUME NEW m, NEW n \in Nat, m.n = n, m.long \in BOOLEAN,
         m.class \in AnswerClasses, ~m.owner
  PROVE  Laid(BackendFormat(BackendLayout(m))) /\ Laid(AnswerIs(BackendLayout(m)))
<1>1. CASE m.class = "VaultPassthrough"
  <2>1. BackendLayout(m) = VaultPassthrough(m)
    BY <1>1 DEF BackendLayout
  <2> QED
    BY <2>1, VaultPassthroughLaid
<1>2. CASE m.class = "VaultNodeFetch_From"
  <2>1. BackendLayout(m) = VaultNodeFetch_From(m)
    BY <1>2 DEF BackendLayout
  <2> QED
    BY <2>1, VaultNodeFetch_FromLongLaid, VaultNodeFetch_FromShortLaid
<1>3. CASE m.class = "VaultScoreGet_From"
  <2>1. BackendLayout(m) = VaultScoreGet_From(m)
    BY <1>3 DEF BackendLayout
  <2> QED
    BY <2>1, VaultScoreGet_FromLongLaid, VaultScoreGet_FromShortLaid
<1> QED
  BY <1>1, <1>2, <1>3 DEF AnswerClasses

\* Every vault message of a client, to the auth server and to the backend.
LEMMA VaultLayoutLaid ==
  ASSUME NEW m, NEW n \in Nat, m.n = n, m.long \in BOOLEAN,
         m.class \in VaultClasses, (m.class \in {"VaultNode_To", "VaultScoreCreate"} => ~m.owner)
  PROVE  Laid(BackendFormat(VaultLayout(m))) /\ Laid(HeardFormat(VaultHeard(m)))
<1>1. CASE m.class = "VaultFetchRefs_To"
  BY <1>1, VaultFetchRefs_ToLaid
<1>2. CASE m.class = "VaultNode_To"
  BY <1>2, VaultNode_ToLongLaid, VaultNode_ToShortLaid
<1>3. CASE m.class = "VaultNodeFetch_To"
  BY <1>3, VaultNodeFetch_ToLaid
<1>4. CASE m.class = "VaultRefChange_To"
  BY <1>4, VaultRefChange_ToLongLaid, VaultRefChange_ToShortLaid
<1>5. CASE m.class = "VaultInitAge_To"
  BY <1>5, VaultInitAge_ToLaid
<1>6. CASE m.class = "VaultAgeList_To"
  BY <1>6, VaultAgeList_ToLaid
<1>7. CASE m.class = "VaultNodeSend"
  BY <1>7, VaultNodeSendLaid
<1>8. CASE m.class = "VaultSetAgePublic"
  BY <1>8, VaultSetAgePublicLaid
<1>9. CASE m.class = "VaultScoreGet_To"
  BY <1>9, VaultScoreGet_ToLaid
<1>10. CASE m.class = "VaultScoreCreate"
  BY <1>10, VaultScoreCreateLaid
<1>11. CASE m.class = "VaultScoreAddPoints"
  BY <1>11, VaultScoreAddPointsLaid
<1>12. CASE m.class = "VaultScoreXferPoints"
  BY <1>12, VaultScoreXferPointsLaid
<1> QED
  BY <1>1, <1>2, <1>3, <1>4, <1>5, <1>6, <1>7, <1>8, <1>9, <1>10, <1>11,
      <1>12 DEF VaultClasses

\* Every other message of a client, but that whose length is read before it has come.
LEMMA HeardOfLaid ==
  ASSUME NEW m, NEW n \in Nat, m.n = n, m.long \in BOOLEAN,
         m.class \in HeardClasses, m.class # "AuthClientPlayerCreate"
  PROVE  Laid(HeardFormat(HeardOf(m)))
<1>1. CASE m.class = "AuthPing"
  <2>1. HeardOf(m) = AuthHeard(m)
    BY <1>1 DEF HeardOf, AuthClasses, GameClasses, GateClasses
  <2>2. AuthHeard(m) = AuthPing(m)
    BY <1>1 DEF AuthHeard
  <2> QED
    BY <2>1, <2>2, AuthPingLaid
<1>2. CASE m.class = "ClientRegister"
  <2>1. HeardOf(m) = AuthHeard(m)
    BY <1>2 DEF HeardOf, AuthClasses, GameClasses, GateClasses
  <2>2. AuthHeard(m) = ClientRegister(m)
    BY <1>2 DEF AuthHeard
  <2> QED
    BY <2>1, <2>2, ClientRegisterLaid
<1>3. CASE m.class = "AcctSetPlayer"
  <2>1. HeardOf(m) = AuthHeard(m)
    BY <1>3 DEF HeardOf, AuthClasses, GameClasses, GateClasses
  <2>2. AuthHeard(m) = AcctSetPlayer(m)
    BY <1>3 DEF AuthHeard
  <2> QED
    BY <2>1, <2>2, AcctSetPlayerLaid
<1>4. CASE m.class = "AuthClientLogin"
  <2>1. HeardOf(m) = AuthHeard(m)
    BY <1>4 DEF HeardOf, AuthClasses, GameClasses, GateClasses
  <2>2. AuthHeard(m) = AuthClientLogin(m)
    BY <1>4 DEF AuthHeard
  <2> QED
    BY <2>1, <2>2, AuthClientLoginLaid
<1>5. CASE m.class = "AuthClientChangePass"
  <2>1. HeardOf(m) = AuthHeard(m)
    BY <1>5 DEF HeardOf, AuthClasses, GameClasses, GateClasses
  <2>2. AuthHeard(m) = AuthClientChangePass(m)
    BY <1>5 DEF AuthHeard
  <2> QED
    BY <2>1, <2>2, AuthClientChangePassLaid
<1>6. CASE m.class = "FileChunkAck"
  <2>1. HeardOf(m) = AuthHeard(m)
    BY <1>6 DEF HeardOf, AuthClasses, GameClasses, GateClasses
  <2>2. AuthHeard(m) = FileChunkAck(m)
    BY <1>6 DEF AuthHeard
  <2> QED
    BY <2>1, <2>2, FileChunkAckLaid
<1>7. CASE m.class = "AuthClientFile"
  <2>1. HeardOf(m) = AuthHeard(m)
    BY <1>7 DEF HeardOf, AuthClasses, GameClasses, GateClasses
  <2>2. AuthHeard(m) = AuthClientFile(m)
    BY <1>7 DEF AuthHeard
  <2> QED
    BY <2>1, <2>2, AuthClientFileLongLaid, AuthClientFileShortLaid
<1>8. CASE m.class = "AuthClientAgeRequest"
  <2>1. HeardOf(m) = AuthHeard(m)
    BY <1>8 DEF HeardOf, AuthClasses, GameClasses, GateClasses
  <2>2. AuthHeard(m) = AuthClientAgeRequest(m)
    BY <1>8 DEF AuthHeard
  <2> QED
    BY <2>1, <2>2, AuthClientAgeRequestLaid
<1>9. CASE m.class = "AuthClientLog"
  <2>1. HeardOf(m) = AuthHeard(m)
    BY <1>9 DEF HeardOf, AuthClasses, GameClasses, GateClasses
  <2>2. AuthHeard(m) = AuthClientLog(m)
    BY <1>9 DEF AuthHeard
  <2> QED
    BY <2>1, <2>2, AuthClientLogLaid
<1>10. CASE m.class = "SendFriendInvite"
  <2>1. HeardOf(m) = AuthHeard(m)
    BY <1>10 DEF HeardOf, AuthClasses, GameClasses, GateClasses
  <2>2. AuthHeard(m) = SendFriendInvite(m)
    BY <1>10 DEF AuthHeard
  <2> QED
    BY <2>1, <2>2, SendFriendInviteLaid
<1>11. CASE m.class = "GamePing"
  <2>1. HeardOf(m) = GameHeard(m)
    BY <1>11 DEF HeardOf, AuthClasses, GameClasses, GateClasses
  <2>2. GameHeard(m) = GamePing(m)
    BY <1>11 DEF GameHeard
  <2> QED
    BY <2>1, <2>2, GamePingLaid
<1>12. CASE m.class = "GameJoinRequest"
  <2>1. HeardOf(m) = GameHeard(m)
    BY <1>12 DEF HeardOf, AuthClasses, GameClasses, GateClasses
  <2>2. GameHeard(m) = GameJoinRequest(m)
    BY <1>12 DEF GameHeard
  <2> QED
    BY <2>1, <2>2, GameJoinRequestLaid
<1>13. CASE m.class = "PropagateBuffer"
  <2>1. HeardOf(m) = GameHeard(m)
    BY <1>13 DEF HeardOf, AuthClasses, GameClasses, GateClasses
  <2>2. GameHeard(m) = PropagateBuffer(m)
    BY <1>13 DEF GameHeard
  <2> QED
    BY <2>1, <2>2, PropagateBufferLaid
<1>14. CASE m.class = "GameMgr"
  <2>1. HeardOf(m) = GameHeard(m)
    BY <1>14 DEF HeardOf, AuthClasses, GameClasses, GateClasses
  <2>2. GameHeard(m) = GameMgr(m)
    BY <1>14 DEF GameHeard
  <2> QED
    BY <2>1, <2>2, GameMgrLaid
<1>15. CASE m.class = "GatekeeperClient"
  <2>1. HeardOf(m) = GateHeard(m)
    BY <1>15 DEF HeardOf, AuthClasses, GameClasses, GateClasses
  <2>2. GateHeard(m) = GatekeeperClient(m)
    BY <1>15 DEF GateHeard
  <2> QED
    BY <2>1, <2>2, GatekeeperClientLaid
<1>16. CASE m.class = "GatekeeperPing"
  <2>1. HeardOf(m) = GateHeard(m)
    BY <1>16 DEF HeardOf, AuthClasses, GameClasses, GateClasses
  <2>2. GateHeard(m) = GatekeeperPing(m)
    BY <1>16 DEF GateHeard
  <2> QED
    BY <2>1, <2>2, GatekeeperPingLaid
<1> QED
  BY <1>1, <1>2, <1>3, <1>4, <1>5, <1>6, <1>7, <1>8, <1>9, <1>10, <1>11, <1>12, <1>13,
      <1>14, <1>15, <1>16 DEF HeardClasses, AuthClasses, GameClasses, GateClasses

\* Every message of a server to a client.
LEMMA ToldFormatLaid ==
  ASSUME NEW m, NEW n \in Nat, m.n = n, m.long \in BOOLEAN,
         m.class \in CodedClasses \union ToldClasses, Fits(m)
  PROVE  Laid(ToldIs(ToldFormat(m)))
<1>1. CASE m.class = "AuthServerLogin"
  <2>1. ToldFormat(m) = AuthServerLogin(m)
    BY <1>1 DEF ToldFormat
  <2> QED
    BY <2>1, AuthServerLoginLongLaid, AuthServerLoginShortLaid
<1>2. CASE m.class = "AuthServerChangePass"
  <2>1. ToldFormat(m) = AuthServerChangePass(m)
    BY <1>2 DEF ToldFormat
  <2> QED
    BY <2>1, AuthServerChangePassLaid
<1>3. CASE m.class = "AuthServerPlayerCreate"
  <2>1. ToldFormat(m) = AuthServerPlayerCreate(m)
    BY <1>3 DEF ToldFormat
  <2> QED
    BY <2>1, AuthServerPlayerCreateLongLaid, AuthServerPlayerCreateShortLaid
<1>4. CASE m.class = "AuthServerKick"
  <2>1. ToldFormat(m) = AuthServerKick(m)
    BY <1>4 DEF ToldFormat
  <2> QED
    BY <2>1, AuthServerKickLaid
<1>5. CASE m.class = "AuthServerAgeReply"
  <2>1. ToldFormat(m) = AuthServerAgeReply(m)
    BY <1>5 DEF ToldFormat
  <2> QED
    BY <2>1, AuthServerAgeReplyLaid
<1>6. CASE m.class = "GameJoinReply"
  <2>1. ToldFormat(m) = GameJoinReply(m)
    BY <1>6 DEF ToldFormat
  <2> QED
    BY <2>1, GameJoinReplyLaid
<1>7. CASE m.class = "PlNetMsgGroupOwner"
  <2>1. ToldFormat(m) = PlNetMsgGroupOwner(m)
    BY <1>7 DEF ToldFormat
  <2> QED
    BY <2>1, PlNetMsgGroupOwnerLaid
<1>8. CASE m.class = "PlNetMsgInitialAgeStateSent"
  <2>1. ToldFormat(m) = PlNetMsgInitialAgeStateSent(m)
    BY <1>8 DEF ToldFormat
  <2> QED
    BY <2>1, PlNetMsgInitialAgeStateSentLaid
<1>9. CASE m.class = "PlNetMsgMembers"
  <2>1. ToldFormat(m) = PlNetMsgMembers(m)
    BY <1>9 DEF ToldFormat
  <2> QED
    BY <2>1, PlNetMsgMembersShortLaid, PlNetMsgMembersLongLaid
<1>10. CASE m.class = "PlNetMsgSDLState"
  <2>1. ToldFormat(m) = PlNetMsgSDLState(m)
    BY <1>10 DEF ToldFormat
  <2> QED
    BY <2>1, PlNetMsgSDLStateLaid
<1>11. CASE m.class = "PlServerReply"
  <2>1. ToldFormat(m) = PlServerReply(m)
    BY <1>11 DEF ToldFormat
  <2> QED
    BY <2>1, PlServerReplyLaid
<1>12. CASE m.class = "PlNetMsgLoadClone"
  <2>1. ToldFormat(m) = PlNetMsgLoadClone(m)
    BY <1>12 DEF ToldFormat
  <2> QED
    BY <2>1, PlNetMsgLoadCloneLaid
<1>13. CASE m.class = "GameMgr_Setup_Reply"
  <2>1. ToldFormat(m) = GameMgr_Setup_Reply(m)
    BY <1>13 DEF ToldFormat
  <2> QED
    BY <2>1, GameMgr_Setup_ReplyLaid
<1>14. CASE m.class = "GameMgr_Simple"
  <2>1. ToldFormat(m) = GameMgr_Simple(m)
    BY <1>14 DEF ToldFormat
  <2> QED
    BY <2>1, GameMgr_SimpleLaid
<1>15. CASE m.class = "GameMgr_OneByte"
  <2>1. ToldFormat(m) = GameMgr_OneByte(m)
    BY <1>15 DEF ToldFormat
  <2> QED
    BY <2>1, GameMgr_OneByteLaid
<1>16. CASE m.class = "GameMgr_FourByte"
  <2>1. ToldFormat(m) = GameMgr_FourByte(m)
    BY <1>16 DEF ToldFormat
  <2> QED
    BY <2>1, GameMgr_FourByteLaid
<1>17. CASE m.class = "GameMgr_VarSync_VarCreated"
  <2>1. ToldFormat(m) = GameMgr_VarSync_VarCreated(m)
    BY <1>17 DEF ToldFormat
  <2>2. 2 * n + 2 <= 512
    BY <1>17 DEF Fits, Bounded
  <2> QED
    BY <2>1, <2>2, GameMgr_VarSync_VarCreatedLaid
<1>18. CASE m.class = "GameMgr_Marker_GameCreated"
  <2>1. ToldFormat(m) = GameMgr_Marker_GameCreated(m)
    BY <1>18 DEF ToldFormat
  <2> QED
    BY <2>1, GameMgr_Marker_GameCreatedLaid
<1>19. CASE m.class = "GameMgr_Marker_GameNameChanged"
  <2>1. ToldFormat(m) = GameMgr_Marker_GameNameChanged(m)
    BY <1>19 DEF ToldFormat
  <2>2. 2 * n + 2 <= 512
    BY <1>19 DEF Fits, Bounded
  <2> QED
    BY <2>1, <2>2, GameMgr_Marker_GameNameChangedLaid
<1>20. CASE m.class = "GameMgr_Marker_MarkerAdded"
  <2>1. ToldFormat(m) = GameMgr_Marker_MarkerAdded(m)
    BY <1>20 DEF ToldFormat
  <2>2. 2 * n + 2 <= 160
    BY <1>20 DEF Fits, Bounded
  <2> QED
    BY <2>1, <2>2, GameMgr_Marker_MarkerAddedLaid
<1>21. CASE m.class = "GameMgr_Marker_MarkerCaptured"
  <2>1. ToldFormat(m) = GameMgr_Marker_MarkerCaptured(m)
    BY <1>21 DEF ToldFormat
  <2> QED
    BY <2>1, GameMgr_Marker_MarkerCapturedLaid
<1>22. CASE m.class = "GameMgr_Marker_MarkerNameChanged"
  <2>1. ToldFormat(m) = GameMgr_Marker_MarkerNameChanged(m)
    BY <1>22 DEF ToldFormat
  <2>2. 2 * n + 2 <= 512
    BY <1>22 DEF Fits, Bounded
  <2> QED
    BY <2>1, <2>2, GameMgr_Marker_MarkerNameChangedLaid
<1>23. CASE m.class = "GameMgr_BlueSpiral_ClothOrder"
  <2>1. ToldFormat(m) = GameMgr_BlueSpiral_ClothOrder(m)
    BY <1>23 DEF ToldFormat
  <2> QED
    BY <2>1, GameMgr_BlueSpiral_ClothOrderLaid
<1>24. CASE m.class = "GameMgr_Heek_PlayGame"
  <2>1. ToldFormat(m) = GameMgr_Heek_PlayGame(m)
    BY <1>24 DEF ToldFormat
  <2> QED
    BY <2>1, GameMgr_Heek_PlayGameLaid
<1>25. CASE m.class = "GameMgr_Heek_Welcome"
  <2>1. ToldFormat(m) = GameMgr_Heek_Welcome(m)
    BY <1>25 DEF ToldFormat
  <2>2. 2 * n + 2 <= 512
    BY <1>25 DEF Fits, Bounded
  <2> QED
    BY <2>1, <2>2, GameMgr_Heek_WelcomeLaid
<1>26. CASE m.class = "GameMgr_Heek_PointUpdate"
  <2>1. ToldFormat(m) = GameMgr_Heek_PointUpdate(m)
    BY <1>26 DEF ToldFormat
  <2> QED
    BY <2>1, GameMgr_Heek_PointUpdateLaid
<1>27. CASE m.class = "GameMgr_Heek_WinLose"
  <2>1. ToldFormat(m) = GameMgr_Heek_WinLose(m)
    BY <1>27 DEF ToldFormat
  <2> QED
    BY <2>1, GameMgr_Heek_WinLoseLaid
<1>28. CASE m.class = "GameMgr_Heek_Lights"
  <2>1. ToldFormat(m) = GameMgr_Heek_Lights(m)
    BY <1>28 DEF ToldFormat
  <2> QED
    BY <2>1, GameMgr_Heek_LightsLaid
<1>29. CASE m.class = "GatekeeperServer"
  <2>1. ToldFormat(m) = GatekeeperServer(m)
    BY <1>29 DEF ToldFormat
  <2> QED
    BY <2>1, GatekeeperServerLaid
<1> QED
  BY <1>1, <1>2, <1>3, <1>4, <1>5, <1>6, <1>7, <1>8, <1>9, <1>10, <1>11, <1>12, <1>13,
      <1>14, <1>15, <1>16, <1>17, <1>18, <1>19, <1>20, <1>21, <1>22, <1>23, <1>24, <1>25,
      <1>26, <1>27, <1>28, <1>29 DEF CodedClasses, ToldClasses

\* A message that is read as it was written: of any class but the one whose
\* length is read before it has come (the invite code); not a vault message that
\* owns its buffer and is then read from the wrong place: a node, a new score and
\* every answer; and with strings that fit their fields.
Sound(m) ==
  /\ m.class \in (BackendClasses \union VaultClasses \union AnswerClasses
                    \union HeardClasses \union CodedClasses \union ToldClasses)
                   \ {"AuthClientPlayerCreate"}
  /\ m.n \in Nat /\ m.long \in BOOLEAN
  /\ m.class \in {"VaultNode_To", "VaultScoreCreate"} \union AnswerClasses => ~m.owner
  /\ Fits(m)

\* The links that the messages of a class go over.
On(m, l) ==
  \/ l = "backend" /\ m.class \in BackendClasses \union AnswerClasses \union VaultClasses
  \/ l = "heard" /\ m.class \in VaultClasses \union HeardClasses
  \/ l = "coded" /\ m.class \in AnswerClasses \union CodedClasses
  \/ l = "told" /\ m.class \in ToldClasses

\* The kinds of classes have none in common.
OneKind(c) ==
  /\ c \in BackendClasses => c \notin VaultClasses \union AnswerClasses
  /\ c \in BackendClasses => c \notin HeardClasses
  /\ c \in BackendClasses => c \notin CodedClasses \union ToldClasses
  /\ c \in VaultClasses => c \notin AnswerClasses \union HeardClasses
  /\ c \in VaultClasses => c \notin CodedClasses \union ToldClasses
  /\ c \in AnswerClasses => c \notin HeardClasses
  /\ c \in AnswerClasses => c \notin CodedClasses \union ToldClasses
  /\ c \in HeardClasses => c \notin CodedClasses \union ToldClasses
  /\ c \in CodedClasses => c \notin ToldClasses

\* No class of message is of two kinds.
LEMMA ClassesDiffer ==
  ASSUME NEW c
  PROVE  OneKind(c)
<1>1. c \in BackendClasses => c \notin VaultClasses \union AnswerClasses
  BY DEF BackendClasses, VaultClasses, AnswerClasses
<1>2. c \in BackendClasses => c \notin HeardClasses
  BY DEF BackendClasses, HeardClasses, AuthClasses, GameClasses, GateClasses
<1>3. c \in BackendClasses => c \notin CodedClasses \union ToldClasses
  BY DEF BackendClasses, CodedClasses, ToldClasses
<1>4. c \in VaultClasses => c \notin AnswerClasses \union HeardClasses
  BY DEF VaultClasses, AnswerClasses, HeardClasses, AuthClasses, GameClasses, GateClasses
<1>5. c \in VaultClasses => c \notin CodedClasses \union ToldClasses
  BY DEF VaultClasses, CodedClasses, ToldClasses
<1>6. c \in AnswerClasses => c \notin HeardClasses \union CodedClasses \union ToldClasses
  BY DEF AnswerClasses, HeardClasses, AuthClasses, GameClasses, GateClasses, CodedClasses,
      ToldClasses
<1>7. c \in HeardClasses => c \notin CodedClasses \union ToldClasses
  BY DEF HeardClasses, AuthClasses, GameClasses, GateClasses, CodedClasses, ToldClasses
<1>8. c \in CodedClasses => c \notin ToldClasses
  BY DEF CodedClasses, ToldClasses
<1> QED
  BY <1>1, <1>2, <1>3, <1>4, <1>5, <1>6, <1>7, <1>8 DEF OneKind

\* Every message the program can make is right on every link it goes over.
LEMMA FormatOfLaid ==
  ASSUME NEW m, Sound(m), NEW l, On(m, l)
  PROVE  Laid(FormatOf(m, l))
<1> DEFINE n == m.n
           c == m.class
<1>1. /\ n \in Nat /\ m.n = n /\ m.long \in BOOLEAN /\ Fits(m)
      /\ c \in {"VaultNode_To", "VaultScoreCreate"} => ~m.owner
      /\ c \in AnswerClasses => ~m.owner
  BY DEF Sound
<1>2. c # "AuthClientPlayerCreate"
  BY DEF Sound
<1>3. OneKind(c)
  BY ClassesDiffer
<1>4. CASE l = "backend" /\ c \in BackendClasses
  <2>1. FormatOf(m, l) = BackendFormat(BackendLayout(m))
    BY <1>3, <1>4 DEF OneKind, FormatOf
  <2> QED
    BY <1>1, <1>4, <2>1, BackendLayoutLaid
<1>5. CASE l = "backend" /\ c \in AnswerClasses
  <2>1. FormatOf(m, l) = BackendFormat(BackendLayout(m))
    BY <1>3, <1>5 DEF OneKind, FormatOf
  <2> QED
    BY <1>1, <1>5, <2>1, AnswerLayoutLaid
<1>6. CASE l = "backend" /\ c \in VaultClasses
  <2>1. FormatOf(m, l) = BackendFormat(VaultLayout(m))
    BY <1>3, <1>6 DEF OneKind, FormatOf
  <2> QED
    BY <1>1, <1>6, <2>1, VaultLayoutLaid
<1>7. CASE l = "heard" /\ c \in VaultClasses
  <2>1. FormatOf(m, l) = HeardFormat(VaultHeard(m))
    BY <1>3, <1>7 DEF OneKind, FormatOf
  <2> QED
    BY <1>1, <1>7, <2>1, VaultLayoutLaid
<1>8. CASE l = "heard" /\ c \in HeardClasses
  <2>1. FormatOf(m, l) = HeardFormat(HeardOf(m))
    BY <1>3, <1>8 DEF OneKind, FormatOf
  <2> QED
    BY <1>1, <1>2, <1>8, <2>1, HeardOfLaid
<1>9. CASE l = "coded" /\ c \in AnswerClasses
  <2>1. FormatOf(m, l) = AnswerIs(BackendLayout(m))
    BY <1>3, <1>9 DEF OneKind, FormatOf, AnswerIs
  <2> QED
    BY <1>1, <1>9, <2>1, AnswerLayoutLaid
<1>10. CASE l = "coded" /\ c \in CodedClasses
  <2>1. FormatOf(m, l) = ToldIs(ToldFormat(m))
    BY <1>3, <1>10 DEF OneKind, FormatOf, ToldIs
  <2> QED
    BY <1>1, <1>10, <2>1, ToldFormatLaid
<1>11. CASE l = "told" /\ c \in ToldClasses
  <2>1. FormatOf(m, l) = ToldIs(ToldFormat(m))
    BY <1>3, <1>11 DEF OneKind, FormatOf, ToldIs
  <2> QED
    BY <1>1, <1>11, <2>1, ToldFormatLaid
<1> QED
  BY <1>4, <1>5, <1>6, <1>7, <1>8, <1>9, <1>10, <1>11 DEF On

\* The link a message starts on is one of those.
LEMMA FirstIsOn ==
  ASSUME NEW m, Sound(m)
  PROVE  On(m, FirstLink(m))
<1> DEFINE c == m.class
<1>1. c \in BackendClasses \union VaultClasses \union AnswerClasses
             \union HeardClasses \union CodedClasses \union ToldClasses
  BY DEF Sound
<1>2. OneKind(c)
  BY ClassesDiffer
<1> QED
  BY <1>1, <1>2 DEF OneKind, FirstLink, On

\* So is the one it goes on over.
LEMMA NextIsOn ==
  ASSUME NEW m, Sound(m), NEW l, On(m, l), NextLink(m, l) # "none"
  PROVE  On(m, NextLink(m, l))
BY DEF NextLink, On

-----------------------------------------------------------------------------
(***************************************************************************)
(* Bytes on their way.                                                     *)
(***************************************************************************)

\* The place that a list of fields has come to never goes back.
LEMMA SumsGrow ==
  ASSUME NEW fs, IsFields(fs), NEW f, Sums(fs, f)
  PROVE  \A i \in 0..Len(fs) : f[i] \in Nat /\ f[i] <= f[Len(fs)]
<1> DEFINE n == Len(fs)
           T == {k \in 0..n : \A i \in 0..k : f[i] <= f[k]}
<1>1. n \in Nat /\ \A i \in 1..n : fs[i][2] \in Nat
  BY DEF IsFields
<1>2. (\A i \in 0..n : f[i] \in Nat) /\ \A i \in 1..n : f[i] = f[i - 1] + fs[i][2]
  BY DEF Sums
<1>3. 0 \in T
  <2>1. \A i \in 0..0 : i = 0
    OBVIOUS
  <2> QED
    BY <1>1, <1>2, <2>1
<1>4. ASSUME NEW k \in Nat, k < n, k \in T  PROVE k + 1 \in T
  <2>1. k + 1 \in 1..n /\ (k + 1) - 1 = k /\ k \in 0..n /\ k + 1 \in 0..n
    BY <1>1, <1>4
  <2>2. f[k + 1] = f[k] + fs[k + 1][2] /\ f[k] \in Nat /\ f[k + 1] \in Nat
      /\ fs[k + 1][2] \in Nat
    BY <1>1, <1>2, <2>1
  <2>3. f[k] <= f[k + 1]
    BY <2>2
  <2>4. ASSUME NEW i \in 0..(k + 1)
        PROVE  f[i] <= f[k + 1]
    <3>1. i \in 0..k \/ i = k + 1
      BY <1>4
    <3>2. CASE i \in 0..k
      <4>1. f[i] <= f[k] /\ f[i] \in Nat
        BY <1>2, <1>4, <2>1, <3>2
      <4> QED
        BY <2>2, <2>3, <4>1
    <3>3. CASE i = k + 1
      BY <2>2, <3>3
    <3> QED
      BY <3>1, <3>2, <3>3
  <2> QED
    BY <2>1, <2>4
<1> HIDE DEF T
<1>5. n \in T
  <2>1. \A i \in 0..n : i \in T
    BY <1>1, <1>3, <1>4, UpTo
  <2> QED
    BY <1>1, <2>1
<1> QED
  BY <1>1, <1>2, <1>5 DEF T

\* The fields of a message: each ends in it, the last with it.
LEMMA FieldsEnd ==
  ASSUME NEW f, Framed(f)
  PROVE  /\ Len(f.fields) \in Nat /\ Len(f.fields) > 0
         /\ f.fields = [i \in 1..Len(f.fields) |-> f.fields[i]]
         /\ \A i \in 1..Len(f.fields) : f.fields[i][2] + f.fields[i][3] \in 0..f.len
         /\ f.fields[Len(f.fields)][2] + f.fields[Len(f.fields)][3] = f.len
<1>1. PICK fs : IsFields(fs) /\ f.fields = From(0, fs) /\ f.len = Width(fs)
          /\ f.len \in Nat /\ f.len > 0
  BY DEF Framed
<1>2. PICK g : Sums(fs, g)
  BY <1>1, WidthIs
<1>3. Width(fs) = g[Len(fs)]
  BY <1>1, <1>2, WidthOf
<1> DEFINE n == Len(fs)
<1>4. n \in Nat /\ \A i \in 1..n : fs[i][2] \in Nat
  BY <1>1 DEF IsFields
<1>5. n > 0
  BY <1>1, <1>2, <1>3, <1>4 DEF Sums
<1>6. IsMarks(f.fields) /\ Len(f.fields) = n
      /\ \A i \in 1..n : f.fields[i] = <<fs[i][1], 0 + g[i - 1], fs[i][2]>>
  BY <1>1, <1>2, FromIs
<1>7. \A i \in 0..n : g[i] \in Nat /\ g[i] <= g[n]
  BY <1>1, <1>2, SumsGrow
<1>8. \A i \in 1..n : g[i] = g[i - 1] + fs[i][2]
  BY <1>2 DEF Sums
<1>9. \A i \in 1..n : f.fields[i][2] + f.fields[i][3] = g[i]
  <2> TAKE i \in 1..n
  <2>1. f.fields[i] = <<fs[i][1], 0 + g[i - 1], fs[i][2]>>
    BY <1>6
  <2>2. f.fields[i][2] = 0 + g[i - 1] /\ f.fields[i][3] = fs[i][2]
    BY <2>1
  <2>3. i - 1 \in 0..n /\ g[i - 1] \in Nat /\ fs[i][2] \in Nat
    BY <1>4, <1>7
  <2> QED
    BY <1>8, <2>2, <2>3
<1>10. \A i \in 1..n : f.fields[i][2] + f.fields[i][3] \in 0..f.len
  <2> TAKE i \in 1..n
  <2>1. i \in 0..n
    BY <1>4
  <2>2. g[i] \in Nat /\ g[i] <= f.len
    BY <1>1, <1>3, <1>7, <2>1
  <2> QED
    BY <1>1, <1>9, <2>2
<1>11. n \in 1..n /\ f.fields[n][2] + f.fields[n][3] = f.len
  BY <1>1, <1>3, <1>4, <1>5, <1>9
<1> QED
  BY <1>4, <1>5, <1>6, <1>10, <1>11 DEF IsMarks

\* Bytes of a message one behind the other.
LEMMA BytesIs ==
  ASSUME NEW a \in Nat, NEW b \in Nat, a <= b
  PROVE  /\ Len(Bytes(a, b)) = b - a /\ b - a \in Nat
         /\ Bytes(a, b) = [i \in 1..(b - a) |-> Bytes(a, b)[i]]
         /\ \A i \in 1..(b - a) : Bytes(a, b)[i] = a + i
BY DEF Bytes

\* Bytes of a message and those behind them.
LEMMA BytesCat ==
  ASSUME NEW a \in Nat, NEW b \in Nat, NEW c \in Nat, a <= b, b <= c
  PROVE  Bytes(a, b) \o Bytes(b, c) = Bytes(a, c)
<1> DEFINE x == Bytes(a, b)
           y == Bytes(b, c)
           z == Bytes(a, c)
<1>1. Len(x) = b - a /\ b - a \in Nat /\ x = [i \in 1..(b - a) |-> x[i]]
          /\ \A i \in 1..(b - a) : x[i] = a + i
  BY BytesIs
<1>2. Len(y) = c - b /\ c - b \in Nat /\ y = [i \in 1..(c - b) |-> y[i]]
          /\ \A i \in 1..(c - b) : y[i] = b + i
  BY BytesIs
<1>3. a <= c
  OBVIOUS
<1>4. Len(z) = c - a /\ z = [i \in 1..(c - a) |-> z[i]] /\ \A i \in 1..(c - a) : z[i]
          = a + i
  BY <1>3, BytesIs
<1> HIDE DEF x, y, z
<1>5. /\ x \o y = [i \in 1..(Len(x) + Len(y)) |-> (x \o y)[i]]
      /\ \A i \in 1..Len(x) : (x \o y)[i] = x[i]
      /\ \A i \in 1..Len(y) : (x \o y)[Len(x) + i] = y[i]
  <2>1. /\ Len(x) \in Nat /\ x = [i \in 1..Len(x) |-> x[i]]
        /\ Len(y) \in Nat /\ y = [i \in 1..Len(y) |-> y[i]]
    BY <1>1, <1>2
  <2> QED
    BY ONLY <2>1, JoinIs
<1> DEFINE w == x \o y
<1>6. w = [i \in 1..(c - a) |-> w[i]]
  <2>1. Len(x) + Len(y) = c - a
    BY <1>1, <1>2
  <2> QED
    BY <1>5, <2>1
<1>7. \A i \in 1..(c - a) : w[i] = a + i
  <2> TAKE i \in 1..(c - a)
  <2>1. CASE i <= b - a
    <3>1. i \in 1..(b - a)
      BY <2>1
    <3> QED
      BY <1>1, <1>5, <3>1
  <2>2. CASE ~(i <= b - a)
    <3> DEFINE j == i - (b - a)
    <3>1. j \in 1..(c - b) /\ Len(x) + j = i /\ b + j = a + i
      BY <1>1, <2>2
    <3> HIDE DEF j
    <3>2. w[Len(x) + j] = y[j]
      BY <1>2, <1>5, <3>1
    <3> QED
      BY <1>2, <3>1, <3>2
  <2> QED
    BY <2>1, <2>2
<1> HIDE DEF w
<1>8. w = z
  BY <1>4, <1>6, <1>7
<1> QED
  BY <1>8 DEF w, x, y, z

\* The first of them are bytes from the same place.
LEMMA FirstBytes ==
  ASSUME NEW a \in Nat, NEW b \in Nat, a <= b, NEW cut \in Nat
  PROVE  \E k \in Nat : a + k <= b /\ First(cut, Bytes(a, b)) = Bytes(a, a + k)
<1> DEFINE x == Bytes(a, b)
           k == Least(cut, b - a)
<1>1. Len(x) = b - a /\ b - a \in Nat /\ x = [i \in 1..(b - a) |-> x[i]]
          /\ \A i \in 1..(b - a) : x[i] = a + i
  BY BytesIs
<1>2. k \in 0..(b - a)
  BY <1>1 DEF Least
<1>3. a + k \in Nat /\ a <= a + k /\ a + k <= b /\ (a + k) - a = k
  BY <1>1, <1>2
<1>4. Bytes(a, a + k) = [i \in 1..k |-> a + i]
  <2> HIDE DEF k
  <2> QED
    BY <1>3 DEF Bytes
<1> HIDE DEF x
<1>5. First(cut, x) = SubSeq(x, 1, k)
  BY <1>1 DEF First
<1> HIDE DEF k
<1>6. SubSeq(x, 1, k) = [i \in 1..k |-> x[i]]
  BY <1>1, <1>2, PrefixIs
<1>7. \A i \in 1..k : x[i] = a + i
  BY <1>1, <1>2
<1>8. SubSeq(x, 1, k) = Bytes(a, a + k)
  BY <1>4, <1>6, <1>7
<1> QED
  BY <1>2, <1>3, <1>5, <1>8 DEF x
\* A sequence of this many.
IsSeq(x, p) == p \in Nat /\ Len(x) = p /\ x = [i \in 1..p |-> x[i]]

Joins(w, x, p, y, q) ==
  (\A i \in 1..p : w[i] = x[i]) /\ \A i \in 1..q : w[p + i] = y[i]

\* One sequence behind another.
LEMMA JoinedIs ==
  ASSUME NEW x, NEW p, IsSeq(x, p), NEW y, NEW q, IsSeq(y, q), NEW r, r = p + q
  PROVE  IsSeq(x \o y, r) /\ Joins(x \o y, x, p, y, q)
<1>1. /\ Len(x) = p /\ p \in Nat /\ x = [i \in 1..p |-> x[i]]
      /\ Len(y) = q /\ q \in Nat /\ y = [i \in 1..q |-> y[i]]
  BY DEF IsSeq
<1>2. /\ Len(x) \in Nat /\ x = [i \in 1..Len(x) |-> x[i]]
      /\ Len(y) \in Nat /\ y = [i \in 1..Len(y) |-> y[i]]
  BY <1>1
<1>3. /\ Len(x \o y) = Len(x) + Len(y)
      /\ x \o y = [i \in 1..(Len(x) + Len(y)) |-> (x \o y)[i]]
      /\ \A i \in 1..Len(x) : (x \o y)[i] = x[i]
      /\ \A i \in 1..Len(y) : (x \o y)[Len(x) + i] = y[i]
  BY ONLY <1>2, JoinIs
<1> QED
  BY <1>1, <1>3 DEF IsSeq, Joins

\* What stands in a connection's write buffer: z bytes of others, and then
\* those of the message from t on.
Held(z, t, s) == [i \in 1..(z + (s - t)) |-> IF i <= z THEN 0 ELSE t + (i - z)]

\* The write buffer, place by place.
LEMMA HeldIs ==
  ASSUME NEW z \in Nat, NEW t \in Nat, NEW s \in Nat, t <= s
  PROVE  /\ z + (s - t) \in Nat /\ Len(Held(z, t, s)) = z + (s - t)
         /\ Held(z, t, s) = [i \in 1..(z + (s - t)) |-> Held(z, t, s)[i]]
         /\ \A i \in 1..(z + (s - t)) : Held(z, t, s)[i] = IF i <= z THEN 0 ELSE t + (i - z)
BY DEF Held

\* Filling it up with the next bytes.
LEMMA HeldMore ==
  ASSUME NEW z \in Nat, NEW t \in Nat, NEW s \in Nat, NEW e \in Nat, t <= s, s <= e
  PROVE  Held(z, t, s) \o Bytes(s, e) = Held(z, t, e)
<1> DEFINE x == Held(z, t, s)
           y == Bytes(s, e)
           h == Held(z, t, e)
           p == z + (s - t)
           q == e - s
           r == z + (e - t)
<1>1. Len(x) = p /\ p \in Nat /\ x = [i \in 1..p |-> x[i]] /\ \A i \in 1..p : x[i]
          = IF i <= z THEN 0 ELSE t + (i - z)
  <2>1. z \in Nat /\ t \in Nat /\ s \in Nat /\ t <= s
    OBVIOUS
  <2> QED
    BY ONLY <2>1, HeldIs
<1>2. Len(y) = q /\ q \in Nat /\ y = [i \in 1..q |-> y[i]] /\ \A i \in 1..q : y[i] = s + i
  BY BytesIs
<1>3. z \in Nat /\ t \in Nat /\ e \in Nat /\ t <= e
  OBVIOUS
<1>4. r \in Nat /\ h = [i \in 1..r |-> h[i]] /\ \A i \in 1..r : h[i]
          = IF i <= z THEN 0 ELSE t + (i - z)
  BY ONLY <1>3, HeldIs
<1> HIDE DEF x, y, h, p, q, r
<1>5. IsSeq(x, p) /\ IsSeq(y, q) /\ r = p + q
  BY <1>1, <1>2 DEF IsSeq, p, q, r
<1> DEFINE w == x \o y
<1>6. IsSeq(w, r) /\ Joins(w, x, p, y, q)
  BY ONLY <1>5, JoinedIs
<1> HIDE DEF w
<1>7. \A i \in 1..r : w[i] = h[i]
  <2> TAKE i \in 1..r
  <2>1. CASE i <= p
    <3>1. i \in 1..p
      BY <1>1, <2>1
    <3> QED
      BY <1>1, <1>4, <1>6, <3>1 DEF Joins
  <2>2. CASE ~(i <= p)
    <3> DEFINE j == i - p
    <3>1. j \in 1..q /\ p + j = i /\ s + j = t + (i - z) /\ ~(i <= z)
      BY <2>2 DEF p, q, r
    <3> HIDE DEF j
    <3>2. w[p + j] = y[j] /\ y[j] = s + j
      BY <1>1, <1>2, <1>6, <3>1 DEF Joins
    <3>3. h[i] = t + (i - z)
      BY <1>4, <3>1
    <3> QED
      BY <3>1, <3>2, <3>3
  <2> QED
    BY <2>1, <2>2
<1>8. w = h
  BY <1>4, <1>6, <1>7 DEF IsSeq
<1> QED
  BY <1>8 DEF w, x, y, h

AtFront(f, z, t, p) ==
  \E c \in 0..p : Len(f) = c /\ f = [i \in 1..c |-> IF i <= z THEN 0 ELSE t + (i - z)]

\* The front of it.
LEMMA FirstHeld ==
  ASSUME NEW z \in Nat, NEW t \in Nat, NEW s \in Nat, t <= s, NEW cut \in Nat,
         NEW p, p = z + (s - t), NEW h, h = Held(z, t, s)
  PROVE  AtFront(First(cut, h), z, t, p)
<1> DEFINE c == Least(cut, p)
<1>1. Len(h) = p /\ p \in Nat /\ h = [i \in 1..p |-> h[i]] /\ \A i \in 1..p : h[i]
          = IF i <= z THEN 0 ELSE t + (i - z)
  <2>1. z \in Nat /\ t \in Nat /\ s \in Nat /\ t <= s
    OBVIOUS
  <2>2. /\ z + (s - t) \in Nat /\ Len(Held(z, t, s)) = z + (s - t)
        /\ Held(z, t, s) = [i \in 1..(z + (s - t)) |-> Held(z, t, s)[i]]
        /\ \A i \in 1..(z + (s - t)) : Held(z, t, s)[i] = IF i <= z THEN 0 ELSE t + (i - z)
    BY ONLY <2>1, HeldIs
  <2> QED
    BY <2>2
<1>2. c \in 0..p
  BY <1>1 DEF Least
<1>3. First(cut, h) = SubSeq(h, 1, c)
  BY <1>1 DEF First
<1> HIDE DEF c
<1>4. Len(SubSeq(h, 1, c)) = c /\ SubSeq(h, 1, c) = [i \in 1..c |-> h[i]]
  BY <1>1, <1>2, PrefixIs
<1>5. \A i \in 1..c : h[i] = IF i <= z THEN 0 ELSE t + (i - z)
  BY <1>1, <1>2
<1>6. [i \in 1..c |-> h[i]] = [i \in 1..c |-> IF i <= z THEN 0 ELSE t + (i - z)]
  BY <1>5
<1> QED
  BY <1>2, <1>3, <1>4, <1>6 DEF AtFront

Ends(b, a, k, r) == \A i \in 1..r : b[i] = a[k + i]

\* What is behind the first k of a sequence.
LEMMA SuffixIs ==
  ASSUME NEW a, NEW p, IsSeq(a, p), NEW k \in 0..p, NEW r, r = p - k,
         NEW b, b = SubSeq(a, k + 1, p)
  PROVE  IsSeq(b, r) /\ Ends(b, a, k, r)
<1> DEFINE S == {a[i] : i \in 1..p}
<1>1. p \in Nat /\ k + 1 \in Int /\ p \in Int /\ r \in Nat /\ p - (k + 1) + 1 = r
      /\ \A i \in (k + 1)..p : i \in 1..p
  BY DEF IsSeq
<1>2. \A i \in (k + 1)..p : a[i] \in S
  BY <1>1
<1> HIDE DEF S
<1>3. /\ b \in Seq(S)
      /\ Len(b) = IF k + 1 <= p THEN p - (k + 1) + 1 ELSE 0
      /\ \A i \in 1..(p - (k + 1) + 1) : b[i] = a[(k + 1) + i - 1]
  BY <1>1, <1>2, SubSeqProperties
<1>4. Len(b) = r
  BY <1>1, <1>3
<1>5. \A i \in 1..r : b[i] = a[k + i]
  <2> TAKE i \in 1..r
  <2>1. (k + 1) + i - 1 = k + i
    BY <1>1
  <2> QED
    BY <1>1, <1>3, <2>1
<1>6. b \in [1..r -> S]
  BY <1>3, <1>4, LenProperties
<1>7. b = [i \in 1..r |-> b[i]]
  BY <1>6
<1> QED
  BY <1>1, <1>4, <1>5, <1>7 DEF IsSeq, Ends

\* c bytes from the front of the write buffer, z of which may be of others:
\* what of them is of the message.
LEMMA OwnIs ==
  ASSUME NEW z \in Nat, NEW t \in Nat, NEW c \in Nat,
         NEW took, took = [i \in 1..c |-> IF i <= z THEN 0 ELSE t + (i - z)]
  PROVE  Own(took) = IF c <= z THEN <<>> ELSE Bytes(t, t + (c - z))
<1> DEFINE e == IF c <= z THEN c ELSE z
           zeros == {i \in DOMAIN took : took[i] = 0}
<1>1. IsSeq(took, c) /\ \A i \in 1..c : took[i] = IF i <= z THEN 0 ELSE t + (i - z)
  BY DEF IsSeq
<1>2. zeros = 1..e
  <2>1. DOMAIN took = 1..c
    BY <1>1
  <2>2. ASSUME NEW i \in 1..c
        PROVE  took[i] = 0 <=> i <= e
    BY <1>1
  <2>3. e \in Nat /\ e <= c
    OBVIOUS
  <2> HIDE DEF e
  <2>4. \A i : i \in 1..e <=> (i \in 1..c /\ i <= e)
    BY <2>3
  <2> QED
    BY <2>1, <2>2, <2>4
<1>3. Cardinality(zeros) = e
  <2>1. 1 \in Int /\ e \in Int /\ e >= 0
    OBVIOUS
  <2> HIDE DEF e, zeros
  <2>2. Cardinality(1..e) = IF 1 > e THEN 0 ELSE e - 1 + 1
    BY <2>1, FS_Interval
  <2> QED
    BY <1>2, <2>1, <2>2
<1> DEFINE r == c - e
           b == SubSeq(took, e + 1, c)
<1>4. Own(took) = b
  <2>1. Len(took) = c
    BY <1>1 DEF IsSeq
  <2> QED
    BY <1>3, <2>1 DEF Own
<1>5. e \in 0..c /\ r = c - e
  OBVIOUS
<1>5a. b = SubSeq(took, e + 1, c)
  OBVIOUS
<1> HIDE DEF e, r, zeros, b
<1>6. IsSeq(b, r) /\ Ends(b, took, e, r)
  BY ONLY <1>1, <1>5, <1>5a, SuffixIs
<1>7. CASE c <= z
  <2>1. r = 0
    BY <1>5, <1>7 DEF e
  <2>2. b = <<>>
    BY <1>6, <2>1 DEF IsSeq
  <2> QED
    BY <1>4, <1>7, <2>2
<1>8. CASE ~(c <= z)
  <2>1. e = z /\ r = c - z /\ t + (c - z) \in Nat /\ t <= t + (c - z) /\ (t + (c - z)) - t
      = r
    BY <1>5, <1>8 DEF e
  <2>2. \A i \in 1..r : b[i] = t + i
    <3> TAKE i \in 1..r
    <3>1. e + i \in 1..c /\ ~(e + i <= z) /\ (e + i) - z = i
      BY <1>5, <2>1
    <3> QED
      BY <1>1, <1>6, <3>1 DEF Ends
  <2>3. Bytes(t, t + (c - z)) = [i \in 1..r |-> t + i]
    <3> DEFINE q == t + (c - z)
    <3>1. q - t = r
      BY <2>1
    <3> HIDE DEF q
    <3>2. Bytes(t, q) = [i \in 1..r |-> t + i]
      BY <3>1 DEF Bytes
    <3> QED
      BY <3>2 DEF q
  <2>4. b = [i \in 1..r |-> t + i]
    BY <1>6, <2>2 DEF IsSeq
  <2> QED
    BY <1>4, <1>8, <2>3, <2>4
<1> QED
  BY <1>7, <1>8

\* What is left of the write buffer then.
LEMMA RestIs ==
  ASSUME NEW z \in Nat, NEW t \in Nat, NEW s \in Nat, t <= s, (z > 0 => t = 0),
         NEW c \in 0..(z + (s - t))
  PROVE  SubSeq(Held(z, t, s), c + 1, z + (s - t))
           = IF c <= z THEN Held(z - c, t, s) ELSE Held(0, t + (c - z), s)
<1> DEFINE h == Held(z, t, s)
           p == z + (s - t)
           r == p - c
           b == SubSeq(h, c + 1, p)
<1>1. IsSeq(h, p) /\ \A i \in 1..p : h[i] = IF i <= z THEN 0 ELSE t + (i - z)
  <2>1. z \in Nat /\ t \in Nat /\ s \in Nat /\ t <= s
    OBVIOUS
  <2>2. /\ p \in Nat /\ Len(h) = p
        /\ h = [i \in 1..p |-> h[i]]
        /\ \A i \in 1..p : h[i] = IF i <= z THEN 0 ELSE t + (i - z)
    BY ONLY <2>1, HeldIs
  <2> QED
    BY <2>2 DEF IsSeq
<1>2. c \in 0..p /\ r = p - c
  OBVIOUS
<1>30. b = SubSeq(h, c + 1, p)
  OBVIOUS
<1> HIDE DEF h, p, r, b
<1>3. IsSeq(b, r) /\ Ends(b, h, c, r)
  BY ONLY <1>1, <1>2, <1>30, SuffixIs
<1>4. CASE c <= z
  <2> DEFINE y == z - c
  <2>1. y \in Nat /\ t \in Nat /\ s \in Nat /\ t <= s /\ y + (s - t) = r
    BY <1>2, <1>4 DEF p
  <2>2. \A i \in 1..r : b[i] = IF i <= y THEN 0 ELSE t + (i - y)
    <3> TAKE i \in 1..r
    <3>1. c + i \in 1..p /\ (c + i <= z <=> i <= y) /\ (c + i) - z = i - y
      BY <1>2, <2>1 DEF p
    <3> HIDE DEF y
    <3> QED
      BY <1>1, <1>3, <3>1 DEF Ends
  <2> HIDE DEF y
  <2>3. Held(y, t, s) = [i \in 1..r |-> IF i <= y THEN 0 ELSE t + (i - y)]
    BY <2>1 DEF Held
  <2>4. b = Held(y, t, s)
    BY <1>3, <2>2, <2>3 DEF IsSeq
  <2> QED
    BY <1>4, <2>4 DEF b, h, p, y
<1>5. CASE ~(c <= z)
  <2> DEFINE y == t + (c - z)
  <2>1. y \in Nat /\ s \in Nat /\ y <= s /\ 0 + (s - y) = r
    BY <1>2, <1>5 DEF p
  <2>2. \A i \in 1..r : b[i] = IF i <= 0 THEN 0 ELSE y + (i - 0)
    <3> TAKE i \in 1..r
    <3>1. c + i \in 1..p /\ ~(c + i <= z) /\ t + ((c + i) - z) = y + (i - 0) /\ ~(i <= 0)
      BY <1>2, <1>5, <2>1 DEF p
    <3> HIDE DEF y
    <3> QED
      BY <1>1, <1>3, <3>1 DEF Ends
  <2> HIDE DEF y
  <2>3. Held(0, y, s) = [i \in 1..r |-> IF i <= 0 THEN 0 ELSE y + (i - 0)]
    BY <2>1 DEF Held
  <2>4. b = Held(0, y, s)
    BY <1>3, <2>2, <2>3 DEF IsSeq
  <2> QED
    BY <1>5, <2>4 DEF b, h, p, y
<1> QED
  BY <1>4, <1>5

\* fill_iovecs gives bytes of the message from where it is on.
LEMMA IovecsIs ==
  ASSUME Framed(F), so_far \in Nat, NEW ct \in Nat
  PROVE  Iovecs(ct) = <<>> \/ \E e \in so_far..F.len : Iovecs(ct) = Bytes(so_far, e)
<1> DEFINE ps == Pieces
           n == Len(ps)
           sent == {i \in DOMAIN ps : ps[i][2] + ps[i][3] <= so_far}
           k == Cardinality(sent)
           left == SubSeq(ps, k + 1, n)
           vecs == First(ct, left)
           v == vecs[Len(vecs)]
<1>1. IsSeq(ps, n) /\ \A i \in 1..n : ps[i][2] + ps[i][3] \in 0..F.len
  <2>1. CASE OneBuffer
    <3>1. ps = <<<<"buffer", 0, F.len>>>> /\ F.len \in Nat
      BY <2>1 DEF Pieces, Framed
    <3> HIDE DEF ps
    <3> QED
      BY <3>1 DEF IsSeq
  <2>2. CASE ~OneBuffer
    <3>1. ps = F.fields
      BY <2>2 DEF Pieces
    <3>2. /\ Len(F.fields) \in Nat
          /\ F.fields = [i \in 1..Len(F.fields) |-> F.fields[i]]
          /\ \A i \in 1..Len(F.fields) : F.fields[i][2] + F.fields[i][3] \in 0..F.len
      BY FieldsEnd
    <3> HIDE DEF ps
    <3> QED
      BY <3>1, <3>2 DEF IsSeq
  <2> QED
    BY <2>1, <2>2
<1>2. n \in Nat /\ DOMAIN ps = 1..n
  <2> HIDE DEF ps
  <2> QED
    BY <1>1 DEF IsSeq
<1>3. k \in 0..n
  <2>1. sent \in SUBSET (1..n)
    BY <1>2
  <2> HIDE DEF sent, ps
  <2>2. IsFiniteSet(1..n) /\ Cardinality(1..n) = IF 1 > n THEN 0 ELSE n - 1 + 1
    BY <1>2, FS_Interval
  <2>3. IsFiniteSet(sent) /\ k <= Cardinality(1..n)
    BY <2>1, <2>2, FS_Subset
  <2>4. k \in Nat
    BY <2>3, FS_CardinalityType
  <2> HIDE DEF k
  <2> QED
    BY <1>2, <2>2, <2>3, <2>4
<1> DEFINE r == n - k
<1>4. IsSeq(left, r) /\ Ends(left, ps, k, r)
  <2>1. r = n - k /\ left = SubSeq(ps, k + 1, n)
    OBVIOUS
  <2> HIDE DEF ps, n, k, r, left
  <2> QED
    BY ONLY <1>1, <1>3, <2>1, SuffixIs
<1>5. r \in Nat /\ \A i \in 1..r : k + i \in 1..n
  <2> HIDE DEF ps, n, k
  <2> QED
    BY <1>2, <1>3
<1>6. Iovecs(ct) = IF vecs = <<>> THEN <<>> ELSE Bytes(so_far, v[2] + v[3])
  BY DEF Iovecs
<1> HIDE DEF ps, n, k, left, r, sent
<1> DEFINE c == Least(ct, r)
<1>7. vecs = SubSeq(left, 1, c) /\ c \in 0..r
  BY <1>4, <1>5 DEF First, Least, IsSeq
<1> HIDE DEF c
<1>8. Len(vecs) = c /\ vecs = [i \in 1..c |-> left[i]]
  <2>1. Len(left) = r /\ Len(left) \in Nat /\ left = [i \in 1..Len(left) |-> left[i]]
      /\ c \in 0..Len(left)
    BY <1>4, <1>7 DEF IsSeq
  <2> QED
    BY <1>7, <2>1, PrefixIs
<1> HIDE DEF vecs
<1>9. CASE vecs = <<>>
  BY <1>6, <1>9
<1>10. CASE vecs # <<>>
  <2>1. c \in 1..c /\ c \in 1..r
    BY <1>7, <1>8, <1>10
  <2>2. v = left[c]
    BY <1>8, <2>1
  <2>3. v = ps[k + c] /\ k + c \in 1..n
    BY <1>4, <1>5, <2>1, <2>2 DEF Ends
  <2> HIDE DEF v
  <2> DEFINE e == v[2] + v[3]
  <2>4. e \in 0..F.len /\ F.len \in Nat
    BY <1>1, <2>3 DEF Framed
  <2>5. Iovecs(ct) = Bytes(so_far, e)
    BY <1>6, <1>10
  <2> HIDE DEF e
  <2>6. CASE so_far <= e
    BY <2>4, <2>5, <2>6
  <2>7. CASE ~(so_far <= e)
    <3>1. ~(1 <= e - so_far) /\ e - so_far \in Int
      BY <2>4, <2>7
    <3>2. 1..(e - so_far) = {}
      BY <3>1
    <3>3. Bytes(so_far, e) = <<>>
      BY <3>2 DEF Bytes
    <3> QED
      BY <2>5, <3>3
  <2> QED
    BY <2>4, <2>6, <2>7
<1> QED
  BY <1>9, <1>10

-----------------------------------------------------------------------------
(***************************************************************************)
(* The invariant.                                                          *)
(***************************************************************************)

\* The invariant: what has been sent of a message, on the wire and in the
\* write buffer, is a beginning of it, in order and without a gap.
Underway ==
  \/ link # "coded" /\ buf = <<>> /\ wire = Bytes(0, so_far)
  \/ /\ link = "coded"
     /\ \E z \in Nat, t \in 0..so_far : /\ z > 0 => t = 0
                                        /\ buf = Held(z, t, so_far)
                                        /\ wire = Bytes(0, t)

Carried ==
  /\ F = FormatOf(msg, link) /\ On(msg, link)
  /\ so_far \in 0..F.len /\ (queued <=> so_far < F.len)
  /\ Underway
  /\ want \in {-1, F.len}
  /\ got => F.len <= Len(wire)

LinkInv == Sound(msg) => Carried

\* fill_buffer gives bytes of the message from where it is on.
LEMMA FillIs ==
  ASSUME Framed(F), so_far \in 0..F.len, queued <=> so_far < F.len, NEW room \in Int
  PROVE  \E e \in so_far..F.len : Fill(room) = Bytes(so_far, e)
<1>1. F.len \in Nat /\ so_far \in Nat
  BY DEF Framed
<1>2. so_far \in so_far..F.len /\ Bytes(so_far, so_far) = <<>>
  <2>1. so_far - so_far = 0 /\ so_far \in so_far..F.len
    BY <1>1
  <2> DEFINE d == so_far - so_far
  <2>2. d = 0
    BY <2>1
  <2> HIDE DEF d
  <2>3. Bytes(so_far, so_far) = [i \in 1..d |-> so_far + i]
    BY DEF Bytes, d
  <2> QED
    BY <2>1, <2>2, <2>3
<1>3. CASE Fill(room) = <<>>
  BY <1>2, <1>3
<1>4. CASE Fill(room) # <<>>
  <2>1. Fill(room) = PlainFill(room)
    BY <1>4 DEF Fill, BackendFill
  <2> DEFINE k == Least(room, F.len - so_far)
             e == so_far + k
  <2>2. Fill(room) = Bytes(so_far, e)
    BY <2>1 DEF PlainFill
  <2>3. k \in Int /\ e \in Int /\ e <= F.len
    BY <1>1 DEF Least
  <2> HIDE DEF k, e
  <2>4. CASE so_far <= e
    BY <1>1, <2>2, <2>3, <2>4
  <2>5. CASE ~(so_far <= e)
    <3>1. e - so_far < 1 /\ e - so_far \in Int
      BY <1>1, <2>3, <2>5
    <3>2. 1..(e - so_far) = {}
      BY <3>1
    <3>3. Bytes(so_far, e) = <<>>
      BY <3>2 DEF Bytes
    <3> QED
      BY <1>4, <2>2, <3>3
  <2> QED
    BY <1>1, <2>3, <2>4, <2>5
<1> QED
  BY <1>3, <1>4

\* What the receiver says of the length.
LEMMA WantsIs ==
  ASSUME Framed(F), NEW len \in Nat, NEW w \in Wants(len)
  PROVE  w \in {-1, F.len}
<1>1. /\ F.framed = F.len /\ F.known \in Nat /\ F.needs \in Nat /\ F.needs <= F.known
  BY DEF Framed
<1>2. CASE len < F.known
  BY <1>2 DEF Wants
<1>3. CASE ~(len < F.known)
  <2>1. ~(len < F.needs)
    BY <1>1, <1>3
  <2> QED
    BY <1>1, <1>3, <2>1 DEF Wants
<1> QED
  BY <1>2, <1>3

\* The write buffer before anything of the message is in it.
LEMMA AheadIs ==
  ASSUME NEW l, NEW b \in Ahead(l)
  PROVE  \/ l # "coded" /\ b = <<>>
         \/ l = "coded" /\ \E z \in Nat : b = Held(z, 0, 0)
<1>1. CASE l # "coded"
  BY <1>1 DEF Ahead
<1>2. CASE l = "coded"
  <2>1. PICK z \in Fronts : b = [i \in 1..z |-> 0]
    BY <1>2 DEF Ahead
  <2>2. z \in Nat /\ z + (0 - 0) = z
    BY LinksAssumption
  <2>3. Held(z, 0, 0) = [i \in 1..z |-> IF i <= z THEN 0 ELSE 0 + (i - z)]
    BY <2>2 DEF Held
  <2>4. [i \in 1..z |-> IF i <= z THEN 0 ELSE 0 + (i - z)] = [i \in 1..z |-> 0]
    BY <2>2
  <2> QED
    BY <1>2, <2>1, <2>2, <2>3, <2>4
<1> QED
  BY <1>1, <1>2

\* Nothing has been sent.
LEMMA NoBytes == Bytes(0, 0) = <<>> /\ Len(<<>>) = 0
<1>1. 0 - 0 = 0 /\ 1..0 = {}
  OBVIOUS
<1>2. Bytes(0, 0) = [i \in 1..0 |-> 0 + i]
  BY <1>1 DEF Bytes
<1> QED
  BY <1>1, <1>2

\* A message about to be sent.
LEMMA StartIs ==
  ASSUME NEW l, NEW b \in Ahead(l)
  PROVE  \/ l # "coded" /\ b = <<>>
         \/ /\ l = "coded"
            /\ \E z \in Nat, t \in 0..0 : (z > 0 => t = 0) /\ b = Held(z, t, 0) /\ <<>> = Bytes(0, t)
<1>1. 0 \in 0..0
  OBVIOUS
<1> QED
  BY <1>1, AheadIs, NoBytes

\* At the start nothing has gone wrong yet.
LEMMA InitCarried == Init => LinkInv
<1> SUFFICES ASSUME Init, Sound(msg)  PROVE Carried
  BY DEF LinkInv
<1>1. On(msg, link) /\ F = FormatOf(msg, link)
  BY FirstIsOn DEF Init
<1>2. F.len \in Nat /\ F.len > 0
  BY <1>1, FormatOfLaid DEF Laid, Framed
<1>3. so_far \in 0..F.len /\ (queued <=> so_far < F.len)
  BY <1>2 DEF Init
<1>4. Underway
  BY StartIs, NoBytes DEF Init, Underway
<1> QED
  BY <1>1, <1>3, <1>4 DEF Init, Carried

\* The message under way is framed, and at a place in it.
LEMMA CarriedIsFramed ==
  ASSUME Sound(msg), Carried
  PROVE  Framed(F) /\ F.len \in Nat /\ so_far \in Nat /\ so_far <= F.len
<1>1. Laid(F)
  BY FormatOfLaid DEF Carried
<1> QED
  BY <1>1 DEF Laid, Framed, Carried

\* writev() takes some of what fill_iovecs gave it.
LEMMA WriteCarries ==
  ASSUME Sound(msg), Carried, NEW ct \in IovCts, NEW cut \in Cuts, Write(ct, cut),
         ~got, UNCHANGED <<msg, seen, want, got>>
  PROVE  Carried'
<1>1. Framed(F) /\ F.len \in Nat /\ so_far \in Nat /\ so_far <= F.len
  BY CarriedIsFramed
<1>2. ct \in Nat /\ cut \in Nat
  BY LinksAssumption
<1> DEFINE took == First(cut, Iovecs(ct))
<1>3. link # "coded" /\ queued /\ took # <<>> /\ wire' = wire \o took /\ so_far' = so_far + Len(took)
      /\ queued' = (so_far + Len(took) < F.len) /\ buf' = buf /\ link' = link /\ F' = F /\ msg' = msg
      /\ want' = want /\ got' = got
  BY DEF Write
<1>4. PICK e \in so_far..F.len : Iovecs(ct) = Bytes(so_far, e)
  <2>1. CASE Iovecs(ct) = <<>>
    <3>1. Len(Iovecs(ct)) = 0 /\ Least(cut, 0) = 0
      BY <1>2, <2>1 DEF Least
    <3>2. took = SubSeq(<<>>, 1, 0)
      BY <2>1, <3>1 DEF First
    <3>3. took = <<>>
      BY <3>2, SubSeqEmpty
    <3> QED
      BY <1>3, <3>3
  <2> QED
    BY <1>1, <1>2, <2>1, IovecsIs
<1>5. PICK k \in Nat : so_far + k <= e /\ took = Bytes(so_far, so_far + k)
  <2>1. so_far \in Nat /\ e \in Nat /\ so_far <= e /\ cut \in Nat
    BY <1>1, <1>2, <1>4
  <2>2. \E k \in Nat : so_far + k <= e /\ First(cut, Bytes(so_far, e)) = Bytes(so_far,
      so_far + k)
    BY ONLY <2>1, FirstBytes
  <2> QED
    BY <1>4, <2>2
<1> HIDE DEF took
<1> DEFINE s == so_far + k
<1>6. s \in Nat /\ so_far <= s /\ s - so_far = k /\ s <= F.len /\ 0 <= so_far
  BY <1>1, <1>4, <1>5
<1>7. Len(took) = k
  BY <1>1, <1>5, <1>6, BytesIs
<1>8. so_far' = s /\ (queued' <=> s < F.len)
  BY <1>3, <1>7
<1>9. wire = Bytes(0, so_far) /\ buf = <<>>
  BY <1>3 DEF Carried, Underway
<1>10. wire' = Bytes(0, s)
  <2>1. took = Bytes(so_far, s)
    BY <1>5
  <2> HIDE DEF s
  <2>2. 0 \in Nat /\ so_far \in Nat /\ s \in Nat /\ 0 <= so_far /\ so_far <= s
    BY <1>1, <1>6
  <2>3. Bytes(0, so_far) \o Bytes(so_far, s) = Bytes(0, s)
    BY ONLY <2>2, BytesCat
  <2> QED
    BY <1>3, <1>9, <2>1, <2>3
<1> HIDE DEF s
<1>11. Underway'
  BY <1>3, <1>8, <1>9, <1>10 DEF Underway
<1>12. s \in 0..F.len
  BY <1>1, <1>6
<1>13. F' = FormatOf(msg', link') /\ On(msg', link')
  BY <1>3 DEF Carried
<1> QED
  BY <1>3, <1>8, <1>11, <1>12, <1>13 DEF Carried

\* A client sends.
LEMMA SendCarries ==
  ASSUME Sound(msg), Carried, NEW cut \in Cuts, Send(cut), ~got,
         UNCHANGED <<msg, seen, want, got>>
  PROVE  Carried'
<1>1. Framed(F) /\ F.len \in Nat /\ so_far \in Nat /\ so_far <= F.len
  BY CarriedIsFramed
<1>2. cut \in Nat
  BY LinksAssumption
<1> DEFINE s == Least(so_far + cut, F.len)
<1>3. link # "coded" /\ wire' = wire \o Bytes(so_far, s) /\ so_far' = s
      /\ queued' = (so_far + cut < F.len) /\ buf' = buf /\ link' = link /\ F' = F /\ msg' = msg
      /\ want' = want /\ got' = got
  BY DEF Send
<1>4. s \in Nat /\ so_far <= s /\ s <= F.len /\ 0 <= so_far
          /\ (so_far + cut < F.len <=> s < F.len)
  BY <1>1, <1>2 DEF Least
<1>5. wire = Bytes(0, so_far) /\ buf = <<>>
  BY <1>3 DEF Carried, Underway
<1> HIDE DEF s
<1>6. wire' = Bytes(0, s)
  <2>1. 0 \in Nat /\ so_far \in Nat /\ s \in Nat /\ 0 <= so_far /\ so_far <= s
    BY <1>1, <1>4
  <2>2. Bytes(0, so_far) \o Bytes(so_far, s) = Bytes(0, s)
    BY ONLY <2>1, BytesCat
  <2> QED
    BY <1>3, <1>5, <2>2
<1>7. Underway'
  BY <1>3, <1>5, <1>6 DEF Underway
<1>8. s \in 0..F.len /\ (queued' <=> s < F.len)
  <2>1. queued' <=> so_far + cut < F.len
    BY <1>3
  <2> QED
    BY <1>1, <1>4, <2>1
<1>9. F' = FormatOf(msg', link') /\ On(msg', link')
  BY <1>3 DEF Carried
<1> QED
  BY <1>3, <1>7, <1>8, <1>9 DEF Carried

\* The write buffer is filled up, and written from.
LEMMA FillAndWriteCarries ==
  ASSUME Sound(msg), Carried, NEW cut \in Cuts, FillAndWrite(cut), ~got,
         UNCHANGED <<msg, seen, want, got>>
  PROVE  Carried'
<1>1. Framed(F) /\ F.len \in Nat /\ so_far \in Nat /\ so_far <= F.len
  BY CarriedIsFramed
<1>2. cut \in Nat
  BY LinksAssumption
<1> DEFINE filled == Fill(WBUF - Len(buf))
           held == buf \o filled
           took == First(cut, held)
<1>3. /\ link = "coded" /\ so_far' = so_far + Len(filled)
      /\ queued' = (queued /\ so_far + Len(filled) < F.len)
      /\ buf' = SubSeq(held, Len(took) + 1, Len(held)) /\ wire' = wire \o Own(took)
      /\ link' = link /\ F' = F /\ msg' = msg /\ want' = want /\ got' = got
  BY DEF FillAndWrite
<1>4. PICK z \in Nat, t \in 0..so_far : (z > 0 => t = 0) /\ buf = Held(z, t, so_far)
          /\ wire = Bytes(0, t)
  BY <1>3 DEF Carried, Underway
<1>5. t \in Nat /\ t <= so_far
  BY <1>1
<1>6. PICK e \in so_far..F.len : filled = Bytes(so_far, e)
  <2>1. Len(buf) \in Nat
    BY <1>1, <1>4, <1>5, HeldIs
  <2> DEFINE room == WBUF - Len(buf)
  <2>2. room \in Int
    BY <2>1, LinksAssumption
  <2> HIDE DEF room
  <2>3. \E e \in so_far..F.len : Fill(room) = Bytes(so_far, e)
    BY <1>1, <2>2, FillIs DEF Carried
  <2> QED
    BY <2>3 DEF room
<1>7. e \in Nat /\ so_far <= e /\ e <= F.len /\ t <= e
  BY <1>1, <1>5, <1>6
<1>8. held = Held(z, t, e)
  <2> HIDE DEF filled
  <2>1. z \in Nat /\ t \in Nat /\ so_far \in Nat /\ e \in Nat /\ t <= so_far /\ so_far <= e
    BY <1>1, <1>5, <1>7
  <2>2. Held(z, t, so_far) \o Bytes(so_far, e) = Held(z, t, e)
    BY ONLY <2>1, HeldMore
  <2> QED
    BY <1>4, <1>6, <2>2
<1>9. so_far' = e /\ (queued' <=> e < F.len)
  <2>1. Len(filled) = e - so_far
    <3> HIDE DEF filled
    <3> QED
      BY <1>1, <1>6, <1>7, BytesIs
  <2>2. queued <=> so_far < F.len
    BY DEF Carried
  <2> DEFINE y == Len(filled)
  <2>3. y = e - so_far /\ so_far' = so_far + y /\ (queued' <=> queued /\ so_far + y < F.len)
    BY <1>3, <2>1
  <2> HIDE DEF y
  <2> QED
    BY <1>1, <1>7, <2>2, <2>3
<1> HIDE DEF filled
<1>10. PICK c \in 0..(z + (e - t)) : Len(took) = c /\ took
           = [i \in 1..c |-> IF i <= z THEN 0 ELSE t + (i - z)]
  <2>1. z \in Nat /\ t \in Nat /\ e \in Nat /\ t <= e /\ cut \in Nat
    BY <1>2, <1>5, <1>7
  <2> DEFINE p == z + (e - t)
  <2>2. p = z + (e - t)
    OBVIOUS
  <2> HIDE DEF p, held
  <2>3. AtFront(First(cut, held), z, t, p)
    BY ONLY <1>8, <2>1, <2>2, FirstHeld
  <2> QED
    BY <2>2, <2>3 DEF AtFront
<1>11. c \in Nat
  BY <1>5, <1>7
<1>12. Own(took) = IF c <= z THEN <<>> ELSE Bytes(t, t + (c - z))
  <2> HIDE DEF took
  <2> QED
    BY <1>5, <1>10, <1>11, OwnIs
<1>13. buf' = IF c <= z THEN Held(z - c, t, e) ELSE Held(0, t + (c - z), e)
  <2>1. Len(held) = z + (e - t)
    <3> HIDE DEF held
    <3> QED
      BY <1>5, <1>7, <1>8, HeldIs
  <2>2. z \in Nat /\ t \in Nat /\ e \in Nat /\ t <= e /\ (z > 0 => t = 0)
      /\ c \in 0..(z + (e - t))
    BY <1>4, <1>5, <1>7, <1>10
  <2>3. SubSeq(Held(z, t, e), c + 1, z + (e - t))
          = IF c <= z THEN Held(z - c, t, e) ELSE Held(0, t + (c - z), e)
    BY ONLY <2>2, RestIs
  <2> HIDE DEF held, took
  <2> QED
    BY <1>3, <1>8, <1>10, <2>1, <2>3
<1> HIDE DEF held, took
<1>14. Underway'
  <2>1. CASE c <= z
    <3> DEFINE y == z - c
    <3>1. y \in Nat /\ (y > 0 => t = 0) /\ t \in 0..e
      BY <1>4, <1>5, <1>7, <1>11, <2>1
    <3>2. buf' = Held(y, t, e)
      BY <1>13, <2>1
    <3>3. wire' = wire
      <4>1. wire' = wire \o <<>>
        BY <1>3, <1>12, <2>1
      <4>2. Len(<<>>) = 0 /\ <<>> = [i \in 1..0 |-> <<>>[i]]
        OBVIOUS
      <4>3. wire \in Seq(Nat)
        BY <1>4, <1>5 DEF Bytes
      <4> QED
        BY <4>1, <4>3
    <3> HIDE DEF y
    <3> QED
      BY <1>3, <1>4, <1>9, <3>1, <3>2, <3>3 DEF Underway
  <2>2. CASE ~(c <= z)
    <3> DEFINE u == t + (c - z)
    <3>1. u \in Nat /\ t <= u /\ u \in 0..e /\ 0 <= t
      BY <1>5, <1>7, <1>10, <1>11, <2>2
    <3>2. buf' = Held(0, u, e)
      BY <1>13, <2>2
    <3>3. Own(took) = Bytes(t, u)
      BY <1>12, <2>2
    <3> HIDE DEF u
    <3>4. wire' = Bytes(0, u)
      <4>1. 0 \in Nat /\ t \in Nat /\ u \in Nat /\ 0 <= t /\ t <= u
        BY <1>5, <3>1
      <4>2. Bytes(0, t) \o Bytes(t, u) = Bytes(0, u)
        BY ONLY <4>1, BytesCat
      <4> QED
        BY <1>3, <1>4, <3>3, <4>2
    <3> QED
      BY <1>3, <1>9, <3>1, <3>2, <3>4 DEF Underway
  <2> QED
    BY <2>1, <2>2
<1>15. e \in 0..F.len
  BY <1>1, <1>7
<1>16. F' = FormatOf(msg', link') /\ On(msg', link')
  BY <1>3 DEF Carried
<1> QED
  BY <1>3, <1>9, <1>14, <1>15, <1>16 DEF Carried

\* The bytes that have come.
LEMMA WireIs ==
  ASSUME Sound(msg), Carried
  PROVE  \E t \in 0..F.len : wire = Bytes(0, t) /\ Len(wire) = t
<1>1. F.len \in Nat /\ so_far \in Nat /\ so_far <= F.len
  BY CarriedIsFramed
<1>2. PICK t \in 0..so_far : wire = Bytes(0, t)
  BY <1>1 DEF Carried, Underway
<1>3. 0 \in Nat /\ t \in Nat /\ 0 <= t /\ t - 0 = t /\ t \in 0..F.len
  BY <1>1
<1>4. Len(Bytes(0, t)) = t - 0
  BY <1>3, BytesIs
<1> QED
  BY <1>2, <1>3, <1>4

\* The receiver asks make_if_enough.
LEMMA ReceiveCarries ==
  ASSUME Sound(msg), Carried, Receive
  PROVE  Carried'
<1>1. Framed(F) /\ F.len \in Nat
  BY CarriedIsFramed
<1>2. PICK t \in 0..F.len : wire = Bytes(0, t) /\ Len(wire) = t
  BY WireIs
<1>3. PICK w \in Wants(Len(wire)) : want' = w /\ got' = (w # -1 /\ w <= Len(wire))
  BY DEF Receive
<1>4. Len(wire) \in Nat
  BY <1>1, <1>2
<1>5. w \in {-1, F.len}
  BY <1>1, <1>3, <1>4, WantsIs
<1>6. UNCHANGED <<msg, link, F, queued, so_far, buf, wire>>
  BY DEF Receive
<1>7. got' => F'.len <= Len(wire')
  BY <1>3, <1>5, <1>6
<1>8. Underway'
  BY <1>6 DEF Carried, Underway
<1> QED
  BY <1>3, <1>5, <1>6, <1>7, <1>8 DEF Carried

\* The auth server sends the message on.
LEMMA RelayCarries ==
  ASSUME Sound(msg), Carried, Relay
  PROVE  Carried'
<1>1. /\ NextLink(msg, link) # "none" /\ link' = NextLink(msg, link) /\ F' = FormatOf(msg, link')
      /\ queued' = TRUE /\ so_far' = 0 /\ buf' \in Ahead(link') /\ wire' = <<>> /\ want' = -1
      /\ got' = FALSE /\ msg' = msg
  BY DEF Relay
<1>2. On(msg, link')
  BY <1>1, NextIsOn DEF Carried
<1>3. F'.len \in Nat /\ F'.len > 0
  <2>1. Laid(FormatOf(msg, link'))
    BY <1>2, FormatOfLaid
  <2> QED
    BY <1>1, <2>1 DEF Laid, Framed
<1>4. so_far' \in 0..F'.len /\ (queued' <=> so_far' < F'.len)
  BY <1>1, <1>3
<1>5. Underway'
  BY <1>1, StartIs, NoBytes DEF Underway
<1> QED
  BY <1>1, <1>2, <1>4, <1>5 DEF Carried

-----------------------------------------------------------------------------
(***************************************************************************)
(* The theorems.                                                           *)
(***************************************************************************)

\* Every step keeps what is under way a beginning of the message.
LEMMA NextCarries ==
  ASSUME LinkInv, [Next]_vars
  PROVE  LinkInv'
<1>1. msg' = msg
  BY DEF Next, Transfer, Receive, Relay, vars
<1> SUFFICES ASSUME Sound(msg), Carried  PROVE Carried'
  BY <1>1 DEF LinkInv
<1>2. CASE Transfer
  <2>1. ~got /\ UNCHANGED <<msg, seen, want, got>>
    BY <1>2 DEF Transfer
  <2>2. PICK cut \in Cuts : (\E ct \in IovCts : Write(ct,
      cut)) \/ FillAndWrite(cut) \/ Send(cut)
    BY <1>2 DEF Transfer
  <2>3. ASSUME NEW ct \in IovCts, Write(ct, cut)  PROVE Carried'
    BY <2>1, <2>3, WriteCarries
  <2>4. CASE FillAndWrite(cut)
    BY <2>1, <2>4, FillAndWriteCarries
  <2>5. CASE Send(cut)
    BY <2>1, <2>5, SendCarries
  <2> QED
    BY <2>2, <2>3, <2>4, <2>5
<1>3. CASE Receive
  BY <1>3, ReceiveCarries
<1>4. CASE Relay
  BY <1>4, RelayCarries
<1>5. CASE UNCHANGED vars
  BY <1>5 DEF vars, Carried, Underway
<1> QED
  BY <1>2, <1>3, <1>4, <1>5 DEF Next

\* What has been sent of a message is at any time a beginning of it, in order and
\* without a gap, and the receiver never has a wrong length for it: fill_iovecs,
\* fill_buffer and the writes of the select loop, over one link or two.
THEOREM MessagesAreCarried == Spec => []LinkInv
<1>1. Init => LinkInv
  BY InitCarried
<1>2. LinkInv /\ [Next]_vars => LinkInv'
  BY NextCarries
<1> QED
  BY <1>1, <1>2, PTL DEF Spec

\* So what the receiver takes for the message is the message.
LEMMA CarriedArrives ==
  ASSUME Sound(msg), Carried
  PROVE  ArrivesAsSent
<1> SUFFICES ASSUME got
             PROVE  /\ wire = Bytes(0, F.len)
                    /\ F.framed = F.len
                    /\ LET f == F.fields IN f[Len(f)][2] + f[Len(f)][3] = F.len
                    /\ \A r \in Range(F.reads) : <<r[2], r[3]>> \in Sent(r[1])
  BY DEF ArrivesAsSent
<1>1. Framed(F) /\ F.len \in Nat
  BY CarriedIsFramed
<1>2. wire = Bytes(0, F.len)
  <2>1. PICK t \in 0..F.len : wire = Bytes(0, t) /\ Len(wire) = t
    BY WireIs
  <2>2. F.len <= Len(wire)
    BY DEF Carried
  <2>3. t = F.len
    BY <1>1, <2>1, <2>2
  <2> QED
    BY <2>1, <2>3
<1>3. F.framed = F.len
  BY <1>1 DEF Framed
<1>4. F.fields[Len(F.fields)][2] + F.fields[Len(F.fields)][3] = F.len
  BY <1>1, FieldsEnd
<1>5. ASSUME NEW r \in Range(F.reads)
      PROVE  <<r[2], r[3]>> \in Sent(r[1])
  <2>1. Laid(F)
    BY FormatOfLaid DEF Carried
  <2>2. <<r[2], r[3]>> \in IF r[1] = "whole" THEN {<<HEADER, F.len - HEADER>>}
                          ELSE {<<x[2], x[3]>> : x \in {g \in Range(F.fields) : g[1]
                              = r[1]}}
    BY <2>1 DEF Laid, Found
  <2> QED
    BY <2>2 DEF Sent
<1> QED
  BY <1>2, <1>3, <1>4, <1>5

\* Whatever make_if_enough makes is what was sent: all its bytes, with nothing in it
\* that is not of a field, and every field read where the sender wrote it, for every
\* class of message and any number of characters, bytes and entries that fit.
THEOREM MessagesArrive == Spec => [](Sound(msg) => ArrivesAsSent)
<1>1. LinkInv => (Sound(msg) => ArrivesAsSent)
  BY CarriedArrives DEF LinkInv
<1> QED
  BY <1>1, MessagesAreCarried, PTL

\* make_if_enough names the length of a message or says that it does not know it,
\* on any beginning of it: never another.
THEOREM LengthsAreKnown == Spec => [](Sound(msg) => LengthIsKnownOrNot)
<1>1. LinkInv => (Sound(msg) => LengthIsKnownOrNot)
  BY DEF LinkInv, Carried, LengthIsKnownOrNot
<1> QED
  BY <1>1, MessagesAreCarried, PTL

=============================================================================
