------------------------------- MODULE WinProofs -------------------------------
(***************************************************************************)
(* Theorems about the Windows layer: the lists, for any number of heads    *)
(* and entries, memory for DMA, for any size of a page and buffers of any  *)
(* alignment and size, work, for any number of works and callers, and      *)
(* strings of any characters and length.                                   *)
(***************************************************************************)
EXTENDS WinLists, WinWork, WinDma, WinStrings, FiniteSetTheorems, WellFoundedInduction, TLAPS

Link == Cell \cup {NoEntry, Poison}

(* The links F and B of the ring of h lead through the entries s. *)
Linked(F, B, h, s) ==
  IF s = <<>>
  THEN F[h] = h /\ B[h] = h
  ELSE /\ F[h] = s[1] /\ B[s[1]] = h
       /\ F[s[Len(s)]] = h /\ B[h] = s[Len(s)]
       /\ \A i \in 1 .. Len(s) - 1 : F[s[i]] = s[i + 1] /\ B[s[i + 1]] = s[i]

Distinct(s) == \A i, j \in DOMAIN s : s[i] = s[j] => i = j

(* Every ring is linked through its list, and no entry is on it twice, or on *)
(* two of them.                                                              *)
RingsInv ==
  /\ Flink \in [Cell -> Link] /\ Blink \in [Cell -> Link]
  /\ list \in [Anchor -> Seq(Entries)]
  /\ \A h \in Anchor : Distinct(list[h]) /\ Linked(Flink, Blink, h, list[h])
  /\ \A g, h \in Anchor : \A i \in DOMAIN list[g], j \in DOMAIN list[h] :
       list[g][i] = list[h][j] => g = h
  /\ ret = right

(* The ring of h, position by position. *)
LEMMA RingAt ==
  ASSUME NEW h, NEW s \in Seq(Entries)
  PROVE  /\ Ring(h, s)[1] = h /\ Ring(h, s)[Len(s) + 2] = h
         /\ \A i \in 1 .. Len(s) : Ring(h, s)[i + 1] = s[i]
<1> DEFINE S == Entries \cup {h}
<1>1. s \in Seq(S) /\ <<h>> \in Seq(S) /\ Len(<<h>>) = 1 /\ <<h>>[1] = h
  OBVIOUS
<1>2. <<h>> \o s \in Seq(S) /\ Len(<<h>> \o s) = Len(s) + 1
  BY <1>1
<1>3. (<<h>> \o s)[1] = h /\ \A i \in 1 .. Len(s) : (<<h>> \o s)[i + 1] = s[i]
  BY <1>1
<1> DEFINE r == <<h>> \o s
<1>4. r \in Seq(S) /\ Len(r) = Len(s) + 1 /\ r[1] = h /\ \A i \in 1 .. Len(s) : r[i + 1] = s[i]
  BY <1>2, <1>3
<1>5. Ring(h, s) = r \o <<h>>
  BY DEF Ring
<1> HIDE DEF r, S
<1>q. QED BY <1>1, <1>4, <1>5

(* What ListsMatch says of one ring. *)
LEMMA LinkedRing ==
  ASSUME NEW h, NEW s \in Seq(Entries), NEW F, NEW B, Linked(F, B, h, s),
         NEW i \in 1 .. Len(s) + 1
  PROVE  F[Ring(h, s)[i]] = Ring(h, s)[i + 1] /\ B[Ring(h, s)[i + 1]] = Ring(h, s)[i]
<1> DEFINE n == Ring(h, s)
<1>1. n[1] = h /\ n[Len(s) + 2] = h /\ (\A k \in 1 .. Len(s) : n[k + 1] = s[k])
  BY RingAt
<1>2. Len(s) \in Nat
  OBVIOUS
<1> HIDE DEF n
<1>3. CASE s = <<>>
  <2>1. Len(s) = 0 /\ i = 1
    BY <1>3
  <2>2. n[i] = h /\ n[i + 1] = h
    BY <1>1, <2>1
  <2>q. QED BY <1>3, <2>2 DEF Linked, n
<1>4. CASE s # <<>> /\ i = 1
  <2>1. n[2] = s[1]
    BY <1>1, <1>2, <1>4
  <2>2. F[n[1]] = n[2] /\ B[n[2]] = n[1]
    BY <1>1, <1>4, <2>1 DEF Linked
  <2>q. QED BY <1>4, <2>2 DEF n
<1>5. CASE s # <<>> /\ i = Len(s) + 1
  <2>1. n[i] = s[Len(s)] /\ n[i + 1] = h
    BY <1>1, <1>2, <1>5
  <2>q. QED BY <1>5, <2>1 DEF Linked, n
<1>6. CASE s # <<>> /\ i # 1 /\ i # Len(s) + 1
  <2>1. n[i] = s[i - 1] /\ n[i + 1] = s[i] /\ i - 1 \in 1 .. Len(s) - 1
    BY <1>1, <1>2, <1>6
  <2>2. F[s[i - 1]] = s[(i - 1) + 1] /\ B[s[(i - 1) + 1]] = s[i - 1]
    BY <1>6, <2>1 DEF Linked
  <2>q. QED BY <1>2, <2>1, <2>2 DEF n
<1>q. QED BY <1>3, <1>4, <1>5, <1>6

(* A ring that is linked is what ListsMatch says. *)
LEMMA InvMatches == RingsInv => ListsMatch
  BY LinkedRing DEF RingsInv, ListsMatch

(* A ring whose own links stay is linked as before. *)
LEMMA Untouched ==
  ASSUME NEW h, NEW s \in Seq(Entries), NEW F, NEW B, NEW F2, NEW B2, Linked(F, B, h, s),
         F2[h] = F[h], B2[h] = B[h],
         \A i \in DOMAIN s : F2[s[i]] = F[s[i]] /\ B2[s[i]] = B[s[i]]
  PROVE  Linked(F2, B2, h, s)
<1>1. CASE s = <<>>
  BY <1>1 DEF Linked
<1>2. CASE s # <<>>
  <2>1. 1 \in DOMAIN s /\ Len(s) \in DOMAIN s
    BY <1>2
  <2>2. \A i \in 1 .. Len(s) - 1 : i \in DOMAIN s /\ i + 1 \in DOMAIN s
    OBVIOUS
  <2>q. QED BY <1>2, <2>1, <2>2 DEF Linked
<1>q. QED BY <1>1, <1>2

(* A new entry at the end of a ring. *)
LEMMA LinkTail ==
  ASSUME NEW F \in [Cell -> Link], NEW B \in [Cell -> Link], NEW h \in Anchor,
         NEW s \in Seq(Entries), Distinct(s), Linked(F, B, h, s),
         NEW e \in Entries, \A i \in DOMAIN s : s[i] # e
  PROVE  Linked([F EXCEPT ![e] = h, ![B[h]] = e], [B EXCEPT ![e] = B[h], ![h] = e],
                h, Append(s, e))
<1> DEFINE F2 == [F EXCEPT ![e] = h, ![B[h]] = e]
           B2 == [B EXCEPT ![e] = B[h], ![h] = e]
           s2 == Append(s, e)
<1>1. h \in Cell /\ e \in Cell /\ h # e /\ h \notin Entries
  BY ListAssumption DEF Cell, Anchor
<1>2. /\ Len(s2) = Len(s) + 1 /\ s2 # <<>> /\ s2[Len(s) + 1] = e
      /\ \A i \in 1 .. Len(s) : s2[i] = s[i]
  OBVIOUS
<1>3. \A i \in 1 .. Len(s) : s[i] \in Entries /\ s[i] \in Cell /\ s[i] # e /\ s[i] # h
  BY <1>1 DEF Cell
<1>4. CASE s = <<>>
  <2>1. F2[h] = e /\ B2[e] = h /\ F2[e] = h /\ B2[h] = e
    BY <1>1, <1>4 DEF Linked
  <2>2. Len(s2) = 1 /\ s2[1] = e
    BY <1>2, <1>4
  <2> HIDE DEF F2, B2, s2
  <2>3. Linked(F2, B2, h, s2)
    BY <1>2, <2>1, <2>2 DEF Linked
  <2>q. QED BY <2>3 DEF F2, B2, s2
<1>5. CASE s # <<>>
  <2> DEFINE m == Len(s)
  <2>1. m \in 1 .. Len(s) /\ m \in Nat /\ B[h] = s[m]
    BY <1>5 DEF Linked
  <2>2. F2[e] = h /\ F2[s[m]] = e /\ B2[e] = s[m] /\ B2[h] = e
    BY <1>1, <1>3, <2>1
  <2>3. \A x \in Cell \ {e, s[m]} : F2[x] = F[x]
    BY <2>1
  <2>4. \A x \in Cell \ {e, h} : B2[x] = B[x]
    OBVIOUS
  <2>5. \A i \in 1 .. m - 1 : s[i] # s[m] /\ i \in 1 .. Len(s)
    BY <2>1 DEF Distinct
  <2>6. F2[h] = s2[1] /\ B2[s2[1]] = h
    <3>1. s2[1] = s[1] /\ 1 \in 1 .. Len(s) /\ h # s[m]
      BY <1>2, <1>3, <1>5, <2>1
    <3>2. F[h] = s[1] /\ B[s[1]] = h
      BY <1>5 DEF Linked
    <3> HIDE DEF F2, B2, s2, m
    <3>q. QED BY <1>1, <1>3, <2>3, <2>4, <3>1, <3>2
  <2>7. ASSUME NEW i \in 1 .. m PROVE F2[s2[i]] = s2[i + 1] /\ B2[s2[i + 1]] = s2[i]
    <3>1. CASE i = m
      BY <1>2, <2>1, <2>2, <3>1
    <3>2. CASE i # m
      <4>1. i \in 1 .. m - 1 /\ i \in 1 .. Len(s) /\ i + 1 \in 1 .. Len(s)
        BY <2>1, <3>2
      <4>2. F[s[i]] = s[i + 1] /\ B[s[i + 1]] = s[i]
        BY <1>5, <4>1 DEF Linked
      <4>3. s2[i] = s[i] /\ s2[i + 1] = s[i + 1]
        BY <1>2, <4>1
      <4> HIDE DEF F2, B2, s2, m
      <4>q. QED BY <1>3, <2>3, <2>4, <2>5, <4>1, <4>2, <4>3
    <3>q. QED BY <3>1, <3>2
  <2> HIDE DEF F2, B2, s2
  <2>8. Linked(F2, B2, h, s2)
    BY <1>2, <2>1, <2>2, <2>6, <2>7 DEF Linked
  <2>q. QED BY <2>8 DEF F2, B2, s2
<1>q. QED BY <1>4, <1>5

(* A new entry at the head of a ring. *)
LEMMA LinkHead ==
  ASSUME NEW F \in [Cell -> Link], NEW B \in [Cell -> Link], NEW h \in Anchor,
         NEW s \in Seq(Entries), Distinct(s), Linked(F, B, h, s),
         NEW e \in Entries, \A i \in DOMAIN s : s[i] # e
  PROVE  Linked([F EXCEPT ![e] = F[h], ![h] = e], [B EXCEPT ![e] = h, ![F[h]] = e],
                h, <<e>> \o s)
<1> DEFINE F2 == [F EXCEPT ![e] = F[h], ![h] = e]
           B2 == [B EXCEPT ![e] = h, ![F[h]] = e]
           s2 == <<e>> \o s
           m  == Len(s)
<1>1. h \in Cell /\ e \in Cell /\ h # e /\ h \notin Entries
  BY ListAssumption DEF Cell, Anchor
<1>2. /\ Len(s2) = m + 1 /\ s2 # <<>> /\ s2[1] = e /\ m \in Nat
      /\ \A i \in 1 .. m : s2[i + 1] = s[i]
  <2>1. <<e>> \in Seq(Entries) /\ Len(<<e>>) = 1 /\ <<e>>[1] = e
    OBVIOUS
  <2>2. \A i \in 1 .. m : s2[i + 1] = s[i]
    BY <2>1
  <2>q. QED BY <2>1, <2>2
<1>3. \A i \in 1 .. m : s[i] \in Entries /\ s[i] \in Cell /\ s[i] # e /\ s[i] # h
  BY <1>1 DEF Cell
<1>4. CASE s = <<>>
  <2>1. F2[h] = e /\ B2[e] = h /\ F2[e] = h /\ B2[h] = e
    BY <1>1, <1>4 DEF Linked
  <2>2. Len(s2) = 1 /\ s2[1] = e /\ s2 # <<>>
    <3>1. m = 0
      BY <1>4
    <3> HIDE DEF m, s2
    <3>q. QED BY <1>2, <3>1
  <2> HIDE DEF F2, B2, s2, m
  <2>3. Linked(F2, B2, h, s2)
    BY <2>1, <2>2 DEF Linked
  <2>q. QED BY <2>3 DEF F2, B2, s2
<1>5. CASE s # <<>>
  <2>1. 1 \in 1 .. m /\ m \in 1 .. m /\ F[h] = s[1] /\ B[s[1]] = h
    BY <1>5 DEF Linked
  <2>2. F2[h] = e /\ F2[e] = s[1] /\ B2[e] = h /\ B2[s[1]] = e
    BY <1>1, <1>3, <2>1
  <2>3. \A x \in Cell \ {e, h} : F2[x] = F[x]
    OBVIOUS
  <2>4. \A x \in Cell \ {e, s[1]} : B2[x] = B[x]
    BY <2>1
  <2>5. \A i \in 1 .. m - 1 : s[i + 1] # s[1] /\ i \in 1 .. m /\ i + 1 \in 1 .. m
    BY <2>1 DEF Distinct
  <2>6. F2[s2[m + 1]] = h /\ B2[h] = s2[m + 1]
    <3>1. s2[m + 1] = s[m] /\ h # s[1] /\ s[m] # e /\ s[m] # h /\ s[m] \in Cell
      BY <1>2, <1>3, <2>1
    <3>2. F[s[m]] = h /\ B[h] = s[m]
      BY <1>5 DEF Linked
    <3> HIDE DEF F2, B2, s2, m
    <3>q. QED BY <1>1, <2>3, <2>4, <3>1, <3>2
  <2>7. ASSUME NEW i \in 1 .. m PROVE F2[s2[i]] = s2[i + 1] /\ B2[s2[i + 1]] = s2[i]
    <3>1. CASE i = 1
      BY <1>2, <2>1, <2>2, <3>1
    <3>2. CASE i # 1
      <4>1. i - 1 \in 1 .. m - 1 /\ i - 1 \in 1 .. m /\ i \in 1 .. m /\ (i - 1) + 1 = i
        BY <1>2, <3>2
      <4>2. F[s[i - 1]] = s[i] /\ B[s[i]] = s[i - 1]
        BY <1>5, <4>1 DEF Linked
      <4>3. s2[i] = s[i - 1] /\ s2[i + 1] = s[i]
        BY <1>2, <4>1
      <4>4. s[i] # s[1] /\ s[i] # e /\ s[i] \in Cell /\ s[i - 1] # e /\ s[i - 1] # h /\ s[i - 1] \in Cell
        BY <1>3, <2>5, <4>1
      <4> HIDE DEF F2, B2, s2, m
      <4>q. QED BY <2>3, <2>4, <4>2, <4>3, <4>4
    <3>q. QED BY <3>1, <3>2
  <2> HIDE DEF F2, B2, s2, m
  <2>8. Linked(F2, B2, h, s2)
    BY <1>2, <2>2, <2>6, <2>7 DEF Linked
  <2>q. QED BY <2>8 DEF F2, B2, s2
<1>q. QED BY <1>4, <1>5

(* The neighbours of the k-th entry of a ring. *)
Prev(h, s, k) == IF k = 1 THEN h ELSE s[k - 1]
Following(h, s, k) == IF k = Len(s) THEN h ELSE s[k + 1]

(* The k-th entry is taken out of s, and out of the ring that leads through s. *)
Without(s, k, t) ==
  /\ t \in Seq(Entries) /\ Len(t) = Len(s) - 1
  /\ \A j \in 1 .. Len(s) - 1 : t[j] = IF j < k THEN s[j] ELSE s[j + 1]

Relinked(F, B, F2, B2, h, s, k) ==
  /\ F2[Prev(h, s, k)] = Following(h, s, k)
  /\ B2[Following(h, s, k)] = Prev(h, s, k)
  /\ \A x \in Cell \ {s[k], Prev(h, s, k)} : F2[x] = F[x]
  /\ \A x \in Cell \ {s[k], Following(h, s, k)} : B2[x] = B[x]

(* An entry and its neighbours are linked to each other. *)
LEMMA Neighbours ==
  ASSUME NEW F, NEW B, NEW h, NEW s \in Seq(Entries), Linked(F, B, h, s), NEW k \in DOMAIN s
  PROVE  /\ F[s[k]] = Following(h, s, k) /\ B[s[k]] = Prev(h, s, k)
         /\ F[Prev(h, s, k)] = s[k] /\ B[Following(h, s, k)] = s[k]
<1>1. s # <<>> /\ k \in 1 .. Len(s) /\ Len(s) \in Nat
  OBVIOUS
<1>2. F[s[k]] = Following(h, s, k) /\ B[Following(h, s, k)] = s[k]
  BY <1>1 DEF Linked, Following
<1>3. CASE k = 1
  BY <1>1, <1>2, <1>3 DEF Linked, Prev
<1>4. CASE k # 1
  <2>1. k - 1 \in 1 .. Len(s) - 1 /\ (k - 1) + 1 = k
    BY <1>1, <1>4
  <2>2. F[s[k - 1]] = s[k] /\ B[s[k]] = s[k - 1]
    BY <1>1, <2>1 DEF Linked
  <2>q. QED BY <1>2, <1>4, <2>2 DEF Prev
<1>q. QED BY <1>3, <1>4

(* The ring closes over an entry that is taken out, however it is done. *)
LEMMA LinkOut ==
  ASSUME NEW F, NEW B, NEW F2, NEW B2, NEW h \in Anchor,
         NEW s \in Seq(Entries), Distinct(s), Linked(F, B, h, s), NEW k \in DOMAIN s,
         NEW t, Without(s, k, t), Relinked(F, B, F2, B2, h, s, k)
  PROVE  Linked(F2, B2, h, t)
<1> DEFINE m == Len(s)
<1>1. m \in Nat /\ k \in 1 .. m /\ h \in Cell /\ s # <<>> /\ Len(t) = m - 1 /\ t \in Seq(Entries)
  BY DEF Cell, Anchor, Without
<1>2. \A i \in 1 .. m : s[i] \in Cell /\ s[i] # h
  BY ListAssumption DEF Cell, Anchor
<1>3. \A i, j \in 1 .. m : s[i] = s[j] => i = j
  BY DEF Distinct
<1>4. /\ F[h] = s[1] /\ B[s[1]] = h /\ F[s[m]] = h /\ B[h] = s[m]
      /\ \A i \in 1 .. m - 1 : F[s[i]] = s[i + 1] /\ B[s[i + 1]] = s[i]
  BY <1>1 DEF Linked
<1>5. \A j \in 1 .. m - 1 : t[j] = IF j < k THEN s[j] ELSE s[j + 1]
  BY DEF Without
<1>6. /\ F2[IF k = 1 THEN h ELSE s[k - 1]] = IF k = m THEN h ELSE s[k + 1]
      /\ B2[IF k = m THEN h ELSE s[k + 1]] = IF k = 1 THEN h ELSE s[k - 1]
      /\ \A x \in Cell \ {s[k], IF k = 1 THEN h ELSE s[k - 1]} : F2[x] = F[x]
      /\ \A x \in Cell \ {s[k], IF k = m THEN h ELSE s[k + 1]} : B2[x] = B[x]
  BY DEF Relinked, Prev, Following
<1> HIDE DEF m
<1>7. CASE m = 1
  <2>1. t = <<>> /\ k = 1
    BY <1>1, <1>7
  <2>q. QED BY <1>6, <1>7, <2>1 DEF Linked
<1>8. CASE m # 1
  <2>1. t # <<>> /\ m - 1 \in 1 .. m - 1 /\ 1 \in 1 .. m - 1
    BY <1>1, <1>8
  <2>2. F2[h] = t[1] /\ B2[t[1]] = h
    <3>1. CASE k = 1
      BY <1>1, <1>5, <1>6, <1>8, <2>1, <3>1
    <3>2. CASE k # 1
      <4>1. t[1] = s[1] /\ s[1] # s[k] /\ s[k] # h
        BY <1>1, <1>2, <1>3, <1>5, <2>1, <3>2
      <4>2. h # s[k - 1] /\ (k # m => s[1] # s[k + 1]) /\ s[1] # h /\ s[1] \in Cell
        BY <1>1, <1>2, <1>3, <3>2
      <4>q. QED BY <1>1, <1>4, <1>6, <3>2, <4>1, <4>2
    <3>q. QED BY <3>1, <3>2
  <2>3. F2[t[m - 1]] = h /\ B2[h] = t[m - 1]
    <3>1. CASE k = m
      BY <1>1, <1>5, <1>6, <1>8, <2>1, <3>1
    <3>2. CASE k # m
      <4>1. t[m - 1] = s[m] /\ s[m] # s[k] /\ s[k] # h
        BY <1>1, <1>2, <1>3, <1>5, <2>1, <3>2
      <4>2. h # s[k + 1] /\ (k # 1 => s[m] # s[k - 1]) /\ s[m] # h /\ s[m] \in Cell
        BY <1>1, <1>2, <1>3, <3>2
      <4>q. QED BY <1>1, <1>4, <1>6, <3>2, <4>1, <4>2
    <3>q. QED BY <3>1, <3>2
  <2>4. ASSUME NEW i \in 1 .. (m - 1) - 1 PROVE F2[t[i]] = t[i + 1] /\ B2[t[i + 1]] = t[i]
    <3>0. i \in 1 .. m - 1 /\ i + 1 \in 1 .. m - 1 /\ i \in 1 .. m /\ i + 1 \in 1 .. m /\ i + 2 \in 1 .. m
      BY <1>1
    <3>1. CASE i = k - 1
      <4>0. k \in Nat /\ m \in Nat /\ i \in Nat /\ i >= 1 /\ i + 1 <= m - 1
        BY <1>1, <3>0
      <4>1. k # 1 /\ k # m /\ i < k /\ ~(i + 1 < k) /\ i = k - 1 /\ (i + 1) + 1 = k + 1
        BY <3>1, <4>0
      <4>2. t[i] = s[i] /\ t[i + 1] = s[(i + 1) + 1]
        BY <1>5, <3>0, <4>1
      <4>q. QED BY <1>6, <4>1, <4>2
    <3>2. CASE i < k - 1
      <4>1. t[i] = s[i] /\ t[i + 1] = s[i + 1]
        BY <1>1, <1>5, <3>0, <3>2
      <4>2. /\ s[i] # s[k] /\ s[i + 1] # s[k] /\ k # 1 /\ s[i] # s[k - 1]
            /\ s[i + 1] # h /\ (k # m => s[i + 1] # s[k + 1])
            /\ s[i] \in Cell /\ s[i + 1] \in Cell
        BY <1>1, <1>2, <1>3, <3>0, <3>2
      <4>3. F[s[i]] = s[i + 1] /\ B[s[i + 1]] = s[i]
        BY <1>4, <3>0
      <4>q. QED BY <1>6, <4>1, <4>2, <4>3
    <3>3. CASE i > k - 1
      <4>1. t[i] = s[i + 1] /\ t[i + 1] = s[i + 2]
        BY <1>1, <1>5, <3>0, <3>3
      <4>2. /\ s[i + 1] # s[k] /\ s[i + 2] # s[k] /\ k # m /\ s[i + 2] # s[k + 1]
            /\ s[i + 1] # h /\ (k # 1 => s[i + 1] # s[k - 1])
            /\ s[i + 1] \in Cell /\ s[i + 2] \in Cell
        BY <1>1, <1>2, <1>3, <3>0, <3>3
      <4>3. F[s[i + 1]] = s[i + 2] /\ B[s[i + 2]] = s[i + 1]
        BY <1>1, <1>4, <3>0
      <4>q. QED BY <1>6, <4>1, <4>2, <4>3
    <3>q. QED BY <1>1, <3>0, <3>1, <3>2, <3>3
  <2>q. QED BY <1>1, <2>1, <2>2, <2>3, <2>4 DEF Linked
<1>q. QED BY <1>7, <1>8

-------------------------------------------------------------------------------
(* A call works on one ring: its links close over its new entries, and no    *)
(* cell of another ring is written.                                          *)
LEMMA OneRing ==
  ASSUME RingsInv, NEW h \in Anchor, NEW t \in Seq(Entries), list' = [list EXCEPT ![h] = t],
         Flink' \in [Cell -> Link], Blink' \in [Cell -> Link],
         Distinct(t), Linked(Flink', Blink', h, t),
         \A c \in Cell : \/ Flink'[c] = Flink[c] /\ Blink'[c] = Blink[c]
                         \/ c = h \/ On(c, h)
                         \/ c \in Entries /\ ~Listed(c),
         \A i \in DOMAIN t : On(t[i], h) \/ ~Listed(t[i]),
         ret' = right'
  PROVE  RingsInv'
<1>1. list \in [Anchor -> Seq(Entries)] /\ list' \in [Anchor -> Seq(Entries)]
  BY DEF RingsInv
<1>2. list'[h] = t /\ \A g \in Anchor \ {h} : list'[g] = list[g]
  BY <1>1
<1>3. \A g \in Anchor, i \in Nat : i \in DOMAIN list[g] => list[g][i] \in Entries /\ On(list[g][i], g)
  <2>1. ASSUME NEW g \in Anchor, NEW i \in DOMAIN list[g]
        PROVE  list[g][i] \in Entries /\ On(list[g][i], g)
    <3>1. list[g] \in Seq(Entries) /\ i \in 1 .. Len(list[g])
      BY <1>1
    <3>q. QED BY <3>1 DEF On, Contains
  <2>q. QED BY <2>1
<1>4. \A g \in Anchor \ {h} : \A c : On(c, g) => ~On(c, h)
  <2>1. ASSUME NEW g \in Anchor \ {h}, NEW c, On(c, g), On(c, h) PROVE FALSE
    <3>1. PICK i \in 1 .. Len(list[g]) : list[g][i] = c
      BY <2>1 DEF On, Contains
    <3>2. PICK j \in 1 .. Len(list[h]) : list[h][j] = c
      BY <2>1 DEF On, Contains
    <3>3. i \in DOMAIN list[g] /\ j \in DOMAIN list[h]
      BY <1>1
    <3>q. QED BY <3>1, <3>2, <3>3 DEF RingsInv
  <2>q. QED BY <2>1
<1>5. ASSUME NEW g \in Anchor PROVE Distinct(list'[g]) /\ Linked(Flink', Blink', g, list'[g])
  <2>1. CASE g = h
    BY <1>2, <2>1
  <2>2. CASE g # h
    <3>1. g \in Cell /\ g \notin Entries /\ list[g] \in Seq(Entries)
      BY <1>1, ListAssumption DEF Anchor, Cell
    <3>2. ~On(g, h)
      <4>1. list[h] \in Seq(Entries)
        BY <1>1
      <4>2. \A i \in 1 .. Len(list[h]) : list[h][i] \in Entries
        BY <4>1
      <4>q. QED BY <3>1, <4>2 DEF On, Contains
    <3>3. Flink'[g] = Flink[g] /\ Blink'[g] = Blink[g]
      BY <2>2, <3>1, <3>2
    <3>4. ASSUME NEW i \in DOMAIN list[g]
          PROVE  Flink'[list[g][i]] = Flink[list[g][i]] /\ Blink'[list[g][i]] = Blink[list[g][i]]
      <4>1. i \in Nat
        BY <3>1
      <4>2. list[g][i] \in Entries /\ On(list[g][i], g)
        BY <1>3, <4>1
      <4>3. list[g][i] \in Cell /\ ~On(list[g][i], h) /\ Listed(list[g][i]) /\ list[g][i] # h
        BY <1>4, <2>2, <4>2, ListAssumption DEF Cell, Anchor, Listed
      <4>q. QED BY <4>3
    <3>5. Distinct(list[g]) /\ Linked(Flink, Blink, g, list[g])
      BY DEF RingsInv
    <3>6. Linked(Flink', Blink', g, list[g])
      BY <3>1, <3>3, <3>4, <3>5, Untouched
    <3>q. QED BY <1>2, <2>2, <3>5, <3>6
  <2>q. QED BY <2>1, <2>2
<1>6. \A i \in DOMAIN t, g \in Anchor \ {h} : \A j \in DOMAIN list[g] : t[i] # list[g][j]
  <2>1. ASSUME NEW i \in DOMAIN t, NEW g \in Anchor \ {h}, NEW j \in DOMAIN list[g],
               t[i] = list[g][j]
        PROVE  FALSE
    <3>1. j \in Nat
      BY <1>1
    <3>2. On(t[i], g)
      BY <1>3, <2>1, <3>1
    <3>q. QED BY <1>4, <3>2 DEF Listed
  <2>q. QED BY <2>1
<1>7. ASSUME NEW g \in Anchor, NEW f \in Anchor, NEW i \in DOMAIN list'[g],
             NEW j \in DOMAIN list'[f], list'[g][i] = list'[f][j]
      PROVE  g = f
  <2>1. CASE g # h /\ f # h
    <3>1. list'[g] = list[g] /\ list'[f] = list[f]
      BY <1>2, <2>1
    <3>2. i \in DOMAIN list[g] /\ j \in DOMAIN list[f] /\ list[g][i] = list[f][j]
      BY <1>7, <3>1
    <3>q. QED BY <3>2 DEF RingsInv
  <2>2. CASE g = h /\ f # h
    BY <1>2, <1>6, <1>7, <2>2
  <2>3. CASE g # h /\ f = h
    BY <1>2, <1>6, <1>7, <2>3
  <2>q. QED BY <2>1, <2>2, <2>3
<1>q. QED BY <1>1, <1>5, <1>7 DEF RingsInv

(* What there is to know of a ring and of the cells it is linked to. *)
LEMMA RingFacts ==
  ASSUME RingsInv, NEW h \in Anchor
  PROVE  /\ list[h] \in Seq(Entries) /\ Distinct(list[h]) /\ Linked(Flink, Blink, h, list[h])
         /\ h \in Cell /\ h \notin Entries /\ h \in Link
         /\ \A i \in DOMAIN list[h] : /\ list[h][i] \in Entries /\ list[h][i] \in Cell
                                     /\ list[h][i] # h /\ On(list[h][i], h)
         /\ Flink[h] = h \/ On(Flink[h], h)
         /\ Blink[h] = h \/ On(Blink[h], h)
<1>1. list[h] \in Seq(Entries) /\ Distinct(list[h]) /\ Linked(Flink, Blink, h, list[h])
  BY DEF RingsInv
<1>2. h \in Cell /\ h \notin Entries /\ h \in Link
  BY ListAssumption DEF Cell, Anchor, Link
<1>3. \A i \in DOMAIN list[h] : /\ list[h][i] \in Entries /\ list[h][i] \in Cell
                               /\ list[h][i] # h /\ On(list[h][i], h)
  BY <1>1, <1>2 DEF On, Contains, Cell
<1>4. CASE list[h] = <<>>
  BY <1>1, <1>2, <1>3, <1>4 DEF Linked
<1>5. CASE list[h] # <<>>
  <2>1. 1 \in DOMAIN list[h] /\ Len(list[h]) \in DOMAIN list[h]
    BY <1>1, <1>5
  <2>2. Flink[h] = list[h][1] /\ Blink[h] = list[h][Len(list[h])]
    BY <1>1, <1>5 DEF Linked
  <2>3. On(Flink[h], h) /\ On(Blink[h], h)
    BY <1>3, <2>1, <2>2
  <2>q. QED BY <1>1, <1>2, <1>3, <2>3
<1>q. QED BY <1>4, <1>5

(* InsertTailList. *)
LEMMA InsertTailStep ==
  ASSUME RingsInv, NEW h \in Heads, NEW e \in Entries, InsertTailList(h, e)
  PROVE  RingsInv'
<1> DEFINE s == list[h]
           t == Append(s, e)
<1>0. h \in Anchor /\ Flink \in [Cell -> Link] /\ Blink \in [Cell -> Link] /\ ~Listed(e)
  BY DEF Anchor, RingsInv, InsertTailList
<1>1. s \in Seq(Entries) /\ Distinct(s) /\ Linked(Flink, Blink, h, s) /\ h \in Cell /\ h \in Link
  BY <1>0, RingFacts
<1>2. \A i \in DOMAIN s : s[i] # e /\ On(s[i], h)
  BY <1>0, RingFacts DEF Listed
<1>3. /\ Flink' = [Flink EXCEPT ![e] = h, ![Blink[h]] = e]
      /\ Blink' = [Blink EXCEPT ![e] = Blink[h], ![h] = e]
      /\ list' = [list EXCEPT ![h] = t] /\ ret' = right'
  BY DEF InsertTailList, Between, RingsInv
<1>4. Linked(Flink', Blink', h, t)
  BY <1>0, <1>1, <1>2, <1>3, LinkTail
<1>5. e \in Cell /\ e \in Link /\ Blink[h] \in Link
  BY <1>0, <1>1 DEF Cell, Link
<1>6. Flink' \in [Cell -> Link] /\ Blink' \in [Cell -> Link]
  BY <1>0, <1>1, <1>3, <1>5
<1>7. Len(s) \in Nat /\ DOMAIN s = 1 .. Len(s) /\ t \in Seq(Entries) /\ DOMAIN t = 1 .. Len(s) + 1
      /\ t[Len(s) + 1] = e /\ \A i \in 1 .. Len(s) : t[i] = s[i]
  BY <1>1
<1> HIDE DEF s, t
<1>8. Distinct(t)
  BY <1>1, <1>2, <1>7 DEF Distinct
<1>9. \A i \in DOMAIN t : On(t[i], h) \/ ~Listed(t[i])
  BY <1>0, <1>2, <1>7
<1>10. \A c \in Cell : \/ Flink'[c] = Flink[c] /\ Blink'[c] = Blink[c]
                       \/ c = h \/ On(c, h)
                       \/ c \in Entries /\ ~Listed(c)
  <2>1. Blink[h] = h \/ On(Blink[h], h)
    BY <1>0, RingFacts
  <2>q. QED BY <1>0, <1>3, <2>1
<1>q. QED BY <1>0, <1>3, <1>4, <1>6, <1>7, <1>8, <1>9, <1>10, OneRing

(* Insertion at the head, of a ring or by a push onto an interlocked list. *)
LEMMA InsertHeadStep ==
  ASSUME RingsInv, NEW h \in Anchor, NEW e \in Entries, ~Listed(e),
         Between(e, h, Flink[h]), list' = [list EXCEPT ![h] = <<e>> \o @], ret' = right'
  PROVE  RingsInv'
<1> DEFINE s == list[h]
           t == <<e>> \o s
<1>0. Flink \in [Cell -> Link] /\ Blink \in [Cell -> Link]
  BY DEF RingsInv
<1>1. s \in Seq(Entries) /\ Distinct(s) /\ Linked(Flink, Blink, h, s) /\ h \in Cell /\ h \in Link
  BY RingFacts
<1>2. \A i \in DOMAIN s : s[i] # e /\ On(s[i], h)
  BY RingFacts DEF Listed
<1>3. /\ Flink' = [Flink EXCEPT ![e] = Flink[h], ![h] = e]
      /\ Blink' = [Blink EXCEPT ![e] = h, ![Flink[h]] = e]
      /\ list' = [list EXCEPT ![h] = t]
  BY DEF Between
<1>4. Linked(Flink', Blink', h, t)
  BY <1>0, <1>1, <1>2, <1>3, LinkHead
<1>5. e \in Cell /\ e \in Link /\ Flink[h] \in Link
  BY <1>0, <1>1 DEF Cell, Link
<1>6. Flink' \in [Cell -> Link] /\ Blink' \in [Cell -> Link]
  BY <1>0, <1>1, <1>3, <1>5
<1>7. Len(s) \in Nat /\ DOMAIN s = 1 .. Len(s) /\ t \in Seq(Entries) /\ DOMAIN t = 1 .. Len(s) + 1
      /\ t[1] = e /\ \A i \in 1 .. Len(s) : t[i + 1] = s[i]
  <2>1. <<e>> \in Seq(Entries) /\ Len(<<e>>) = 1 /\ <<e>>[1] = e
    OBVIOUS
  <2>2. Len(s) \in Nat /\ DOMAIN s = 1 .. Len(s) /\ t \in Seq(Entries) /\ Len(t) = Len(s) + 1
    BY <1>1, <2>1
  <2>3. DOMAIN t = 1 .. Len(t)
    BY <2>2
  <2>4. t[1] = e /\ \A i \in 1 .. Len(s) : t[i + 1] = s[i]
    BY <1>1, <2>1
  <2>q. QED BY <2>2, <2>3, <2>4
<1> HIDE DEF s, t
<1>a. \A i \in DOMAIN t : t[i] = e \/ \E j \in DOMAIN s : i = j + 1 /\ t[i] = s[j]
  <2>1. ASSUME NEW i \in DOMAIN t, i # 1 PROVE i - 1 \in DOMAIN s /\ i = (i - 1) + 1
    BY <1>7, <2>1
  <2>q. QED BY <1>7, <2>1
<1>8. Distinct(t)
  <2>1. ASSUME NEW i \in DOMAIN t, NEW j \in DOMAIN t, t[i] = t[j] PROVE i = j
    <3>1. CASE i = 1 \/ j = 1
      <4>1. \A k \in DOMAIN t : k = 1 \/ (k - 1 \in DOMAIN s /\ t[k] = s[k - 1])
        <5>1. ASSUME NEW k \in DOMAIN t, k # 1 PROVE k - 1 \in DOMAIN s /\ t[k] = s[k - 1]
          <6>1. k - 1 \in 1 .. Len(s) /\ k = (k - 1) + 1
            BY <1>7, <5>1
          <6>q. QED BY <1>7, <6>1
        <5>q. QED BY <5>1
      <4>q. QED BY <1>2, <1>7, <2>1, <3>1, <4>1
    <3>2. CASE i # 1 /\ j # 1
      <4>1. i - 1 \in 1 .. Len(s) /\ j - 1 \in 1 .. Len(s) /\ i = (i - 1) + 1 /\ j = (j - 1) + 1
        BY <1>7, <3>2
      <4>2. s[i - 1] = s[j - 1]
        BY <1>7, <2>1, <4>1
      <4>q. QED BY <1>1, <1>7, <4>1, <4>2 DEF Distinct
    <3>q. QED BY <3>1, <3>2
  <2>q. QED BY <2>1 DEF Distinct
<1>9. \A i \in DOMAIN t : On(t[i], h) \/ ~Listed(t[i])
  BY <1>2, <1>a
<1>10. \A c \in Cell : \/ Flink'[c] = Flink[c] /\ Blink'[c] = Blink[c]
                       \/ c = h \/ On(c, h)
                       \/ c \in Entries /\ ~Listed(c)
  <2>1. Flink[h] = h \/ On(Flink[h], h)
    BY RingFacts
  <2>q. QED BY <1>0, <1>3, <2>1
<1>q. QED BY <1>3, <1>4, <1>6, <1>7, <1>8, <1>9, <1>10, OneRing

(* Taking the k-th entry off a ring: its neighbours are linked to each other *)
(* and at most its own links change besides.                                 *)
LEMMA TakeOff ==
  ASSUME RingsInv, NEW h \in Anchor, NEW k \in DOMAIN list[h], NEW t,
         Without(list[h], k, t), list' = [list EXCEPT ![h] = t],
         Flink' \in [Cell -> Link], Blink' \in [Cell -> Link],
         Relinked(Flink, Blink, Flink', Blink', h, list[h], k),
         ret' = right'
  PROVE  RingsInv'
<1> DEFINE s == list[h]
<1>1. s \in Seq(Entries) /\ Distinct(s) /\ Linked(Flink, Blink, h, s)
  BY RingFacts
<1>2. Linked(Flink', Blink', h, t)
  BY <1>1, LinkOut
<1>3. \A i \in DOMAIN s : On(s[i], h)
  BY RingFacts
<1>4. /\ k \in 1 .. Len(s) /\ Len(s) \in Nat
      /\ DOMAIN s = 1 .. Len(s) /\ DOMAIN t = 1 .. Len(s) - 1
      /\ t \in Seq(Entries)
      /\ \A j \in 1 .. Len(s) - 1 : t[j] = IF j < k THEN s[j] ELSE s[j + 1]
  <2>1. Len(s) \in Nat /\ DOMAIN s = 1 .. Len(s) /\ k \in 1 .. Len(s)
    BY <1>1
  <2>2. t \in Seq(Entries) /\ Len(t) = Len(s) - 1
    BY DEF Without
  <2>3. DOMAIN t = 1 .. Len(s) - 1
    BY <2>1, <2>2
  <2>4. \A j \in 1 .. Len(s) - 1 : t[j] = IF j < k THEN s[j] ELSE s[j + 1]
    BY DEF Without
  <2>q. QED BY <2>1, <2>2, <2>3, <2>4
<1>5. /\ Prev(h, s, k) = h \/ On(Prev(h, s, k), h)
      /\ Following(h, s, k) = h \/ On(Following(h, s, k), h)
  <2>1. k # 1 => k - 1 \in DOMAIN s
    BY <1>4
  <2>2. k # Len(s) => k + 1 \in DOMAIN s
    BY <1>4
  <2>q. QED BY <1>3, <2>1, <2>2 DEF Prev, Following
<1>6. On(s[k], h)
  BY <1>3
<1>7. \A c \in Cell : \/ Flink'[c] = Flink[c] /\ Blink'[c] = Blink[c]
                      \/ c = h \/ On(c, h)
                      \/ c \in Entries /\ ~Listed(c)
  BY <1>5, <1>6 DEF Relinked
<1> HIDE DEF s
<1>8. \A i \in DOMAIN t : On(t[i], h)
  <2>1. \A i \in DOMAIN t : i \in DOMAIN s /\ i + 1 \in DOMAIN s
    BY <1>4
  <2>q. QED BY <1>3, <1>4, <2>1
<1>9. Distinct(t)
  <2>1. ASSUME NEW i \in DOMAIN t, NEW j \in DOMAIN t, t[i] = t[j] PROVE i = j
    <3>1. /\ i \in DOMAIN s /\ i + 1 \in DOMAIN s /\ i \in Nat
          /\ j \in DOMAIN s /\ j + 1 \in DOMAIN s /\ j \in Nat
      BY <1>4
    <3>2. /\ t[i] = IF i < k THEN s[i] ELSE s[i + 1]
          /\ t[j] = IF j < k THEN s[j] ELSE s[j + 1]
      BY <1>4
    <3>3. \A x, y \in DOMAIN s : s[x] = s[y] => x = y
      BY <1>1 DEF Distinct
    <3> DEFINE x == IF i < k THEN i ELSE i + 1
               y == IF j < k THEN j ELSE j + 1
    <3>4. s[x] = s[y] /\ x \in DOMAIN s /\ y \in DOMAIN s
      BY <2>1, <3>1, <3>2
    <3>5. x = y
      BY <3>3, <3>4
    <3>6. k \in Nat
      BY <1>4
    <3>q. QED BY <3>1, <3>5, <3>6
  <2>q. QED BY <2>1 DEF Distinct
<1>q. QED BY <1>2, <1>4, <1>7, <1>8, <1>9, OneRing

(* RemoveAt, Tail and Front take one entry out and keep the order.           *)
LEMMA RemoveAtIs ==
  ASSUME NEW s \in Seq(Entries), NEW k \in DOMAIN s
  PROVE  Without(s, k, RemoveAt(s, k))
<1> DEFINE a == SubSeq(s, 1, k - 1)
           b == SubSeq(s, k + 1, Len(s))
<1>1. k \in 1 .. Len(s) /\ Len(s) \in Nat
  OBVIOUS
<1>2. a \in Seq(Entries) /\ Len(a) = k - 1 /\ \A j \in 1 .. k - 1 : a[j] = s[j]
  BY <1>1
<1>3. b \in Seq(Entries) /\ Len(b) = Len(s) - k /\ \A j \in 1 .. Len(s) - k : b[j] = s[j + k]
  BY <1>1
<1>4. RemoveAt(s, k) = a \o b
  BY DEF RemoveAt
<1> HIDE DEF a, b
<1>5. a \o b \in Seq(Entries) /\ Len(a \o b) = Len(s) - 1
  BY <1>1, <1>2, <1>3
<1>6. ASSUME NEW j \in 1 .. Len(s) - 1
      PROVE  (a \o b)[j] = IF j < k THEN s[j] ELSE s[j + 1]
  <2>1. (a \o b)[j] = IF j <= Len(a) THEN a[j] ELSE b[j - Len(a)]
    <3>1. j \in 1 .. Len(a) + Len(b)
      BY <1>1, <1>2, <1>3
    <3>q. QED BY <1>2, <1>3, <3>1
  <2>2. CASE j < k
    BY <1>1, <1>2, <2>1, <2>2
  <2>3. CASE ~(j < k)
    <3>1. /\ j - (k - 1) \in 1 .. Len(s) - k /\ (j - (k - 1)) + k = j + 1
          /\ ~(j <= k - 1)
      BY <1>1, <2>3
    <3>2. (a \o b)[j] = b[j - (k - 1)]
      BY <1>2, <2>1, <3>1
    <3>q. QED BY <1>3, <2>3, <3>1, <3>2
  <2>q. QED BY <2>2, <2>3
<1>q. QED BY <1>4, <1>5, <1>6 DEF Without

(* Tail takes out the first entry. *)
LEMMA TailIs ==
  ASSUME NEW s \in Seq(Entries), s # <<>>
  PROVE  1 \in DOMAIN s /\ Without(s, 1, Tail(s)) /\ Head(s) = s[1]
<1>1. 1 \in DOMAIN s /\ Tail(s) \in Seq(Entries) /\ Len(Tail(s)) = Len(s) - 1 /\ Head(s) = s[1]
  OBVIOUS
<1>2. \A j \in 1 .. Len(s) - 1 : Tail(s)[j] = s[j + 1]
  OBVIOUS
<1>q. QED BY <1>1, <1>2 DEF Without

(* Front takes out the last entry. *)
LEMMA FrontIs ==
  ASSUME NEW s \in Seq(Entries), s # <<>>
  PROVE  Len(s) \in DOMAIN s /\ Without(s, Len(s), Front(s)) /\ Last(s) = s[Len(s)]
<1> DEFINE m == Len(s)
<1>1. m \in 1 .. m /\ m \in Nat /\ DOMAIN s = 1 .. m /\ Front(s) = SubSeq(s, 1, m - 1)
  BY DEF Front
<1>2. SubSeq(s, 1, m - 1) \in Seq(Entries) /\ Len(SubSeq(s, 1, m - 1)) = m - 1
  BY <1>1
<1>3. \A j \in 1 .. m - 1 : SubSeq(s, 1, m - 1)[j] = s[j]
  BY <1>1
<1>q. QED BY <1>1, <1>2, <1>3 DEF Without, Last

(* The neighbours are not the entry itself, and are one cell only if that is *)
(* the head: when the entry is alone.                                        *)
LEMMA NeighbourFacts ==
  ASSUME RingsInv, NEW h \in Anchor, NEW k \in DOMAIN list[h]
  PROVE  /\ Flink[list[h][k]] = Following(h, list[h], k)
         /\ Blink[list[h][k]] = Prev(h, list[h], k)
         /\ Following(h, list[h], k) # list[h][k] /\ Prev(h, list[h], k) # list[h][k]
         /\ Following(h, list[h], k) \in Cell /\ Prev(h, list[h], k) \in Cell
         /\ Following(h, list[h], k) = Prev(h, list[h], k) <=> Len(list[h]) = 1
<1> DEFINE s == list[h]
<1>1. s \in Seq(Entries) /\ Distinct(s) /\ Linked(Flink, Blink, h, s) /\ h \in Cell
  BY RingFacts
<1>2. \A i \in DOMAIN s : s[i] # h /\ s[i] \in Cell
  BY RingFacts
<1>3. k \in 1 .. Len(s) /\ Len(s) \in Nat /\ DOMAIN s = 1 .. Len(s)
  BY <1>1
<1>4. Flink[s[k]] = Following(h, s, k) /\ Blink[s[k]] = Prev(h, s, k)
  BY <1>1, Neighbours
<1> HIDE DEF s
<1>5. /\ Following(h, s, k) # s[k] /\ Prev(h, s, k) # s[k]
      /\ Following(h, s, k) \in Cell /\ Prev(h, s, k) \in Cell
  <2>1. k # 1 => k - 1 \in DOMAIN s /\ k - 1 # k
    BY <1>3
  <2>2. k # Len(s) => k + 1 \in DOMAIN s /\ k + 1 # k
    BY <1>3
  <2>q. QED BY <1>1, <1>2, <1>3, <2>1, <2>2 DEF Prev, Following, Distinct
<1>6. Following(h, s, k) = Prev(h, s, k) <=> Len(s) = 1
  <2>1. CASE k = 1
    BY <1>2, <1>3, <2>1 DEF Prev, Following
  <2>2. CASE k # 1 /\ k = Len(s)
    <3>1. k - 1 \in DOMAIN s
      BY <1>3, <2>2
    <3>q. QED BY <1>2, <1>3, <2>2, <3>1 DEF Prev, Following
  <2>3. CASE k # 1 /\ k # Len(s)
    <3>1. k - 1 \in DOMAIN s /\ k + 1 \in DOMAIN s /\ k - 1 # k + 1 /\ Len(s) # 1
      BY <1>3, <2>3
    <3>q. QED BY <1>1, <2>3, <3>1 DEF Prev, Following, Distinct
  <2>q. QED BY <2>1, <2>2, <2>3
<1>q. QED BY <1>4, <1>5, <1>6 DEF s

(* RemoveEntryList and the kernel's list_del: the links of the entry are     *)
(* marked when it is out.                                                    *)
LEMMA UnlinkStep ==
  ASSUME RingsInv, NEW h \in Anchor, NEW k \in DOMAIN list[h], NEW mark \in {NoEntry, Poison},
         Unlinked(list[h][k], mark), NEW t, Without(list[h], k, t),
         list' = [list EXCEPT ![h] = t], ret' = right'
  PROVE  RingsInv'
<1> DEFINE e == list[h][k]
           p == Prev(h, list[h], k)
           f == Following(h, list[h], k)
<1>1. Flink[e] = f /\ Blink[e] = p /\ f # e /\ p # e /\ f \in Cell /\ p \in Cell
  BY NeighbourFacts
<1>2. Flink \in [Cell -> Link] /\ Blink \in [Cell -> Link] /\ e \in Cell
  BY RingFacts DEF RingsInv
<1>3. /\ Flink' = [Flink EXCEPT ![Blink[e]] = Flink[e], ![e] = mark]
      /\ Blink' = [Blink EXCEPT ![Flink[e]] = Blink[e], ![e] = mark]
  BY DEF Unlinked
<1> HIDE DEF e, p, f
<1>4. f \in Link /\ p \in Link /\ mark \in Link
  BY <1>1 DEF Link
<1>5. Flink' \in [Cell -> Link] /\ Blink' \in [Cell -> Link]
  BY <1>1, <1>2, <1>3, <1>4
<1>6. Flink'[p] = f /\ Blink'[f] = p
  BY <1>1, <1>2, <1>3
<1>7. /\ \A x \in Cell \ {e, p} : Flink'[x] = Flink[x]
      /\ \A x \in Cell \ {e, f} : Blink'[x] = Blink[x]
  BY <1>1, <1>2, <1>3
<1>8. Relinked(Flink, Blink, Flink', Blink', h, list[h], k)
  BY <1>6, <1>7 DEF Relinked, e, p, f
<1>q. QED BY <1>5, <1>8, TakeOff

(* RemoveEntryList tells whether the entry was alone on its ring. *)
LEMMA RemoveEntryStep ==
  ASSUME RingsInv, NEW e \in Entries, RemoveEntryList(e)
  PROVE  RingsInv'
<1>0. PICK h \in Heads : \E k \in DOMAIN list[h] :
        /\ list[h][k] = e /\ Unlinked(e, NoEntry)
        /\ list' = [list EXCEPT ![h] = RemoveAt(@, k)]
        /\ Returns(Flink[e] = Blink[e], list'[h] = <<>>)
  BY DEF RemoveEntryList
<1>1. PICK k \in DOMAIN list[h] :
        /\ list[h][k] = e /\ Unlinked(e, NoEntry)
        /\ list' = [list EXCEPT ![h] = RemoveAt(@, k)]
        /\ Returns(Flink[e] = Blink[e], list'[h] = <<>>)
  BY <1>0
<1>2. h \in Anchor
  BY DEF Anchor
<1>3. list[h] \in Seq(Entries) /\ list \in [Anchor -> Seq(Entries)]
  BY <1>2 DEF RingsInv
<1> DEFINE t == RemoveAt(list[h], k)
<1>4. Without(list[h], k, t)
  BY <1>3, RemoveAtIs
<1>5. list' = [list EXCEPT ![h] = t] /\ list'[h] = t
  BY <1>1, <1>2, <1>3
<1> HIDE DEF t
<1>6. t = <<>> <=> Len(list[h]) = 1
  <2>1. t \in Seq(Entries) /\ Len(t) = Len(list[h]) - 1 /\ Len(list[h]) \in Nat
    BY <1>3, <1>4 DEF Without
  <2>2. t = <<>> <=> Len(t) = 0
    <3>1. t = <<>> => Len(t) = 0
      OBVIOUS
    <3>2. ASSUME Len(t) = 0 PROVE t = <<>>
      BY <2>1, <3>2
    <3>q. QED BY <3>1, <3>2
  <2>q. QED BY <2>1, <2>2
<1>7. (Flink[e] = Blink[e]) <=> Len(list[h]) = 1
  BY <1>1, <1>2, NeighbourFacts
<1>8. ret' = right'
  <2>1. (Flink[e] = Blink[e]) = (list'[h] = <<>>)
    BY <1>5, <1>6, <1>7
  <2>q. QED BY <1>1, <2>1 DEF Returns
<1>q. QED BY <1>1, <1>2, <1>4, <1>5, <1>8, UnlinkStep

(* RemoveHeadList, also of a ring without entries. *)
LEMMA RemoveHeadStep ==
  ASSUME RingsInv, NEW h \in Heads, RemoveHeadList(h)
  PROVE  RingsInv'
<1> DEFINE s == list[h]
           f == Flink[h]
<1>0. h \in Anchor
  BY DEF Anchor
<1>1. /\ Flink \in [Cell -> Link] /\ Blink \in [Cell -> Link] /\ list \in [Anchor -> Seq(Entries)]
      /\ s \in Seq(Entries) /\ Linked(Flink, Blink, h, s) /\ h \in Cell
  BY <1>0, RingFacts DEF RingsInv
<1>2. /\ Flink' = [Flink EXCEPT ![h] = Flink[f]]
      /\ Blink' = [Blink EXCEPT ![Flink[f]] = h]
      /\ list' = [list EXCEPT ![h] = IF s = <<>> THEN s ELSE Tail(s)]
      /\ ret' = f /\ right' = IF s = <<>> THEN h ELSE Head(s)
  BY DEF RemoveHeadList, Returns
<1> HIDE DEF s, f
<1>3. CASE s = <<>>
  <2>1. f = h /\ Flink[f] = h /\ Blink[h] = h
    BY <1>1, <1>3 DEF Linked, f
  <2>2. Flink' = Flink /\ Blink' = Blink
    BY <1>1, <1>2, <2>1
  <2>3. list' = list
    BY <1>0, <1>1, <1>2, <1>3 DEF s
  <2>4. ret' = right'
    BY <1>2, <1>3, <2>1
  <2>q. QED BY <2>2, <2>3, <2>4 DEF RingsInv
<1>4. CASE s # <<>>
  <2>1. 1 \in DOMAIN s /\ Without(s, 1, Tail(s)) /\ Head(s) = s[1]
    BY <1>1, <1>4, TailIs
  <2>2. f = s[1] /\ Prev(h, s, 1) = h /\ h # f
    BY <1>0, <1>1, <1>4, <2>1, RingFacts DEF Linked, Prev, f, s
  <2>3. Flink[f] = Following(h, s, 1) /\ Flink[f] \in Cell /\ Flink[f] # f
    BY <1>0, <2>1, <2>2, NeighbourFacts DEF s
  <2>4. Flink' \in [Cell -> Link] /\ Blink' \in [Cell -> Link]
    BY <1>1, <1>2, <2>3 DEF Link
  <2>5. Flink'[h] = Following(h, s, 1) /\ Blink'[Flink[f]] = h
    BY <1>1, <1>2, <2>3
  <2>6. /\ \A x \in Cell \ {h} : Flink'[x] = Flink[x]
        /\ \A x \in Cell \ {Flink[f]} : Blink'[x] = Blink[x]
    BY <1>1, <1>2
  <2>7. list' = [list EXCEPT ![h] = Tail(s)] /\ ret' = right'
    BY <1>2, <1>4, <2>1, <2>2
  <2>8. Relinked(Flink, Blink, Flink', Blink', h, s, 1)
    BY <2>2, <2>3, <2>5, <2>6 DEF Relinked
  <2>q. QED BY <1>0, <2>1, <2>4, <2>7, <2>8, TakeOff DEF s
<1>q. QED BY <1>3, <1>4

(* RemoveTailList, also of a ring without entries. *)
LEMMA RemoveTailStep ==
  ASSUME RingsInv, NEW h \in Heads, RemoveTailList(h)
  PROVE  RingsInv'
<1> DEFINE s == list[h]
           l == Blink[h]
           m == Len(list[h])
<1>0. h \in Anchor
  BY DEF Anchor
<1>1. /\ Flink \in [Cell -> Link] /\ Blink \in [Cell -> Link] /\ list \in [Anchor -> Seq(Entries)]
      /\ s \in Seq(Entries) /\ Linked(Flink, Blink, h, s) /\ h \in Cell
  BY <1>0, RingFacts DEF RingsInv
<1>2. /\ Blink' = [Blink EXCEPT ![h] = Blink[l]]
      /\ Flink' = [Flink EXCEPT ![Blink[l]] = h]
      /\ list' = [list EXCEPT ![h] = IF s = <<>> THEN s ELSE Front(s)]
      /\ ret' = l /\ right' = IF s = <<>> THEN h ELSE Last(s)
  BY DEF RemoveTailList, Returns
<1> HIDE DEF s, l, m
<1>3. CASE s = <<>>
  <2>1. l = h /\ Blink[l] = h /\ Flink[h] = h
    BY <1>1, <1>3 DEF Linked, l
  <2>2. Flink' = Flink /\ Blink' = Blink
    BY <1>1, <1>2, <2>1
  <2>3. list' = list
    BY <1>0, <1>1, <1>2, <1>3 DEF s
  <2>4. ret' = right'
    BY <1>2, <1>3, <2>1
  <2>q. QED BY <2>2, <2>3, <2>4 DEF RingsInv
<1>4. CASE s # <<>>
  <2>1. m \in DOMAIN s /\ Without(s, m, Front(s)) /\ Last(s) = s[m]
    BY <1>1, <1>4, FrontIs DEF s, m
  <2>2. l = s[m] /\ Following(h, s, m) = h /\ h # l
    BY <1>0, <1>1, <1>4, <2>1, RingFacts DEF Linked, Following, l, s, m
  <2>3. Blink[l] = Prev(h, s, m) /\ Blink[l] \in Cell /\ Blink[l] # l
    BY <1>0, <2>1, <2>2, NeighbourFacts DEF s
  <2>4. Flink' \in [Cell -> Link] /\ Blink' \in [Cell -> Link]
    BY <1>1, <1>2, <2>3 DEF Link
  <2>5. Blink'[h] = Prev(h, s, m) /\ Flink'[Blink[l]] = h
    BY <1>1, <1>2, <2>3
  <2>6. /\ \A x \in Cell \ {h} : Blink'[x] = Blink[x]
        /\ \A x \in Cell \ {Blink[l]} : Flink'[x] = Flink[x]
    BY <1>1, <1>2
  <2>7. list' = [list EXCEPT ![h] = Front(s)] /\ ret' = right'
    BY <1>2, <1>4, <2>1, <2>2
  <2>8. Relinked(Flink, Blink, Flink', Blink', h, s, m)
    BY <2>2, <2>3, <2>5, <2>6 DEF Relinked
  <2>q. QED BY <1>0, <2>1, <2>4, <2>7, <2>8, TakeOff DEF s
<1>q. QED BY <1>3, <1>4

(* A pop takes the entry off that was pushed last. *)
LEMMA PopStep ==
  ASSUME RingsInv, NEW h \in SHeads, ExInterlockedPopEntrySList(h)
  PROVE  RingsInv'
<1>0. h \in Anchor /\ list[h] \in Seq(Entries) /\ Linked(Flink, Blink, h, list[h])
  BY RingFacts DEF Anchor
<1>1. CASE IsListEmpty(h)
  BY <1>1 DEF ExInterlockedPopEntrySList, Returns, RingsInv
<1>2. CASE ~IsListEmpty(h)
  <2>1. list[h] # <<>>
    BY <1>0, <1>2 DEF IsListEmpty, Linked
  <2>2. Flink[h] = list[h][1]
    BY <1>0, <2>1 DEF Linked
  <2>3. /\ Unlinked(list[h][1], Poison)
        /\ list' = [list EXCEPT ![h] = Tail(list[h])]
        /\ ret' = Flink[h] /\ right' = Head(list[h])
    BY <1>2, <2>2 DEF ExInterlockedPopEntrySList, Returns
  <2>4. 1 \in DOMAIN list[h] /\ Without(list[h], 1, Tail(list[h])) /\ Head(list[h]) = list[h][1]
    BY <1>0, <2>1, TailIs
  <2>q. QED BY <1>0, <2>2, <2>3, <2>4, UnlinkStep
<1>q. QED BY <1>1, <1>2

(* A flush empties the list at once. *)
LEMMA FlushStep ==
  ASSUME RingsInv, NEW h \in SHeads, ExInterlockedFlushSList(h)
  PROVE  RingsInv'
<1> DEFINE gone == {e \in Entries : On(e, h)}
<1>0. h \in Anchor /\ h \in Cell /\ h \in Link /\ h \notin Entries
  BY RingFacts DEF Anchor
<1>1. Flink \in [Cell -> Link] /\ Blink \in [Cell -> Link] /\ Poison \in Link
  BY DEF RingsInv, Link
<1>2. /\ Flink' = [c \in Cell |-> IF c = h THEN h ELSE IF c \in gone THEN Poison ELSE Flink[c]]
      /\ Blink' = [c \in Cell |-> IF c = h THEN h ELSE IF c \in gone THEN Poison ELSE Blink[c]]
      /\ list' = [list EXCEPT ![h] = <<>>] /\ ret' = right'
  BY DEF ExInterlockedFlushSList, Returns
<1> HIDE DEF gone
<1>3. Flink' \in [Cell -> Link] /\ Blink' \in [Cell -> Link]
  BY <1>0, <1>1, <1>2
<1>4. Flink'[h] = h /\ Blink'[h] = h
  BY <1>0, <1>2
<1>5. Linked(Flink', Blink', h, <<>>)
  BY <1>4 DEF Linked
<1>6. \A c \in Cell : (Flink'[c] = Flink[c] /\ Blink'[c] = Blink[c]) \/ c = h \/ On(c, h)
  BY <1>2 DEF gone
<1>7. <<>> \in Seq(Entries) /\ Distinct(<<>>) /\ DOMAIN <<>> = {}
  BY DEF Distinct
<1>q. QED BY <1>0, <1>2, <1>3, <1>5, <1>6, <1>7, OneRing

(* The lists are empty at first. *)
LEMMA ListStart == ListInit => RingsInv
<1> SUFFICES ASSUME ListInit PROVE RingsInv
  OBVIOUS
<1>1. Flink \in [Cell -> Link] /\ Blink \in [Cell -> Link]
  BY DEF ListInit, InitializeListHead, Link, Anchor, Cell
<1>2. ASSUME NEW h \in Anchor
      PROVE  list[h] = <<>> /\ Flink[h] = h /\ Blink[h] = h
  BY DEF ListInit, InitializeListHead, Cell
<1>3. list \in [Anchor -> Seq(Entries)]
  BY DEF ListInit
<1>4. ASSUME NEW h \in Anchor
      PROVE  Distinct(list[h]) /\ Linked(Flink, Blink, h, list[h]) /\ DOMAIN list[h] = {}
  BY <1>2 DEF Distinct, Linked
<1>q. QED BY <1>1, <1>3, <1>4 DEF RingsInv, ListInit

(* Every call keeps every ring linked. *)
LEMMA ListStep == RingsInv /\ [ListNext]_listVars => RingsInv'
<1> SUFFICES ASSUME RingsInv, [ListNext]_listVars PROVE RingsInv'
  OBVIOUS
<1>1. ASSUME NEW h \in Heads, NEW e \in Entries, InsertHeadList(h, e) PROVE RingsInv'
  BY <1>1, InsertHeadStep DEF InsertHeadList, Anchor, RingsInv
<1>2. ASSUME NEW h \in SHeads, NEW e \in Entries, ExInterlockedPushEntrySList(h, e)
      PROVE  RingsInv'
  BY <1>2, InsertHeadStep DEF ExInterlockedPushEntrySList, Returns, Anchor
<1>3. ASSUME NEW e \in Entries, RemoveCleared(e) PROVE RingsInv'
  BY <1>3 DEF RemoveCleared, Returns, RingsInv
<1>4. CASE UNCHANGED listVars
  BY <1>4 DEF listVars, RingsInv
<1>q. QED
  BY <1>1, <1>2, <1>3, <1>4, InsertTailStep, RemoveEntryStep, RemoveHeadStep, RemoveTailStep,
     PopStep, FlushStep DEF ListNext

(* The lists are what their calls say, for any number of heads and entries:  *)
(* from every head the links lead through the entries that were put on and   *)
(* not taken off, forwards and backwards, and each call returned the entry   *)
(* or the verdict on the ring that it promises.                              *)
THEOREM ListsAlwaysMatch == ListSpec => []ListsMatch
  BY ListStart, ListStep, InvMatches, PTL DEF ListSpec

-------------------------------------------------------------------------------
(* Quotient and remainder of addresses. *)
LEMMA DivModFacts ==
ASSUME NEW a \in Nat, NEW q, q = a \div PageSize, NEW r, r = a % PageSize
PROVE  q \in Nat /\ r \in Nat /\ r < PageSize /\ a = q * PageSize + r /\ q <= a
<1>1. PageSize \in Nat /\ PageSize > 0
  BY DmaAssumption
<1>2. q \in Nat /\ r \in Nat /\ r < PageSize
  BY <1>1
<1>3. a = q * PageSize + r
  BY <1>1
<1>4. q <= a
  <2>1. q * PageSize >= q /\ q * PageSize \in Nat
    BY <1>1, <1>2
  <2>2. QED BY <1>2, <1>3, <2>1
<1>5. QED BY <1>2, <1>3, <1>4

(* What is added to a multiple of the page size is the remainder. *)
LEMMA RemainderFacts ==
ASSUME NEW k \in Nat, NEW o \in Nat, o < PageSize
PROVE  (k * PageSize + o) % PageSize = o
BY DmaAssumption

(* Addresses in order are on pages in order. *)
LEMMA PageOrder ==
ASSUME NEW f \in Nat, NEW l \in Nat, NEW o \in Nat, NEW e \in Nat,
       o < PageSize, e < PageSize, f * PageSize + o <= l * PageSize + e
PROVE  f <= l /\ (f = l => o <= e)
<1>1. ASSUME f > l PROVE FALSE
  <2>1. f * PageSize >= (l + 1) * PageSize
    BY <1>1, DmaAssumption
  <2>2. (l + 1) * PageSize = l * PageSize + PageSize
    BY DmaAssumption
  <2>3. l * PageSize \in Nat /\ f * PageSize \in Nat
    BY DmaAssumption
  <2>4. QED BY <2>1, <2>2, <2>3, DmaAssumption
<1>2. f <= l
  BY <1>1
<1>3. l * PageSize \in Nat
  BY DmaAssumption
<1>4. QED BY <1>2, <1>3

(* What rgb133_get_page_info finds out about a buffer. *)
LEMMA PageFacts ==
ASSUME NEW m \in Mdl
PROVE  /\ FirstPage(m) \in Nat /\ LastPage(m) \in Nat /\ FirstPage(m) <= LastPage(m)
       /\ LastPage(m) <= MaxAddress
       /\ PageCount(m) \in Nat \ {0} /\ PageCount(m) = LastPage(m) - FirstPage(m) + 1
       /\ Offset(m) \in Nat /\ Offset(m) < PageSize
       /\ m.start = FirstPage(m) * PageSize + Offset(m)
       /\ PageTail(m) \in Nat \ {0} /\ PageTail(m) <= PageSize
       /\ m.start + m.size = LastPage(m) * PageSize
            + (IF PageCount(m) = 1 THEN Offset(m) ELSE 0) + PageTail(m)
       /\ PageCount(m) = 1 => Offset(m) + PageTail(m) <= PageSize
<1> DEFINE z == m.start + m.size - 1
           e == z % PageSize
<1>1. m.start \in Nat \ {0} /\ m.size \in Nat \ {0} /\ m.start + m.size <= MaxAddress
      /\ z \in Nat /\ m.start <= z /\ z <= MaxAddress /\ MaxAddress \in Nat
  BY DmaAssumption DEF Mdl
<1>2. /\ FirstPage(m) \in Nat /\ Offset(m) \in Nat /\ Offset(m) < PageSize
      /\ m.start = FirstPage(m) * PageSize + Offset(m)
  <2>1. m.start \in Nat
    BY <1>1
  <2>2. FirstPage(m) = m.start \div PageSize /\ Offset(m) = m.start % PageSize
    BY DEF FirstPage, Offset
  <2>3. QED BY <2>1, <2>2, DivModFacts
<1>3. /\ LastPage(m) \in Nat /\ e \in Nat /\ e < PageSize /\ LastPage(m) <= z
      /\ z = LastPage(m) * PageSize + e
  <2>1. LastPage(m) = z \div PageSize
    BY DEF LastPage
  <2>2. z \in Nat
    BY <1>1
  <2>3. e = z % PageSize
    OBVIOUS
  <2> HIDE DEF z, e
  <2>4. QED BY <2>1, <2>2, <2>3, DivModFacts
<1>4. FirstPage(m) <= LastPage(m) /\ (FirstPage(m) = LastPage(m) => Offset(m) <= e)
  BY <1>1, <1>2, <1>3, PageOrder
<1>5. PageTail(m) = IF PageCount(m) = 1 THEN 1 + e - Offset(m) ELSE 1 + e
  <2>1. PageTail(m) = IF PageCount(m) = 1 THEN (1 + e) - Offset(m) ELSE 1 + e
    BY Zenon DEF PageTail
  <2> HIDE DEF e
  <2>2. QED BY <1>2, <1>3, <2>1
<1> HIDE DEF e
<1>6. m.start + m.size = z + 1
  BY <1>1
<1> HIDE DEF z
<1>7. PageCount(m) = LastPage(m) - FirstPage(m) + 1
  BY DEF PageCount
<1>8. LastPage(m) * PageSize \in Nat
  BY <1>3, DmaAssumption
<1>9. QED BY <1>1, <1>2, <1>3, <1>4, <1>5, <1>6, <1>7, <1>8, DmaAssumption

(* A function on 1 .. n is a sequence of n elements. *)
LEMMA FunctionIsSeq ==
ASSUME NEW n \in Nat, NEW S, NEW s \in [1 .. n -> S]
PROVE  s \in Seq(S) /\ Len(s) = n
OBVIOUS

(* The elements of neighbouring pages meet, and the last one ends where the *)
(* buffer ends.                                                            *)
LEMMA RunEnds ==
ASSUME NEW m \in Mdl, NEW p \in 1 .. PageCount(m), NEW q \in 1 .. PageCount(m), p <= q
PROVE  /\ RunLength(m, p, q) \in Nat \ {0}
       /\ (FirstPage(m) + p - 1) * PageSize + SGOffset(m, p) + RunLength(m, p, q) =
            IF q = PageCount(m) THEN m.start + m.size ELSE (FirstPage(m) + q) * PageSize
<1> DEFINE n == PageCount(m)
           f == FirstPage(m)
           o == Offset(m)
           t == PageTail(m)
           P == PageSize
<1>1. /\ f \in Nat /\ n \in Nat \ {0} /\ o \in Nat /\ o < P /\ t \in Nat \ {0} /\ P \in Nat \ {0}
      /\ m.start + m.size = (f + n - 1) * P + (IF n = 1 THEN o ELSE 0) + t
  <2>1. LastPage(m) = f + n - 1
    BY PageFacts
  <2>2. QED BY <2>1, PageFacts, DmaAssumption
<1>2. ASSUME NEW i \in 1 .. n
      PROVE  /\ SGOffset(m, i) = IF i = 1 THEN o ELSE 0
             /\ SGLength(m, i) = IF i = n THEN t ELSE P - (IF i = 1 THEN o ELSE 0)
  BY DEF SGOffset, SGLength
<1>3. RunLength(m, p, q) = IF p = q THEN SGLength(m, p)
                           ELSE SGLength(m, p) + (q - p - 1) * P + SGLength(m, q)
  BY DEF RunLength
<1>4. p \in 1 .. n /\ q \in 1 .. n
  OBVIOUS
<1> HIDE DEF n, f, o, t, P
<1>5. ASSUME NEW i \in 1 .. n PROVE SGLength(m, i) \in Nat \ {0}
  BY <1>1, <1>2
<1>6. ASSUME NEW a \in Nat PROVE a * P \in Nat /\ (a + 1) * P = a * P + P
  BY <1>1
<1>7. CASE p = q
  <2>1. f + p - 1 \in Nat /\ (f + p - 1) + 1 = f + p /\ f + p - 1 + 1 = f + q
    BY <1>1, <1>4, <1>7
  <2>2. (f + p - 1) * P \in Nat /\ (f + q) * P = (f + p - 1) * P + P
    BY <2>1, <1>6
  <2>3. RunLength(m, p, q) = SGLength(m, p)
    BY <1>3, <1>7
  <2>4. RunLength(m, p, q) \in Nat \ {0}
    BY <2>3, <1>4, <1>5
  <2>5. (f + p - 1) * P + SGOffset(m, p) + RunLength(m, p, q) =
          IF q = n THEN m.start + m.size ELSE (f + q) * P
    <3>1. q = n => m.start + m.size = (f + p - 1) * P + (IF p = 1 THEN o ELSE 0) + t
      BY <1>1, <1>7
    <3>2. /\ SGOffset(m, p) = IF p = 1 THEN o ELSE 0
          /\ SGLength(m, p) = IF q = n THEN t ELSE P - SGOffset(m, p)
      BY <1>2, <1>4, <1>7
    <3>3. QED BY <1>1, <2>2, <2>3, <3>1, <3>2
  <2>6. QED BY <2>4, <2>5 DEF n, f, P
<1>8. CASE p < q
  <2> DEFINE k == q - p - 1
             a == f + p - 1
  <2>1. k \in Nat /\ a \in Nat /\ q # 1 /\ p # n /\ a + 1 + k = f + q - 1 /\ f + q - 1 \in Nat
    BY <1>1, <1>4, <1>8
  <2>2. RunLength(m, p, q) = SGLength(m, p) + k * P + SGLength(m, q)
    BY <1>3, <1>8
  <2> HIDE DEF k, a
  <2>3. (a + 1 + k) * P = a * P + P + k * P /\ a * P \in Nat /\ k * P \in Nat
    BY <1>1, <2>1
  <2>4. RunLength(m, p, q) \in Nat \ {0}
    BY <1>4, <1>5, <2>2, <2>3
  <2>5. SGOffset(m, p) + SGLength(m, p) = P /\ SGOffset(m, p) \in Nat
    BY <1>1, <1>2, <1>4, <2>1
  <2>6. SGLength(m, q) = IF q = n THEN t ELSE P
    BY <1>1, <1>2, <1>4, <2>1
  <2>7. a * P + SGOffset(m, p) + RunLength(m, p, q) = (f + q - 1) * P + SGLength(m, q)
    <3>1. (f + q - 1) * P = a * P + P + k * P
      BY <2>1, <2>3
    <3>2. SGLength(m, p) \in Nat /\ SGLength(m, q) \in Nat /\ P \in Nat
      BY <1>1, <1>4, <1>5
    <3>3. QED BY <2>2, <2>3, <2>5, <3>1, <3>2
  <2>8. (f + q) * P = (f + q - 1) * P + P /\ (f + q - 1) * P \in Nat
    <3>1. (f + q - 1) + 1 = f + q
      BY <1>1, <1>4
    <3>2. QED BY <2>1, <3>1, <1>6
  <2>9. q = n => m.start + m.size = (f + q - 1) * P + t
    BY <1>1, <2>1
  <2>10. QED BY <2>4, <2>6, <2>7, <2>8, <2>9 DEF n, f, P, a
<1>9. QED BY <1>1, <1>4, <1>7, <1>8

(* The elements made of a buffer whose pages are all locked cover the buffer, *)
(* whichever pages were merged and whatever the array held before.           *)
LEMMA SGCovers ==
ASSUME NEW m \in Mdl, NEW pages, NEW at \in DmaMapSg(m), NEW old, at # <<>>,
       \A i \in 1 .. PageCount(m) : pages[i] = FirstPage(m) + i - 1
PROVE  LET sgl == SGArray(m, pages, at, old)
       IN  Len(at) <= Len(sgl) /\ Covers(SubSeq(sgl, 1, Len(at)), m)
<1> DEFINE n == PageCount(m)
           f == FirstPage(m)
           sgl == SGArray(m, pages, at, old)
           k == Len(at)
           sub == SubSeq(sgl, 1, k)
           last(i) == IF i = k THEN n ELSE at[i + 1] - 1
<1>1. /\ f \in Nat /\ n \in Nat \ {0} /\ m.start = f * PageSize + Offset(m)
      /\ m.start \in Nat /\ Offset(m) \in Nat
  BY PageFacts DEF Mdl
<1>2. PICK l \in 1 .. n : at \in [1 .. l -> 1 .. n] /\ at[1] = 1
                         /\ \A i \in 2 .. Len(at) : at[i - 1] < at[i]
  BY DEF DmaMapSg
<1>3. k = l /\ k \in 1 .. n /\ at \in [1 .. k -> 1 .. n]
  BY <1>1, <1>2
<1>4. sgl = [i \in 1 .. n |-> sgl[i]] /\ \A i \in 1 .. k : sgl[i] = Element(m, pages, at, i)
  BY <1>1, <1>3 DEF SGArray
<1>5. Len(sgl) = n /\ sub \in Seq({sgl[i] : i \in 1 .. n}) /\ Len(sub) = k
      /\ \A i \in 1 .. k : sub[i] = sgl[i]
  <2>1. sgl \in Seq({sgl[i] : i \in 1 .. n}) /\ Len(sgl) = n
    <3> HIDE DEF n, sgl
    <3>1. sgl \in [1 .. n -> {sgl[i] : i \in 1 .. n}]
      BY <1>4
    <3>2. QED BY <1>1, <3>1, FunctionIsSeq
  <2> HIDE DEF sgl, n, k
  <2>2. QED BY <1>1, <1>3, <2>1
<1>6. ASSUME NEW i \in 1 .. k
      PROVE  /\ at[i] \in 1 .. n /\ last(i) \in 1 .. n /\ at[i] <= last(i)
             /\ i > 1 => at[i] # 1 /\ last(i - 1) = at[i] - 1 /\ last(i - 1) # n
  <2> HIDE DEF n, k
  <2>1. at[i] \in 1 .. n
    BY <1>3
  <2>2. i # k => i + 1 \in 2 .. k /\ at[i + 1] \in 1 .. n /\ at[i] < at[i + 1]
    <3>1. i # k => i + 1 \in 2 .. k /\ (i + 1) - 1 = i
      BY <1>1, <1>3
    <3>2. QED BY <1>2, <1>3, <3>1 DEF k
  <2>3. i > 1 => i - 1 \in 1 .. k /\ i - 1 # k /\ at[i - 1] \in 1 .. n /\ at[i - 1] < at[i]
    <3>1. i > 1 => i \in 2 .. k /\ i - 1 \in 1 .. k /\ i - 1 # k
      BY <1>1, <1>3
    <3>2. QED BY <1>2, <1>3, <3>1 DEF k
  <2>4. i > 1 => last(i - 1) = at[i] - 1
    <3>1. i > 1 => (i - 1) + 1 = i
      BY <1>1, <1>3
    <3>2. QED BY <2>3, <3>1
  <2>5. QED BY <1>1, <2>1, <2>2, <2>3, <2>4
<1>7. ASSUME NEW i \in 1 .. k
      PROVE  /\ sub[i].src = (f + at[i] - 1) * PageSize + SGOffset(m, at[i])
             /\ sub[i].size = RunLength(m, at[i], last(i))
  <2>1. sub[i] = Element(m, pages, at, i) /\ pages[at[i]] = f + at[i] - 1
    BY <1>4, <1>5, <1>6
  <2>2. QED BY <2>1 DEF Element
<1> HIDE DEF sgl, sub, last, f, n, k
<1>8. ASSUME NEW i \in 1 .. k
      PROVE  /\ sub[i].size \in Nat \ {0}
             /\ sub[i].src + sub[i].size =
                  IF last(i) = n THEN m.start + m.size ELSE (f + last(i)) * PageSize
  <2>1. at[i] \in 1 .. PageCount(m) /\ last(i) \in 1 .. PageCount(m) /\ at[i] <= last(i)
    BY <1>6 DEF n
  <2>2. /\ RunLength(m, at[i], last(i)) \in Nat \ {0}
        /\ (FirstPage(m) + at[i] - 1) * PageSize + SGOffset(m, at[i]) + RunLength(m, at[i], last(i)) =
             IF last(i) = PageCount(m) THEN m.start + m.size
             ELSE (FirstPage(m) + last(i)) * PageSize
    BY <2>1, RunEnds
  <2>3. QED BY <1>7, <2>2 DEF n, f
<1>9. sub[1].src = m.start
  <2>1. 1 \in 1 .. k /\ f + 1 - 1 = f
    BY <1>1, <1>3
  <2>2. sub[1].src = f * PageSize + SGOffset(m, 1)
    BY <1>2, <1>7, <2>1
  <2>3. QED BY <1>1, <2>2 DEF SGOffset
<1>10. sub[k].src + sub[k].size = m.start + m.size
  <2>1. k \in 1 .. k /\ last(k) = n
    BY <1>1, <1>3 DEF last
  <2>2. QED BY <1>8, <2>1
<1>11. ASSUME NEW i \in 1 .. k, i > 1
       PROVE  sub[i].src = sub[i - 1].src + sub[i - 1].size
  <2>1. i - 1 \in 1 .. k
    BY <1>1, <1>3, <1>11
  <2>2. at[i] \in 1 .. n /\ at[i] # 1 /\ last(i - 1) = at[i] - 1 /\ last(i - 1) # n
    BY <1>6, <1>11
  <2>3. sub[i - 1].src + sub[i - 1].size = (f + (at[i] - 1)) * PageSize
    BY <1>8, <2>1, <2>2
  <2>4. f + (at[i] - 1) = f + at[i] - 1 /\ (f + at[i] - 1) * PageSize \in Nat
    <3>1. f + (at[i] - 1) = f + at[i] - 1 /\ f + at[i] - 1 \in Nat
      BY <1>1, <2>2
    <3>2. QED BY <3>1, DmaAssumption
  <2>5. SGOffset(m, at[i]) = 0
    BY <2>2 DEF SGOffset
  <2>6. QED BY <1>7, <2>3, <2>4, <2>5
<1>12. sub # <<>>
  BY <1>1, <1>3, <1>5
<1>13. Covers(sub, m)
  <2>1. Len(sub) = k
    BY <1>5
  <2>2. \A i \in 1 .. k : sub[i].size > 0 /\ (i > 1 => sub[i].src = sub[i - 1].src + sub[i - 1].size)
    BY <1>8, <1>11
  <2>3. QED BY <1>9, <1>10, <1>12, <2>1, <2>2 DEF Covers
<1>14. k <= Len(sgl)
  BY <1>1, <1>3, <1>5
<1>15. QED BY <1>13, <1>14 DEF sub, sgl, k

-------------------------------------------------------------------------------
Holders(p) == {b \in Buffers : mdl[b].mode = "user" /\ InMap(p, pmap[b])}

(* A buffer's pages are those of its memory, in order, as far as they could *)
(* be locked, and none when there is no buffer.                            *)
MapInv ==
  /\ mdl \in [Buffers -> Mdl \cup {NoMdl}]
  /\ DOMAIN pmap = Buffers /\ DOMAIN winSGL = Buffers
  /\ DOMAIN sgArray = Buffers /\ DOMAIN segs = Buffers
  /\ \A b \in Buffers : Made(b) =>
       /\ DOMAIN pmap[b] = 1 .. PageCount(mdl[b])
       /\ \A i \in 1 .. PageCount(mdl[b]) : pmap[b][i] \in {FirstPage(mdl[b]) + i - 1, NoPage}

(* A list of a buffer begins with the n elements of a mapping of its pages. *)
BeginsWithMapping(m, pages, n, sgl) ==
  \E at \in DmaMapSg(m) : n = Len(at) /\ sgl = SGArray(m, pages, at, sgl)

(* The core has the list of the mapping that is in force now. *)
ListInv ==
  \A b \in mapped :
    b \in Buffers /\ Made(b) /\ BeginsWithMapping(mdl[b], pmap[b], segs[b], winSGL[b])

RefInv == \A p \in Page : refs[p] = Cardinality(Holders(p))

DmaInv == MapInv /\ ListInv /\ RefInv

(* A buffer is not one that there is no buffer for. *)
LEMMA MdlMade == NoMdl \notin Mdl
BY DEF NoMdl, Mdl

(* The buffers on a page can be counted. *)
LEMMA HoldersFinite ==
ASSUME NEW p
PROVE  IsFiniteSet(Holders(p)) /\ Cardinality(Holders(p)) \in Nat
<1>1. Holders(p) \subseteq Buffers
  BY DEF Holders
<1>2. QED BY <1>1, DmaAssumption, FS_Subset, FS_CardinalityType

(* Whether a list is one of a mapping depends on what it is asked of only. *)
LEMMA PrimedMapping ==
ASSUME NEW b
PROVE  BeginsWithMapping(mdl[b], pmap[b], segs[b], winSGL[b])' =
         BeginsWithMapping(mdl'[b], pmap'[b], segs'[b], winSGL'[b])
BY DEF BeginsWithMapping

(* Steps that leave what is mapped leave the lists of it. *)
LEMMA ListKept ==
ASSUME ListInv, mapped' \subseteq mapped,
       \A b \in mapped' : /\ mdl'[b] = mdl[b] /\ pmap'[b] = pmap[b]
                          /\ segs'[b] = segs[b] /\ winSGL'[b] = winSGL[b]
PROVE  ListInv'
<1> SUFFICES ASSUME NEW b \in mapped'
             PROVE  b \in Buffers /\ Made(b)' /\ BeginsWithMapping(mdl'[b], pmap'[b], segs'[b], winSGL'[b])
  BY PrimedMapping DEF ListInv
<1>1. b \in Buffers /\ Made(b) /\ BeginsWithMapping(mdl[b], pmap[b], segs[b], winSGL[b])
  BY DEF ListInv
<1>2. QED BY <1>1 DEF Made

(* Without buffers the invariant holds, *)
LEMMA DmaStart == DmaInit => DmaInv
<1> SUFFICES ASSUME DmaInit PROVE DmaInv
  OBVIOUS
<1>1. \A b \in Buffers : ~Made(b) /\ mdl[b].mode = "none"
  BY DEF DmaInit, Made, NoMdl
<1>2. MapInv
  BY <1>1 DEF DmaInit, MapInv
<1>3. ListInv
  BY DEF DmaInit, ListInv
<1>4. RefInv
  <2> SUFFICES ASSUME NEW p \in Page PROVE refs[p] = Cardinality(Holders(p))
    BY DEF RefInv
  <2>1. Holders(p) = {}
    BY <1>1 DEF Holders
  <2>2. refs[p] = 0
    BY DEF DmaInit
  <2>3. QED BY <2>1, <2>2, FS_EmptySet
<1>5. QED BY <1>2, <1>3, <1>4 DEF DmaInv

(* What locking returns. *)
LEMMA LockedPages ==
ASSUME NEW m, NEW got
PROVE  LET pages == MmProbeAndLockPages(m, got) IN
       /\ DOMAIN pages = 1 .. PageCount(m)
       /\ \A i \in 1 .. PageCount(m) : pages[i] \in {FirstPage(m) + i - 1, NoPage}
BY DEF MmProbeAndLockPages

(* A buffer made adds itself, and a reference, to the pages it locked. *)
LEMMA MakeStep ==
ASSUME DmaInv, NEW b \in Buffers, NEW m \in Mdl, NEW got, InitKernelDma(b, m, got)
PROVE  DmaInv'
<1>1. ~Made(b) /\ mdl[b] = NoMdl /\ mdl' = [mdl EXCEPT ![b] = m]
      /\ UNCHANGED <<winSGL, mapped>> /\ segs' = [segs EXCEPT ![b] = 0]
      /\ DOMAIN sgArray' = DOMAIN sgArray
  BY DEF InitKernelDma, Made
<1>2. pmap' = [pmap EXCEPT ![b] = MmProbeAndLockPages(m, got)]
  BY DEF InitKernelDma
<1>3. /\ mdl \in [Buffers -> Mdl \cup {NoMdl}] /\ DOMAIN pmap = Buffers
      /\ mdl'[b] = m /\ pmap'[b] = MmProbeAndLockPages(m, got)
      /\ \A c \in Buffers : c # b => mdl'[c] = mdl[c] /\ pmap'[c] = pmap[c] /\ segs'[c] = segs[c]
  BY <1>1, <1>2 DEF DmaInv, MapInv
<1>4. MapInv'
  <2>1. /\ DOMAIN pmap'[b] = 1 .. PageCount(m)
        /\ \A i \in 1 .. PageCount(m) : pmap'[b][i] \in {FirstPage(m) + i - 1, NoPage}
    BY <1>3, LockedPages
  <2>2. mdl' \in [Buffers -> Mdl \cup {NoMdl}] /\ DOMAIN pmap' = Buffers /\ DOMAIN winSGL' = Buffers
        /\ DOMAIN sgArray' = Buffers /\ DOMAIN segs' = Buffers
    BY <1>1, <1>2 DEF DmaInv, MapInv
  <2>3. ASSUME NEW c \in Buffers, Made(c)'
        PROVE  /\ DOMAIN pmap'[c] = 1 .. PageCount(mdl'[c])
               /\ \A i \in 1 .. PageCount(mdl'[c]) :
                    pmap'[c][i] \in {FirstPage(mdl'[c]) + i - 1, NoPage}
    <3>1. CASE c = b
      BY <2>1, <1>3, <3>1
    <3>2. CASE c # b
      BY <2>3, <1>3, <3>2 DEF Made, DmaInv, MapInv
    <3>3. QED BY <3>1, <3>2
  <2>4. NoPage' = NoPage
    BY DEF NoPage
  <2>5. QED BY <2>2, <2>3, <2>4 DEF MapInv, FirstPage, PageCount, LastPage
<1>5. ListInv'
  <2> SUFFICES ASSUME NEW c \in mapped'
               PROVE  c \in Buffers /\ Made(c)' /\ BeginsWithMapping(mdl'[c], pmap'[c], segs'[c], winSGL'[c])
    BY PrimedMapping DEF ListInv
  <2>1. c \in Buffers /\ Made(c) /\ BeginsWithMapping(mdl[c], pmap[c], segs[c], winSGL[c])
    BY <1>1 DEF DmaInv, ListInv
  <2>2. c # b
    BY <2>1, <1>1
  <2>3. QED BY <1>1, <1>3, <2>1, <2>2 DEF Made
<1>6. RefInv'
  <2> SUFFICES ASSUME NEW p \in Page PROVE refs'[p] = Cardinality(Holders(p)')
    BY DEF RefInv, Page
  <2>1. b \notin Holders(p)
    BY <1>1 DEF Holders, NoMdl
  <2>2. refs'[p] = IF m.mode = "user" /\ InMap(p, pmap'[b]) THEN refs[p] + 1 ELSE refs[p]
    BY DEF InitKernelDma
  <2>3. Holders(p)' = IF m.mode = "user" /\ InMap(p, pmap'[b])
                      THEN Holders(p) \cup {b} ELSE Holders(p)
    BY <1>3, <2>1 DEF Holders, InMap
  <2>4. refs[p] = Cardinality(Holders(p))
    BY DEF DmaInv, RefInv
  <2>5. Cardinality(Holders(p) \cup {b}) = Cardinality(Holders(p)) + 1
    BY <2>1, HoldersFinite, FS_AddElement
  <2>6. QED BY <2>2, <2>3, <2>4, <2>5
<1>7. QED BY <1>4, <1>5, <1>6 DEF DmaInv

(* A transfer begins: the list is made again of the buffer's pages. *)
LEMMA MapStep ==
ASSUME DmaInv, NEW va, LinuxGetScatterGatherList(va)
PROVE  DmaInv'
<1>1. PICK b \in CaptureGetLiveBuffer(va) : \E at \in DmaMapSg(mdl[b]) :
        /\ segs' = [segs EXCEPT ![b] = Len(at)]
        /\ sgArray' = [sgArray EXCEPT ![b] = SGArray(mdl[b], pmap[b], at, sgArray[b])]
        /\ winSGL' = [winSGL EXCEPT ![b] = sgArray'[b]]
        /\ mapped' = mapped \cup {b}
        /\ UNCHANGED <<mdl, pmap, refs>>
  BY DEF LinuxGetScatterGatherList
<1>2. b \in Buffers /\ Made(b)
  BY DEF CaptureGetLiveBuffer
<1>3. MapInv'
  BY <1>1 DEF DmaInv, MapInv, Made, NoPage
<1>4. ListInv'
  <2> SUFFICES ASSUME NEW c \in mapped'
               PROVE  c \in Buffers /\ Made(c)' /\ BeginsWithMapping(mdl'[c], pmap'[c], segs'[c], winSGL'[c])
    BY PrimedMapping DEF ListInv
  <2>1. CASE c = b
    <3> PICK at \in DmaMapSg(mdl[b]) :
          /\ segs' = [segs EXCEPT ![b] = Len(at)]
          /\ sgArray' = [sgArray EXCEPT ![b] = SGArray(mdl[b], pmap[b], at, sgArray[b])]
          /\ winSGL' = [winSGL EXCEPT ![b] = sgArray'[b]]
      BY <1>1
    <3>1. segs'[b] = Len(at) /\ winSGL'[b] = SGArray(mdl[b], pmap[b], at, sgArray[b])
      BY <1>1, <1>2 DEF DmaInv, MapInv
    <3>2. winSGL'[b] = SGArray(mdl[b], pmap[b], at, winSGL'[b])
      BY <3>1 DEF SGArray
    <3>3. BeginsWithMapping(mdl[b], pmap[b], segs'[b], winSGL'[b])
      BY <3>1, <3>2 DEF BeginsWithMapping
    <3>4. QED BY <1>1, <1>2, <2>1, <3>3 DEF Made
  <2>2. CASE c # b
    <3>1. c \in Buffers /\ Made(c) /\ BeginsWithMapping(mdl[c], pmap[c], segs[c], winSGL[c])
      BY <1>1, <2>2 DEF DmaInv, ListInv
    <3>2. segs'[c] = segs[c] /\ winSGL'[c] = winSGL[c]
      BY <1>1, <2>2, <3>1 DEF DmaInv, MapInv
    <3>3. QED BY <1>1, <3>1, <3>2 DEF Made
  <2>3. QED BY <2>1, <2>2
<1>5. RefInv'
  BY <1>1 DEF DmaInv, RefInv, Holders, Page, InMap
<1>6. QED BY <1>3, <1>4, <1>5 DEF DmaInv

(* A transfer ends. *)
LEMMA UnmapStep ==
ASSUME DmaInv, NEW b \in Buffers, LinuxPutScatterGatherList(b)
PROVE  DmaInv'
<1>1. mapped' = mapped \ {b} /\ UNCHANGED <<mdl, pmap, refs, sgArray, segs, winSGL>>
  BY DEF LinuxPutScatterGatherList
<1>2. MapInv'
  BY <1>1 DEF DmaInv, MapInv, Made, NoPage
<1>3. ListInv'
  BY <1>1, ListKept DEF DmaInv
<1>4. RefInv'
  BY <1>1 DEF DmaInv, RefInv, Holders, Page, InMap
<1>5. QED BY <1>2, <1>3, <1>4 DEF DmaInv

(* A buffer released takes its references along. *)
LEMMA ReleaseStep ==
ASSUME DmaInv, NEW b \in Buffers, UninitKernelDma(b)
PROVE  DmaInv'
<1>1. /\ Made(b) /\ b \notin mapped /\ mapped' = mapped
      /\ mdl' = [mdl EXCEPT ![b] = NoMdl]
      /\ pmap' = [pmap EXCEPT ![b] = <<>>]
      /\ sgArray' = [sgArray EXCEPT ![b] = <<>>] /\ segs' = segs
      /\ winSGL' = [winSGL EXCEPT ![b] = <<>>]
  BY DEF UninitKernelDma
<1>2. /\ mdl \in [Buffers -> Mdl \cup {NoMdl}] /\ DOMAIN pmap = Buffers /\ DOMAIN winSGL = Buffers
      /\ mdl'[b] = NoMdl
      /\ \A c \in Buffers : c # b => mdl'[c] = mdl[c] /\ pmap'[c] = pmap[c] /\ winSGL'[c] = winSGL[c]
  BY <1>1 DEF DmaInv, MapInv
<1>3. MapInv'
  <2>1. mdl' \in [Buffers -> Mdl \cup {NoMdl}] /\ DOMAIN pmap' = Buffers /\ DOMAIN winSGL' = Buffers
        /\ DOMAIN sgArray' = Buffers /\ DOMAIN segs' = Buffers
    BY <1>1, <1>2 DEF DmaInv, MapInv
  <2>2. ASSUME NEW c \in Buffers, Made(c)' PROVE c # b /\ Made(c)
    BY <1>2, <2>2 DEF Made
  <2>3. NoPage' = NoPage
    BY DEF NoPage
  <2>4. QED BY <1>2, <2>1, <2>2, <2>3 DEF DmaInv, MapInv
<1>4. ListInv'
  <2>1. ASSUME NEW c \in mapped
        PROVE  /\ mdl'[c] = mdl[c] /\ pmap'[c] = pmap[c]
               /\ segs'[c] = segs[c] /\ winSGL'[c] = winSGL[c]
    BY <1>1, <1>2 DEF DmaInv, ListInv
  <2>2. QED BY <1>1, <2>1, ListKept DEF DmaInv
<1>5. RefInv'
  <2> SUFFICES ASSUME NEW p \in Page PROVE refs'[p] = Cardinality(Holders(p)')
    BY DEF RefInv, Page
  <2>1. p \in MmUnlockPages(b) <=> b \in Holders(p)
    <3>1. DOMAIN pmap[b] = 1 .. PageCount(mdl[b])
      BY <1>1 DEF DmaInv, MapInv
    <3>2. QED BY <3>1 DEF MmUnlockPages, Holders, InMap
  <2>2. refs'[p] = IF p \in MmUnlockPages(b) THEN refs[p] - 1 ELSE refs[p]
    BY DEF UninitKernelDma
  <2>3. Holders(p)' = Holders(p) \ {b}
    BY <1>2 DEF Holders, InMap, NoMdl
  <2>4. refs[p] = Cardinality(Holders(p))
    BY DEF DmaInv, RefInv
  <2>5. b \in Holders(p) => Cardinality(Holders(p) \ {b}) = Cardinality(Holders(p)) - 1
    BY HoldersFinite, FS_RemoveElement
  <2>6. b \notin Holders(p) => Holders(p) \ {b} = Holders(p)
    OBVIOUS
  <2>7. QED BY <2>1, <2>2, <2>3, <2>4, <2>5, <2>6
<1>6. QED BY <1>3, <1>4, <1>5 DEF DmaInv

(* and every step keeps it. *)
LEMMA DmaStep == DmaInv /\ [DmaNext]_dmaVars => DmaInv'
<1> SUFFICES ASSUME DmaInv, [DmaNext]_dmaVars PROVE DmaInv'
  OBVIOUS
<1>1. CASE UNCHANGED dmaVars
  <2>1. UNCHANGED <<mdl, pmap, refs, sgArray, segs, winSGL, mapped>>
    BY <1>1 DEF dmaVars
  <2>2. MapInv'
    BY <2>1 DEF DmaInv, MapInv, Made, NoPage
  <2>3. ListInv'
    BY <2>1, ListKept DEF DmaInv
  <2>4. RefInv'
    BY <2>1 DEF DmaInv, RefInv, Holders, Page, InMap
  <2>5. QED BY <2>2, <2>3, <2>4 DEF DmaInv
<1>2. CASE DmaNext
  BY <1>2, MakeStep, MapStep, UnmapStep, ReleaseStep DEF DmaNext
<1>3. QED BY <1>1, <1>2

(* So it holds for ever: pages, lists and references belong together. *)
THEOREM DmaInvariant == DmaSpec => []DmaInv
BY DmaStart, DmaStep, PTL DEF DmaSpec

-------------------------------------------------------------------------------
(* Whatever the page size, the alignment, the size and the access of a     *)
(* buffer that could be locked, and whichever of its pages the mapping     *)
(* merged, the elements it made come first in the core's list and cover    *)
(* exactly the buffer's bytes.  Of a mapping that failed nothing is said.  *)
THEOREM BoardAlwaysHasBuffer == DmaSpec => []BoardHasBuffer
<1>1. DmaInv => BoardHasBuffer
  <2> SUFFICES ASSUME DmaInv, NEW b \in mapped, segs[b] # 0, Locked(b)
               PROVE  /\ segs[b] <= Len(winSGL[b])
                      /\ Covers(SubSeq(winSGL[b], 1, segs[b]), mdl[b])
    BY DEF BoardHasBuffer
  <2>1. b \in Buffers /\ mdl[b] \in Mdl /\ Made(b) /\ BeginsWithMapping(mdl[b], pmap[b], segs[b], winSGL[b])
    BY DEF DmaInv, ListInv, MapInv, Made
  <2>2. \A i \in 1 .. PageCount(mdl[b]) : pmap[b][i] = FirstPage(mdl[b]) + i - 1
    BY <2>1 DEF DmaInv, MapInv, Locked
  <2>3. PICK at \in DmaMapSg(mdl[b]) :
          segs[b] = Len(at) /\ winSGL[b] = SGArray(mdl[b], pmap[b], at, winSGL[b])
    BY <2>1 DEF BeginsWithMapping
  <2>4. at # <<>>
    BY <2>3
  <2> DEFINE sgl == SGArray(mdl[b], pmap[b], at, winSGL[b])
  <2>5. Len(at) <= Len(sgl) /\ Covers(SubSeq(sgl, 1, Len(at)), mdl[b])
    BY <2>1, <2>2, <2>4, SGCovers
  <2>6. sgl = winSGL[b]
    BY <2>3
  <2> HIDE DEF sgl
  <2>7. QED BY <2>3, <2>5, <2>6
<1>2. QED BY <1>1, DmaInvariant, PTL

(* However buffers share pages, and however little of them could be        *)
(* locked, a page has a reference for each user buffer that locked it.     *)
THEOREM PagesAlwaysHeld == DmaSpec => []PagesHeld
<1>1. DmaInv => PagesHeld
  BY DEF DmaInv, RefInv, Holders, PagesHeld
<1>2. QED BY <1>1, DmaInvariant, PTL

-------------------------------------------------------------------------------
(* Work *)

(* Every variable of the work has its type. *)
WorkTypes ==
  /\ func \in [Works -> {Null} \cup {Routine[w] : w \in Works}]
  /\ caller \in [Callers -> {Free} \cup WorkItems]
  /\ pending \subseteq Works /\ owed \subseteq Works
  /\ worker \in [Works -> [pc : {"idle", "taken", "call", "running"},
                           func : {Null} \cup {Routine[w] : w \in Works}]]

(* A work that a caller has prepared, or that the kernel has, has its routine, *)
(* and so has what the worker read of it.                                      *)
Prepared ==
  /\ \A w \in Dpcs \cup pending : func[w] = Routine[w]
  /\ \A t \in Callers : caller[t] # Free => func[caller[t]] = Routine[caller[t]]
  /\ \A w \in Works : worker[w].pc \in {"taken", "call"} => worker[w].func = Routine[w]

(* A work that is owed is pending, or its call is still to start; work the *)
(* worker has taken and not released is pending.                           *)
OwedIsComing ==
  /\ \A w \in owed : w \in pending \/ worker[w].pc = "call"
  /\ \A w \in Works : worker[w].pc = "taken" => w \in pending

WorkInv == WorkTypes /\ Prepared /\ OwedIsComing

(* It holds at first: nothing is asked for. *)
LEMMA WorkStart == WorkInit => WorkInv
<1> SUFFICES ASSUME WorkInit PROVE WorkInv
  OBVIOUS
<1>1. WorkTypes
  BY DEF WorkInit, WorkTypes, KernelInitWork, Works, Idle
<1>2. Prepared
  <2>1. \A t \in Callers : caller[t] = Free
    BY DEF WorkInit
  <2>2. func = [w \in Works |-> IF w \in Dpcs THEN Routine[w] ELSE Null]
    BY DEF WorkInit, KernelInitWork
  <2>3. \A w \in Dpcs \cup pending : func[w] = Routine[w]
    BY <2>2 DEF WorkInit, Works
  <2>4. \A w \in Works : worker[w].pc = "idle"
    BY DEF WorkInit, Idle
  <2>q. QED BY <2>1, <2>3, <2>4 DEF Prepared
<1>3. OwedIsComing
  BY DEF WorkInit, OwedIsComing, Idle
<1>q. QED BY <1>1, <1>2, <1>3 DEF WorkInv

(* A caller prepares the work it is to queue. *)
LEMMA QueueStep ==
ASSUME WorkInv, NEW t \in Callers, NEW w \in WorkItems, IoQueueWorkItem(t, w)
PROVE  WorkInv'
<1>1. /\ func' = [func EXCEPT ![w] = Routine[w]] /\ caller' = [caller EXCEPT ![t] = w]
      /\ UNCHANGED <<pending, worker, owed>> /\ w \in Works
  BY DEF IoQueueWorkItem, Works
<1>2. WorkTypes'
  BY <1>1 DEF WorkInv, WorkTypes
<1>3. \A v \in Works : func'[v] = Routine[v] \/ func'[v] = func[v]
  BY <1>1 DEF WorkInv, WorkTypes
<1>4. Prepared'
  <2>1. \A v \in Dpcs \cup pending' : func'[v] = Routine[v]
    BY <1>1, <1>3 DEF WorkInv, WorkTypes, Prepared, Works
  <2>2. ASSUME NEW u \in Callers, caller'[u] # Free PROVE func'[caller'[u]] = Routine[caller'[u]]
    <3>1. CASE u = t
      BY <3>1, <1>1 DEF WorkInv, WorkTypes
    <3>2. CASE u # t
      <4>1. caller'[u] = caller[u] /\ caller[u] \in Works
        BY <3>2, <2>2, <1>1 DEF WorkInv, WorkTypes, Works
      <4>2. QED BY <4>1, <2>2, <1>3 DEF WorkInv, Prepared
    <3>3. QED BY <3>1, <3>2
  <2>3. QED BY <1>1, <2>1, <2>2 DEF WorkInv, Prepared
<1>5. OwedIsComing'
  BY <1>1 DEF WorkInv, OwedIsComing
<1>q. QED BY <1>2, <1>4, <1>5 DEF WorkInv

(* Work that has its routine is given to the kernel. *)
LEMMA ScheduleStep ==
ASSUME WorkInv, NEW w \in Works, func[w] = Routine[w], ScheduleWork(w),
       UNCHANGED <<func, worker>>, NEW t \in Callers,
       caller' = caller \/ caller' = [caller EXCEPT ![t] = Free]
PROVE  WorkInv'
<1>1. /\ pending' = pending \cup {w} /\ owed' = owed \cup {w}
      /\ func' = func /\ worker' = worker
  BY DEF ScheduleWork
<1>2. caller' \in [Callers -> {Free} \cup WorkItems]
      /\ \A u \in Callers : caller'[u] = Free \/ caller'[u] = caller[u]
  BY DEF WorkInv, WorkTypes
<1>3. WorkTypes'
  BY <1>1, <1>2 DEF WorkInv, WorkTypes
<1>4. Prepared'
  BY <1>1, <1>2 DEF WorkInv, Prepared
<1>5. OwedIsComing'
  BY <1>1 DEF WorkInv, OwedIsComing
<1>q. QED BY <1>3, <1>4, <1>5 DEF WorkInv

(* What the kernel does about a work leaves the others as they are. *)
LEMMA WorkerChanges ==
ASSUME WorkTypes, NEW w \in Works, NEW r, worker' = [worker EXCEPT ![w] = r],
       r \in [pc : {"idle", "taken", "call", "running"},
              func : {Null} \cup {Routine[v] : v \in Works}]
PROVE  /\ worker' \in [Works -> [pc : {"idle", "taken", "call", "running"},
                                 func : {Null} \cup {Routine[v] : v \in Works}]]
       /\ worker'[w] = r /\ \A v \in Works \ {w} : worker'[v] = worker[v]
BY DEF WorkTypes

(* The worker reads the routine of pending work. *)
LEMMA TakeStep ==
ASSUME WorkInv, NEW w \in Works, Take(w)
PROVE  WorkInv'
<1> DEFINE r == [pc |-> "taken", func |-> func[w]]
<1>1. w \in pending /\ worker[w].pc = "idle" /\ UNCHANGED <<func, pending, caller, owed>>
      /\ worker' = [worker EXCEPT ![w] = r] /\ r.pc = "taken" /\ r.func = Routine[w]
  BY DEF Take, WorkInv, Prepared
<1>2. r \in [pc : {"idle", "taken", "call", "running"}, func : {Null} \cup {Routine[v] : v \in Works}]
  BY DEF WorkInv, WorkTypes
<1> HIDE DEF r
<1>3. /\ worker' \in [Works -> [pc : {"idle", "taken", "call", "running"},
                                func : {Null} \cup {Routine[v] : v \in Works}]]
      /\ worker'[w] = r /\ \A v \in Works \ {w} : worker'[v] = worker[v]
  BY <1>1, <1>2, WorkerChanges DEF WorkInv
<1>4. WorkTypes'
  BY <1>1, <1>3 DEF WorkInv, WorkTypes
<1>5. Prepared'
  BY <1>1, <1>3 DEF WorkInv, Prepared
<1>6. OwedIsComing'
  <2>1. owed \subseteq Works
    BY DEF WorkInv, WorkTypes
  <2>2. QED BY <1>1, <1>3, <2>1 DEF WorkInv, OwedIsComing
<1>q. QED BY <1>4, <1>5, <1>6 DEF WorkInv

(* The work may be queued again; its call is to follow. *)
LEMMA MayRequeueStep ==
ASSUME WorkInv, NEW w \in Works, MayRequeue(w)
PROVE  WorkInv'
<1> DEFINE r == [worker[w] EXCEPT !.pc = "call"]
<1>1. worker[w].pc = "taken" /\ pending' = pending \ {w} /\ UNCHANGED <<func, caller, owed>>
      /\ worker' = [worker EXCEPT ![w] = r]
  BY DEF MayRequeue
<1>2. r \in [pc : {"idle", "taken", "call", "running"}, func : {Null} \cup {Routine[v] : v \in Works}]
      /\ r.pc = "call" /\ r.func = worker[w].func
  BY DEF WorkInv, WorkTypes
<1> HIDE DEF r
<1>3. /\ worker' \in [Works -> [pc : {"idle", "taken", "call", "running"},
                                func : {Null} \cup {Routine[v] : v \in Works}]]
      /\ worker'[w] = r /\ \A v \in Works \ {w} : worker'[v] = worker[v]
  BY <1>1, <1>2, WorkerChanges DEF WorkInv
<1>4. WorkTypes'
  BY <1>1, <1>3 DEF WorkInv, WorkTypes
<1>5. Prepared'
  BY <1>1, <1>2, <1>3 DEF WorkInv, Prepared
<1>6. OwedIsComing'
  <2>1. owed \subseteq Works
    BY DEF WorkInv, WorkTypes
  <2>2. QED BY <1>1, <1>2, <1>3, <2>1 DEF WorkInv, OwedIsComing
<1>q. QED BY <1>4, <1>5, <1>6 DEF WorkInv

(* The routine starts: the request is answered. *)
LEMMA CallStep ==
ASSUME WorkInv, NEW w \in Works, Call(w)
PROVE  WorkInv'
<1> DEFINE r == [worker[w] EXCEPT !.pc = "running"]
<1>1. worker[w].pc = "call" /\ UNCHANGED <<func, pending, caller>>
      /\ worker' = [worker EXCEPT ![w] = r] /\ owed' = owed \ {w}
  BY DEF Call, WorkInv, Prepared
<1>2. r \in [pc : {"idle", "taken", "call", "running"}, func : {Null} \cup {Routine[v] : v \in Works}]
      /\ r.pc = "running"
  BY DEF WorkInv, WorkTypes
<1> HIDE DEF r
<1>3. /\ worker' \in [Works -> [pc : {"idle", "taken", "call", "running"},
                                func : {Null} \cup {Routine[v] : v \in Works}]]
      /\ worker'[w] = r /\ \A v \in Works \ {w} : worker'[v] = worker[v]
  BY <1>1, <1>2, WorkerChanges DEF WorkInv
<1>4. WorkTypes'
  BY <1>1, <1>3 DEF WorkInv, WorkTypes
<1>5. Prepared'
  BY <1>1, <1>2, <1>3 DEF WorkInv, Prepared
<1>6. OwedIsComing'
  <2>1. owed \subseteq Works
    BY DEF WorkInv, WorkTypes
  <2>2. QED BY <1>1, <1>2, <1>3, <2>1 DEF WorkInv, OwedIsComing
<1>q. QED BY <1>4, <1>5, <1>6 DEF WorkInv

(* The routine is done. *)
LEMMA ReturnStep ==
ASSUME WorkInv, NEW w \in Works, Return(w)
PROVE  WorkInv'
<1>1. worker[w].pc = "running" /\ UNCHANGED <<func, pending, caller, owed>>
      /\ worker' = [worker EXCEPT ![w] = Idle]
  BY DEF Return
<1>2. Idle \in [pc : {"idle", "taken", "call", "running"}, func : {Null} \cup {Routine[v] : v \in Works}]
      /\ Idle.pc = "idle"
  BY DEF Idle
<1>3. /\ worker' \in [Works -> [pc : {"idle", "taken", "call", "running"},
                                func : {Null} \cup {Routine[v] : v \in Works}]]
      /\ worker'[w] = Idle /\ \A v \in Works \ {w} : worker'[v] = worker[v]
  BY <1>1, <1>2, WorkerChanges DEF WorkInv
<1>4. WorkTypes'
  BY <1>1, <1>3 DEF WorkInv, WorkTypes
<1>5. Prepared'
  BY <1>1, <1>2, <1>3 DEF WorkInv, Prepared
<1>6. OwedIsComing'
  <2>1. owed \subseteq Works
    BY DEF WorkInv, WorkTypes
  <2>2. QED BY <1>1, <1>2, <1>3, <2>1 DEF WorkInv, OwedIsComing
<1>q. QED BY <1>4, <1>5, <1>6 DEF WorkInv

(* Every step keeps it. *)
LEMMA WorkStep == WorkInv /\ [WorkNext]_workVars => WorkInv'
<1> SUFFICES ASSUME WorkInv, [WorkNext]_workVars PROVE WorkInv'
  OBVIOUS
<1>1. CASE UNCHANGED workVars
  BY <1>1 DEF workVars, WorkInv, WorkTypes, Prepared, OwedIsComing
<1>2. ASSUME NEW t \in Callers, NEW w \in WorkItems, IoQueueWorkItem(t, w) PROVE WorkInv'
  BY <1>2, QueueStep
<1>3. ASSUME NEW t \in Callers, Scheduled(t) PROVE WorkInv'
  <2>1. caller[t] \in Works /\ func[caller[t]] = Routine[caller[t]]
    BY <1>3 DEF Scheduled, WorkInv, WorkTypes, Prepared, Works
  <2>2. QED BY <1>3, <2>1, ScheduleStep DEF Scheduled
<1>4. ASSUME NEW t \in Callers, NEW w \in Dpcs, KeInsertQueueDpc(t, w) PROVE WorkInv'
  <2>1. w \in Works /\ func[w] = Routine[w]
    BY DEF WorkInv, Prepared, Works
  <2>2. QED BY <1>4, <2>1, ScheduleStep DEF KeInsertQueueDpc
<1>5. ASSUME NEW w \in Works, Kernel(w) PROVE WorkInv'
  BY <1>5, TakeStep, MayRequeueStep, CallStep, ReturnStep DEF Kernel
<1>6. QED BY <1>1, <1>2, <1>3, <1>4, <1>5 DEF WorkNext

(* However callers and the worker interleave, no request of a work is dropped: *)
(* until the routine starts the work is with the kernel, or the worker has let *)
(* it be queued again and is about to call the routine.                        *)
THEOREM OwedIsAlwaysComing == WorkSpec => []OwedIsComing
<1>1. WorkInv => OwedIsComing
  BY DEF WorkInv
<1>2. QED BY <1>1, WorkStart, WorkStep, PTL DEF WorkSpec

-------------------------------------------------------------------------------
(* Strings *)

(* A set of numbers that is not empty has a least one. *)
LEMMA Least ==
ASSUME NEW S \in SUBSET Nat, S # {}
PROVE  \E m \in S : \A n \in S : m <= n
<1> DEFINE R == OpToRel(<, Nat)
<1>1. IsWellFoundedOn(R, Nat)
  BY NatLessThanWellFounded
<1>2. \A m, n \in Nat : <<n, m>> \in R <=> n < m
  BY DEF OpToRel
<1> HIDE DEF R
<1>3. PICK m \in S : \A n \in S : ~(<<n, m>> \in R)
  BY <1>1, WFMin
<1>4. ASSUME NEW n \in S PROVE m <= n
  <2>1. m \in Nat /\ n \in Nat /\ ~(<<n, m>> \in R)
    BY <1>3
  <2>2. ~(n < m)
    BY <1>2, <2>1, Zenon
  <2>3. QED BY <2>1, <2>2
<1>5. QED BY <1>4

(* Which number is the least of a set. *)
LEMMA SmallestIs ==
ASSUME NEW S \in SUBSET Nat, NEW m \in S, \A n \in S : m <= n
PROVE  Smallest(S) = m
<1>1. \A k \in S : (\A l \in S : k <= l) => k = m
  <2> SUFFICES ASSUME NEW k \in S, \A l \in S : k <= l PROVE k = m
    OBVIOUS
  <2>1. k \in Nat /\ m \in Nat /\ k <= m /\ m <= k
    OBVIOUS
  <2>2. QED BY <2>1
<1>2. QED BY <1>1 DEF Smallest

(* What the core's strings are made of: the end of a string is zero. *)
Char == Nat \ {0}
Narrow == {s \in Seq(Char) : Len(s) <= MaxWide}

(* The bytes of the wide string made of s: a character every four bytes, *)
(* and zero at the end.                                                  *)
Wide(w, s) ==
  /\ DOMAIN w = 0 .. 4 * Len(s)
  /\ w[4 * Len(s)] = 0
  /\ \A i \in 1 .. Len(s) : w[4 * (i - 1)] = s[i]

(* The conversion makes them so. *)
LEMMA WideOf ==
ASSUME NEW s \in Seq(Char)
PROVE  Wide(wstrcpy(s, Len(s)), s)
<1> DEFINE n == Len(s)
           w == wstrcpy(s, n)
<1>1. n \in Nat /\ w = [j \in 0 .. 4 * n |-> IF j % 4 = 0 /\ j < 4 * n THEN s[j \div 4 + 1] ELSE 0]
  BY DEF wstrcpy
<1> HIDE DEF n, w
<1>2. DOMAIN w = 0 .. 4 * n
  BY <1>1
<1>3. w[4 * n] = 0
  <2>1. 4 * n \in 0 .. 4 * n /\ ~(4 * n < 4 * n)
    BY <1>1
  <2>2. QED BY <1>1, <2>1
<1>4. ASSUME NEW i \in 1 .. n PROVE w[4 * (i - 1)] = s[i]
  <2>1. /\ 4 * (i - 1) \in 0 .. 4 * n /\ 4 * (i - 1) < 4 * n
        /\ (4 * (i - 1)) % 4 = 0 /\ (4 * (i - 1)) \div 4 + 1 = i
    BY <1>1
  <2>2. QED BY <1>1, <2>1
<1>5. QED BY <1>2, <1>3, <1>4 DEF Wide, n, w

(* A wide string is as long as the narrow one. *)
LEMMA WideLength ==
ASSUME NEW s \in Narrow, NEW w, Wide(w, s)
PROVE  wcslen(w) = Len(s)
<1> DEFINE S == {k \in 0 .. MaxWide : k = MaxWide \/ (4 * k \in DOMAIN w /\ w[4 * k] = 0)}
           n == Len(s)
<1>1. n \in Nat /\ n <= MaxWide /\ MaxWide \in Nat /\ s \in Seq(Char)
  BY DEF Narrow, MaxWide
<1>2. n \in S
  <2>1. n \in 0 .. MaxWide /\ 4 * n \in 0 .. 4 * n
    BY <1>1
  <2>2. QED BY <2>1 DEF Wide
<1>3. ASSUME NEW k \in S PROVE n <= k
  <2> SUFFICES ASSUME k < n PROVE FALSE
    BY <1>1
  <2>1. k \in Nat /\ k + 1 \in 1 .. n /\ k # MaxWide /\ 4 * ((k + 1) - 1) = 4 * k
    BY <1>1, <1>3
  <2>2. w[4 * k] = s[k + 1] /\ s[k + 1] \in Char
    BY <1>1, <2>1 DEF Wide
  <2>3. QED BY <2>1, <2>2, <1>3 DEF Char
<1>4. S \in SUBSET Nat
  BY <1>1
<1>5. wcslen(w) = Smallest(S)
  BY DEF wcslen
<1> HIDE DEF S
<1>6. QED BY <1>2, <1>3, <1>4, <1>5, SmallestIs

(* Back from a wide string. *)
LEMMA NarrowOf ==
ASSUME NEW s \in Narrow, NEW w, Wide(w, s)
PROVE  strwcpy(w, Len(s)) = s /\ wprintk(w) = s
<1>1. s \in Seq(Char) /\ s = [i \in 1 .. Len(s) |-> s[i]]
  BY DEF Narrow
<1>2. \A i \in 1 .. Len(s) : w[4 * (i - 1)] = s[i]
  BY DEF Wide
<1>3. strwcpy(w, Len(s)) = s
  BY <1>1, <1>2 DEF strwcpy
<1>4. QED BY <1>3, WideLength DEF wprintk

(* t is how s begins. *)
Begins(t, s) == Len(t) <= Len(s) /\ \A i \in 1 .. Len(t) : s[i] = t[i]

(* A comparison looks for the first difference. *)
LEMMA Differs ==
ASSUME NEW w, NEW t \in Seq(Char), NEW i \in 1 .. Len(t), w[4 * (i - 1)] # t[i]
PROVE  wstrcmp(w, t)
<1> DEFINE D == {k \in 1 .. Len(t) : w[4 * (k - 1)] # t[k]}
<1>1. D \in SUBSET Nat /\ D # {} /\ Len(t) \in Nat
  OBVIOUS
<1> HIDE DEF D
<1>2. PICK k \in D : \A l \in D : k <= l
  BY <1>1, Least
<1>3. k \in 1 .. Len(t) /\ w[4 * (k - 1)] # t[k]
  BY DEF D
<1>4. ASSUME NEW j \in 1 .. k - 1 PROVE w[4 * (j - 1)] = t[j]
  <2>1. j \in 1 .. Len(t) /\ ~(k <= j)
    BY <1>1, <1>3
  <2>2. j \notin D
    BY <1>2, <2>1
  <2>3. QED BY <2>1, <2>2 DEF D
<1>5. QED BY <1>3, <1>4 DEF wstrcmp

(* A comparison with a narrow string is FALSE for those that begin it; the *)
(* zero at the end of the wide string is the last that is looked at.       *)
LEMMA Compared ==
ASSUME NEW s \in Seq(Char), NEW w, Wide(w, s), NEW t \in Seq(Char)
PROVE  ~wstrcmp(w, t) <=> Begins(t, s)
<1>1. Len(t) \in Nat /\ Len(s) \in Nat
  OBVIOUS
<1>2. \A i \in 1 .. Len(s) : w[4 * (i - 1)] = s[i]
  BY DEF Wide
<1>3. ASSUME ~wstrcmp(w, t) PROVE Begins(t, s)
  <2>1. Len(t) <= Len(s)
    <3> SUFFICES ASSUME Len(t) > Len(s) PROVE FALSE
      BY <1>1
    <3>1. Len(s) + 1 \in 1 .. Len(t) /\ 4 * ((Len(s) + 1) - 1) = 4 * Len(s)
      BY <1>1
    <3>2. t[Len(s) + 1] # 0 /\ w[4 * Len(s)] = 0
      BY <3>1 DEF Char, Wide
    <3>3. w[4 * ((Len(s) + 1) - 1)] # t[Len(s) + 1]
      BY <3>1, <3>2
    <3>4. QED BY <1>3, <3>1, <3>3, Differs
  <2>2. ASSUME NEW i \in 1 .. Len(t) PROVE s[i] = t[i]
    <3>1. w[4 * (i - 1)] = t[i]
      BY <1>3, Differs
    <3>2. i \in 1 .. Len(s)
      BY <1>1, <2>1
    <3>3. QED BY <1>2, <3>1, <3>2
  <2>3. QED BY <2>1, <2>2 DEF Begins
<1>4. ASSUME Begins(t, s) PROVE ~wstrcmp(w, t)
  <2>1. \A i \in 1 .. Len(t) : i \in 1 .. Len(s) /\ s[i] = t[i]
    BY <1>1, <1>4 DEF Begins
  <2>2. QED BY <1>2, <2>1 DEF wstrcmp
<1>5. QED BY <1>3, <1>4

(* Whatever the string, and however long up to what wcslen looks at: the way *)
(* to a wide string and back keeps it and its length, and a wide string      *)
(* matches just the narrow strings it begins with.                           *)
THEOREM StringsSurvive ==
  \A s \in Narrow : LET w == wstrcpy(s, Len(s)) IN
    /\ wcslen(w) = Len(s) /\ strwcpy(w, Len(s)) = s /\ wprintk(w) = s
    /\ RtlInitUnicodeString(w).Length = Len(s)
    /\ \A t \in Seq(Char) : ~wstrcmp(w, t) <=> Begins(t, s)
<1> SUFFICES ASSUME NEW s \in Narrow, NEW w, w = wstrcpy(s, Len(s))
             PROVE  /\ wcslen(w) = Len(s) /\ strwcpy(w, Len(s)) = s /\ wprintk(w) = s
                    /\ RtlInitUnicodeString(w).Length = Len(s)
                    /\ \A t \in Seq(Char) : ~wstrcmp(w, t) <=> Begins(t, s)
  OBVIOUS
<1>1. Wide(w, s)
  BY WideOf DEF Narrow
<1>2. wcslen(w) = Len(s)
  BY <1>1, WideLength
<1>3. RtlInitUnicodeString(w).Length = Len(s)
  BY <1>2 DEF RtlInitUnicodeString
<1>4. strwcpy(w, Len(s)) = s /\ wprintk(w) = s
  BY <1>1, NarrowOf
<1>5. \A t \in Seq(Char) : ~wstrcmp(w, t) <=> Begins(t, s)
  BY <1>1, Compared DEF Narrow
<1>6. QED BY <1>2, <1>3, <1>4, <1>5

(* A copy with a limit takes over as many characters as asked for, or as the *)
(* source has, and ends there if zero was there.                             *)
THEOREM CopiesEnd ==
  ASSUME NEW s \in Narrow, NEW n \in Nat, NEW m \in Nat, Len(s) <= m
  PROVE  LET c == wcsncpy([j \in 0 .. 4 * m |-> 0], wstrcpy(s, Len(s)), n)
             l == IF n < Len(s) THEN n ELSE Len(s)
         IN  wcslen(c) = l /\ wprintk(c) = SubSeq(s, 1, l)
<1> DEFINE w == wstrcpy(s, Len(s))
           l == IF n < Len(s) THEN n ELSE Len(s)
           d == [j \in 0 .. 4 * m |-> 0]
           c == wcsncpy(d, w, n)
           t == SubSeq(s, 1, l)
<1>1. s \in Seq(Char) /\ Len(s) \in Nat /\ Len(s) <= MaxWide /\ MaxWide \in Nat /\ l \in Nat
      /\ l <= Len(s) /\ l <= m
  BY DEF Narrow, MaxWide
<1>2. Wide(w, s)
  BY <1>1, WideOf
<1>3. wcslen(w) = Len(s)
  BY <1>2, WideLength
<1>4. c = [j \in 0 .. 4 * m |-> IF j < 4 * (IF n > Len(s) THEN Len(s) ELSE n) THEN w[j] ELSE 0]
  BY <1>3 DEF wcsncpy
<1>5. (IF n > Len(s) THEN Len(s) ELSE n) = l
  BY <1>1
<1>6. c = [j \in 0 .. 4 * m |-> IF j < 4 * l THEN w[j] ELSE 0]
  BY <1>4, <1>5
<1>7. t \in Seq(Char) /\ Len(t) = l /\ \A i \in 1 .. l : t[i] = s[i]
  BY <1>1
<1> HIDE DEF w, l, d, c, t
<1>8. \A i \in 1 .. l : c[4 * (i - 1)] = t[i]
  <2> SUFFICES ASSUME NEW i \in 1 .. l PROVE c[4 * (i - 1)] = t[i]
    OBVIOUS
  <2>1. 4 * (i - 1) \in 0 .. 4 * m /\ 4 * (i - 1) < 4 * l /\ i \in 1 .. Len(s)
    BY <1>1
  <2>2. QED BY <2>1, <1>2, <1>6, <1>7 DEF Wide
<1>9. DOMAIN c = 0 .. 4 * m /\ 4 * l \in DOMAIN c /\ c[4 * l] = 0
  <2>1. 4 * l \in 0 .. 4 * m /\ ~(4 * l < 4 * l)
    BY <1>1
  <2>2. QED BY <2>1, <1>6
<1>10. wcslen(c) = l
  <2> DEFINE S == {k \in 0 .. MaxWide : k = MaxWide \/ (4 * k \in DOMAIN c /\ c[4 * k] = 0)}
  <2>1. l \in S
    BY <1>1, <1>9
  <2>2. ASSUME NEW k \in S PROVE l <= k
    <3> SUFFICES ASSUME k < l PROVE FALSE
      BY <1>1
    <3>1. k \in Nat /\ k + 1 \in 1 .. l /\ k # MaxWide /\ 4 * ((k + 1) - 1) = 4 * k
      BY <1>1, <2>2
    <3>2. c[4 * k] = t[k + 1] /\ t[k + 1] \in Char
      BY <3>1, <1>7, <1>8
    <3>3. QED BY <3>1, <3>2, <2>2 DEF Char
  <2>3. S \in SUBSET Nat
    BY <1>1
  <2>4. wcslen(c) = Smallest(S)
    BY DEF wcslen
  <2> HIDE DEF S
  <2>5. QED BY <2>1, <2>2, <2>3, <2>4, SmallestIs
<1>11. wprintk(c) = t
  <2>1. t = [i \in 1 .. l |-> t[i]]
    BY <1>7
  <2>2. strwcpy(c, l) = [i \in 1 .. l |-> c[4 * (i - 1)]]
    BY DEF strwcpy
  <2>3. strwcpy(c, l) = t
    BY <2>1, <2>2, <1>8
  <2>4. QED BY <1>10, <2>3 DEF wprintk
<1>12. QED BY <1>10, <1>11 DEF w, l, d, c, t

(* Whatever the paths and the tags are, and whatever is asked for: the answer *)
(* is the path of the first tag that the name begins with, and an error if    *)
(* there is none.                                                             *)
THEOREM FirstTagAnswers ==
  ASSUME NEW s \in Narrow, NEW paths \in Seq([tag : Seq(Char), path : Narrow])
  PROVE  LET r    == RegQueryValueEx(0, wstrcpy(s, Len(s)), paths)
             hits == {k \in DOMAIN paths : Begins(paths[k].tag, s)}
         IN  IF hits = {} THEN r.status # 0
             ELSE \E k \in hits : /\ \A l \in hits : k <= l
                                  /\ r.status = 0 /\ wprintk(r.data) = paths[k].path
<1> DEFINE w    == wstrcpy(s, Len(s))
           r    == RegQueryValueEx(0, w, paths)
           hits == {k \in DOMAIN paths : Begins(paths[k].tag, s)}
<1>1. s \in Seq(Char) /\ DOMAIN paths = 1 .. Len(paths) /\ Len(paths) \in Nat
  BY DEF Narrow
<1>2. ASSUME NEW k \in DOMAIN paths PROVE paths[k].tag \in Seq(Char) /\ paths[k].path \in Narrow
  <2> DEFINE Entry == [tag : Seq(Char), path : Narrow]
  <2>1. \A e \in Entry : e.tag \in Seq(Char) /\ e.path \in Narrow
    OBVIOUS
  <2>2. paths \in Seq(Entry) /\ k \in 1 .. Len(paths)
    BY <1>1
  <2> HIDE DEF Entry
  <2>3. paths[k] \in Entry
    BY <2>2
  <2>4. QED BY <2>1, <2>3
<1>3. Wide(w, s)
  BY <1>1, WideOf
<1> HIDE DEF w
<1>4. {k \in DOMAIN paths : ~wstrcmp(w, paths[k].tag)} = hits
  BY <1>1, <1>2, <1>3, Compared
<1>5. r = IF hits = {} THEN [status |-> 1, data |-> <<>>]
          ELSE [status |-> 0,
                data |-> wstrcpy(paths[Smallest(hits)].path, Len(paths[Smallest(hits)].path))]
  BY <1>4 DEF RegQueryValueEx
<1>6. CASE hits = {}
  <2>1. r.status = 1
    BY <1>5, <1>6
  <2>2. QED BY <1>6, <2>1 DEF w
<1>7. CASE hits # {}
  <2>1. hits \in SUBSET Nat
    BY <1>1
  <2> HIDE DEF r
  <2>2. hits \subseteq DOMAIN paths
    OBVIOUS
  <2> HIDE DEF hits
  <2>3. PICK k \in hits : \A l \in hits : k <= l
    BY <1>7, <2>1, Least
  <2>4. Smallest(hits) = k
    BY <2>1, <2>3, SmallestIs
  <2> DEFINE p == paths[k].path
  <2>5. p \in Narrow /\ p \in Seq(Char)
    BY <1>2, <2>2, <2>3 DEF Narrow
  <2>6. r = [status |-> 0, data |-> wstrcpy(p, Len(p))]
    BY <1>5, <1>7, <2>4
  <2>7. wprintk(wstrcpy(p, Len(p))) = p
    <3> HIDE DEF p
    <3>1. Wide(wstrcpy(p, Len(p)), p)
      BY <2>5, WideOf
    <3>2. QED BY <2>5, <3>1, NarrowOf
  <2>8. r.status = 0 /\ wprintk(r.data) = p
    BY <2>6, <2>7
  <2>9. QED BY <1>7, <2>3, <2>8 DEF hits, r, w
<1>8. QED BY <1>6, <1>7
================================================================================
