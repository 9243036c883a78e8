--------------------------- MODULE GreetingProofs ---------------------------
(***************************************************************************)
(* Proofs about the loop of main() and about split(), which finds the port *)
(* in it, for any order in any segments and for lines of any length over   *)
(* any alphabet.  Nothing but the words connects the two.  None of their   *)
(* loops goes on for ever.                                                 *)
(***************************************************************************)
EXTENDS Greeting, Split, CommonProofs

-----------------------------------------------------------------------------
(* Words.                                                                  *)

Longer(f, m, x) == [k \in 1 .. m + 1 |-> IF k = m + 1 THEN x ELSE f[k]]
Above(x, P) == x \in Int /\ \A y \in P : y < x

LEMMA ListedLonger ==
  ASSUME NEW m \in Nat, NEW f, NEW P, Listed(f, m, P), NEW x, Above(x, P),
         NEW g, g = Longer(f, m, x), NEW Q, Q = P \cup {x}
  PROVE  Listed(g, m + 1, Q) /\ g[m + 1] = x /\ \A k \in 1 .. m : g[k] = f[k]
<1>0. x \in Int /\ \A y \in P : y < x
  BY DEF Above
<1>1. \A k \in 1 .. m : f[k] \in Int /\ f[k] \in P
  BY DEF Listed
<1>2. g \in [1 .. m + 1 -> Int] /\ g[m + 1] = x /\ \A k \in 1 .. m : g[k] = f[k]
  BY <1>0, <1>1 DEF Longer
<1>3. \A k \in 1 .. m + 1 : k \in 1 .. m \/ k = m + 1
  OBVIOUS
<1>4. \A k \in 1 .. m : k \in 1 .. m + 1
  OBVIOUS
<1>5. m + 1 \in 1 .. m + 1
  OBVIOUS
<1>6. P \cup {x} = {g[k] : k \in 1 .. m + 1}
  <2>1. \A y : y \in P <=> \E k \in 1 .. m : y = f[k]
    BY DEF Listed
  <2>2. \A y : y \in P \cup {x} <=> \E k \in 1 .. m + 1 : y = g[k]
    BY <1>2, <1>3, <1>4, <1>5, <2>1, Zenon
  <2> QED BY <2>2, Zenon
<1>7. ASSUME NEW i \in 1 .. m + 1, NEW j \in 1 .. m + 1, i < j PROVE g[i] < g[j]
  <2>1. i \in 1 .. m /\ (j \in 1 .. m \/ j = m + 1)
    BY <1>7
  <2>2. CASE j \in 1 .. m
    BY <1>2, <1>7, <2>1, <2>2 DEF Listed
  <2>3. CASE j = m + 1
    BY <1>0, <1>1, <1>2, <2>1, <2>3
  <2> QED BY <2>1, <2>2, <2>3
<1> QED BY <1>2, <1>6, <1>7 DEF Listed

Grown(f, g, m, P, x) == /\ Listed(g, m + 1, P \cup {x})
                        /\ g[m + 1] = x /\ \A k \in 1 .. m : g[k] = f[k]

LEMMA ListedNext ==
  ASSUME NEW m \in Nat, NEW f, NEW P, Listed(f, m, P), NEW x, Above(x, P)
  PROVE  \E g : Grown(f, g, m, P, x)
  BY ListedLonger DEF Grown

(* Whoever has listed where words begin and where they end has the words.  *)
LEMMA WordsListed ==
  ASSUME NEW s, NEW sep, NEW m \in Nat, NEW b, NEW e,
         Listed(b, m, Begins(s, sep)), Listed(e, m, Ends(s, sep))
  PROVE  Words(s, sep) = [k \in 1 .. m |-> SubSeq(s, b[k], e[k])]
<1>1. /\ Cardinality(Begins(s, sep)) = m
      /\ \A k \in 1 .. m : Kth(Begins(s, sep), k) = b[k]
  BY ListedFacts
<1>2. \A k \in 1 .. m : Kth(Ends(s, sep), k) = e[k]
  BY ListedFacts
<1> QED BY <1>1, <1>2 DEF Words

-----------------------------------------------------------------------------
(* split().                                                                *)

SepsBelow(k) == {i \in 1 .. k - 1 : line[i] = Sep}
Seps(k) == Cardinality(SepsBelow(k))

(* The counting loop has counted what lies below tmp.                      *)
ScanInv == /\ count = Seps(tmp) /\ last < tmp
           /\ last > 0 => line[last] = Sep
           /\ \A i \in last + 1 .. tmp - 1 : line[i] # Sep
           /\ pos = 1 /\ result = <<>>

CountInv == /\ count = Seps(Len(line) + 1) + (IF TextAfterLast THEN 1 ELSE 0) + 1
            /\ TextAfterLast <=> Len(line) = 0 \/ line[Len(line)] # Sep

(* strtok() stands behind a word, on the separator that ends it, and has   *)
(* found at most one word more than it has passed separators.              *)
TokenInv == \/ pos = 1 /\ idx = 0
            \/ /\ pos > 1 /\ line[pos - 1] # Sep
               /\ pos <= Len(line) => line[pos] = Sep
               /\ idx <= Seps(pos) + 1

(* The words found are all that begin or end where strtok() has been.      *)
FoundAt(b, e) ==
  /\ Listed(b, idx, {i \in Begins(line, Sep) : i < pos})
  /\ Listed(e, idx, {i \in Ends(line, Sep) : i < pos})
  /\ result = [k \in 1 .. idx |-> SubSeq(line, b[k], e[k])]

FoundInv == \E b, e : FoundAt(b, e)

SplitInv == /\ line \in Seq(Chars) /\ SplitTypeOK
            /\ pc = "scan" => ScanInv
            /\ pc = "tokens" => TokenInv /\ CountInv /\ FoundInv
            /\ ReturnsWords

(* Counting separators.                                                    *)
LEMMA SepsType ==
  ASSUME NEW k \in Nat, k >= 1
  PROVE  IsFiniteSet(SepsBelow(k)) /\ Seps(k) \in 0 .. k - 1
<1>1. SepsBelow(k) \subseteq 1 .. k - 1
  BY DEF SepsBelow
<1>2. IsFiniteSet(1 .. k - 1) /\ Cardinality(1 .. k - 1) = k - 1
  BY FS_Interval
<1>3. IsFiniteSet(SepsBelow(k)) /\ Cardinality(SepsBelow(k)) <= k - 1
  BY <1>1, <1>2, FS_Subset
<1>4. Cardinality(SepsBelow(k)) \in Nat
  BY <1>3, FS_CardinalityType
<1> QED BY <1>3, <1>4 DEF Seps

LEMMA SepsStep ==
  ASSUME NEW k \in Nat, k >= 1
  PROVE  Seps(k + 1) = IF line[k] = Sep THEN Seps(k) + 1 ELSE Seps(k)
<1>1. CASE line[k] = Sep
  <2>1. SepsBelow(k + 1) = SepsBelow(k) \cup {k} /\ k \notin SepsBelow(k)
    BY <1>1 DEF SepsBelow
  <2> QED BY <1>1, <2>1, SepsType, FS_AddElement DEF Seps
<1>2. CASE line[k] # Sep
  <2>1. SepsBelow(k + 1) = SepsBelow(k)
    BY <1>2 DEF SepsBelow
  <2> QED BY <1>2, <2>1 DEF Seps
<1> QED BY <1>1, <1>2

LEMMA SepsPassed ==
  ASSUME NEW j \in Nat, NEW k \in Nat, 1 <= j, j < k, line[j] = Sep
  PROVE  Seps(j) + 1 <= Seps(k)
<1>1. SepsBelow(j + 1) \subseteq SepsBelow(k)
  BY DEF SepsBelow
<1>2. Seps(j + 1) <= Seps(k)
  BY <1>1, SepsType, FS_Subset DEF Seps
<1>3. Seps(j + 1) = Seps(j) + 1
  BY SepsStep
<1> QED BY <1>2, <1>3

-----------------------------------------------------------------------------
LEMMA SplitStarts ==
  ASSUME SplitInit
  PROVE  SplitInv
<1>1. line \in Seq(Chars) /\ Len(line) \in Nat /\ <<>> \in Seq(Seq(Chars))
  BY EmptySeq, LenProperties, LinesAssumption DEF SplitInit
<1>2. Seps(1) = 0
  BY SepsType
<1>3. SplitTypeOK
  BY <1>1 DEF SplitInit, SplitTypeOK
<1> QED BY <1>1, <1>2, <1>3 DEF SplitInit, SplitInv, ScanInv, ReturnsWords

LEMMA SplitScan ==
  ASSUME SplitInv, Scan
  PROVE  SplitInv'
<1> USE DEF Scan, SplitInv
<1>1. line \in Seq(Chars) /\ Len(line) \in Nat /\ tmp \in Nat /\ tmp >= 1 /\ last \in Nat
  BY LenProperties DEF SplitTypeOK
<1>2. Seps(tmp + 1) = IF line[tmp] = Sep THEN Seps(tmp) + 1 ELSE Seps(tmp)
  BY <1>1, SepsStep
<1>3. Seps(tmp + 1) \in 0 .. tmp
  BY <1>1, SepsType
<1>4. ScanInv'
  <2>1. count' = Seps(tmp + 1) /\ last' < tmp' /\ (last' > 0 => line[last'] = Sep)
    BY <1>1, <1>2 DEF ScanInv
  <2>2. Seps(tmp)' = Seps(tmp + 1)
    BY DEF Seps, SepsBelow
  <2>3. \A i \in last' + 1 .. tmp' - 1 : line[i] # Sep
    BY <1>1 DEF ScanInv
  <2> QED BY <2>1, <2>2, <2>3 DEF ScanInv
<1>5. SplitTypeOK'
  BY <1>1, <1>2, <1>3 DEF SplitTypeOK, ScanInv
<1> QED BY <1>1, <1>4, <1>5 DEF ReturnsWords

LEMMA SplitAllocate ==
  ASSUME SplitInv, Allocate
  PROVE  SplitInv'
<1> USE DEF Allocate, SplitInv
<1>1. /\ line \in Seq(Chars) /\ Len(line) \in Nat /\ tmp = Len(line) + 1 /\ last \in 0 .. Len(line)
      /\ result = <<>> /\ idx = 0 /\ pos = 1
  BY LenProperties, EmptySeq DEF SplitTypeOK, ScanInv, idx
<1>2. count = Seps(Len(line) + 1) /\ count \in 0 .. Len(line)
  BY <1>1, SepsType DEF ScanInv
<1>3. CountInv'
  <2>1. TextAfterLast <=> Len(line) = 0 \/ line[Len(line)] # Sep
    BY <1>1 DEF ScanInv, TextAfterLast
  <2>2. count' = Seps(Len(line) + 1) + (IF TextAfterLast THEN 1 ELSE 0) + 1
    BY <1>2
  <2>3. line' = line /\ TextAfterLast' = TextAfterLast /\ Seps(Len(line) + 1)' = Seps(Len(line) + 1)
    BY DEF TextAfterLast, Seps, SepsBelow
  <2> QED BY <2>1, <2>2, <2>3 DEF CountInv
<1>4. TokenInv'
  BY <1>1 DEF TokenInv, idx
<1>5. SplitTypeOK'
  BY <1>1, <1>2 DEF SplitTypeOK
<1>6. FoundInv'
  <2>1. \E f : Listed(f, 0, {})
    <3> DEFINE none == [k \in 1 .. 0 |-> 1]
    <3>1. none \in [1 .. 0 -> Int] /\ {} = {none[k] : k \in 1 .. 0}
      OBVIOUS
    <3>2. Listed(none, 0, {})
      <4> HIDE DEF none
      <4> QED BY <3>1 DEF Listed
    <3> QED BY <3>2
  <2>2. PICK f : Listed(f, 0, {})
    BY <2>1
  <2>3. /\ {i \in Begins(line, Sep) : i < 1} = {} /\ {i \in Ends(line, Sep) : i < 1} = {}
        /\ <<>> = [k \in 1 .. 0 |-> SubSeq(line, f[k], f[k])]
    BY <1>1, LenProperties DEF Begins, Ends
  <2>4. FoundAt(f, f)'
    BY <1>1, <2>2, <2>3 DEF FoundAt, idx
  <2> QED BY <2>4 DEF FoundInv
<1> QED BY <1>1, <1>3, <1>4, <1>5, <1>6 DEF ReturnsWords

LEMMA SplitStore ==
  ASSUME SplitInv, Store
  PROVE  SplitInv'
<1>0. \A k \in Nat : k >= 1 => Seps(k) \in Nat
  BY SepsType
<1>a. /\ pc = "tokens" /\ UNCHANGED <<pc, line, tmp, count, last>>
       /\ TokenInv /\ CountInv /\ FoundInv /\ SplitTypeOK /\ line \in Seq(Chars)
  BY DEF Store, SplitInv
<1>1. /\ line \in Seq(Chars) /\ Len(line) \in Nat /\ result \in Seq(Seq(Chars))
      /\ pos \in 1 .. Len(line) + 1
  BY <1>a, LenProperties DEF SplitTypeOK
<1>b. DOMAIN line = 1 .. Len(line)
  BY <1>1, LenProperties
<1>2. PICK first, end :
        /\ first \in 1 .. Len(line) /\ end \in 1 .. Len(line)
        /\ Token(first, end) /\ pos' = end + 1
        /\ result' = Append(result, SubSeq(line, first, end))
  BY DEF Store
<1>3. /\ first \in 1 .. Len(line) /\ end \in 1 .. Len(line)
      /\ pos <= first /\ first <= end /\ line[first] # Sep /\ line[end] # Sep
      /\ end < Len(line) => line[end + 1] = Sep
      /\ \A i \in pos .. first - 1 : line[i] = Sep
      /\ \A i \in first .. end : line[i] # Sep
  BY <1>2 DEF Token
<1>4. idx' = idx + 1 /\ idx \in Nat /\ SubSeq(line, first, end) \in Seq(Chars)
  BY <1>1, <1>2 DEF idx
<1>5. SplitTypeOK'
  BY <1>a, <1>1, <1>2, <1>4 DEF SplitTypeOK
<1>6. idx + 1 <= Seps(end + 1) + 1
  <2>1. end + 1 \in Nat /\ end + 1 >= 1 /\ pos \in Nat
    BY <1>1, <1>3
  <2>2. Seps(end + 1) \in Nat
    BY <1>0, <2>1
  <2>3. CASE idx = 0
    BY <1>4, <2>3, <2>2
  <2>4. CASE pos > 1 /\ line[pos] = Sep /\ idx <= Seps(pos) + 1 /\ pos < end + 1
    <3>1. Seps(pos) + 1 <= Seps(end + 1)
      BY <2>4, <2>1, SepsPassed
    <3>2. Seps(pos) \in Nat
      BY <1>0, <2>4, <2>1
    <3> QED BY <2>4, <2>2, <3>1, <3>2, <1>4
  <2> QED BY <1>a, <1>1, <1>2, <1>3, <2>3, <2>4 DEF TokenInv
<1>7. TokenInv'
  <2>1. line' = line /\ Seps(end + 1)' = Seps(end + 1)
    BY <1>a DEF Seps, SepsBelow
  <2>2. pos' > 1 /\ line'[pos' - 1] # Sep /\ (pos' <= Len(line') => line'[pos'] = Sep)
    BY <1>1, <1>2, <1>3, <2>1
  <2>3. Seps(pos)' = Seps(end + 1)
    BY <1>2, <2>1 DEF Seps, SepsBelow
  <2> QED BY <1>4, <1>6, <2>2, <2>3 DEF TokenInv
<1>8. CountInv'
  BY <1>a DEF CountInv, TextAfterLast, Seps, SepsBelow
<1>9. /\ {i \in Begins(line, Sep) : i < end + 1} = {i \in Begins(line, Sep) : i < pos} \cup {first}
      /\ {i \in Ends(line, Sep) : i < end + 1} = {i \in Ends(line, Sep) : i < pos} \cup {end}
  <2>1. first = 1 \/ line[first - 1] = Sep
    <3>1. CASE pos < first
      BY <1>1, <1>3, <3>1
    <3>2. CASE pos = first
      BY <1>a, <1>1, <1>3, <3>2 DEF TokenInv
    <3> QED BY <1>1, <1>3, <3>1, <3>2
  <2>2. ASSUME NEW i \in pos .. end
        PROVE  /\ i \in Begins(line, Sep) <=> i = first
               /\ i \in Ends(line, Sep) <=> i = end
    <3>0. i \in 1 .. Len(line) /\ i \in Nat
      BY <1>1, <1>3
    <3>b. i \in DOMAIN line
      BY <1>b, <3>0
    <3>1. CASE i < first
      <4>1. line[i] = Sep /\ i # first /\ i # end
        BY <1>1, <1>3, <3>0, <3>1
      <4> QED BY <4>1 DEF Begins, Ends
    <3>2. CASE i >= first
      <4>1. i \in Begins(line, Sep) <=> i = first
        <5>1. CASE i = first
          BY <1>3, <2>1, <3>b, <5>1 DEF Begins
        <5>2. CASE i > first
          <6>1. line[i - 1] # Sep /\ i # 1
            BY <1>1, <1>3, <3>0, <5>2
          <6> QED BY <3>0, <3>b, <5>2, <6>1 DEF Begins
        <5> QED BY <1>3, <3>0, <3>2, <5>1, <5>2
      <4>2. i \in Ends(line, Sep) <=> i = end
        <5>1. line[i] # Sep
          BY <1>3, <3>0, <3>2
        <5>2. CASE i = end
          <6>1. end = Len(line) \/ line[end + 1] = Sep
            BY <1>1, <1>3
          <6> QED BY <3>b, <5>1, <5>2, <6>1 DEF Ends
        <5>3. CASE i < end
          <6>1. i + 1 \in first .. end /\ i # Len(line)
            BY <1>1, <1>3, <3>0, <3>2, <5>3
          <6>2. line[i + 1] # Sep
            BY <1>3, <6>1
          <6> QED BY <3>b, <5>3, <6>1, <6>2 DEF Ends
        <5> QED BY <1>1, <1>3, <3>0, <5>2, <5>3
      <4> QED BY <4>1, <4>2
    <3> QED BY <1>1, <1>3, <3>0, <3>1, <3>2
  <2>3. \A i \in 1 .. Len(line) : (i < end + 1 <=> i < pos \/ i \in pos .. end)
    BY <1>1, <1>3
  <2>4. /\ first \in pos .. end /\ end \in pos .. end
        /\ Begins(line, Sep) \subseteq 1 .. Len(line) /\ Ends(line, Sep) \subseteq 1 .. Len(line)
        /\ \A i \in pos .. end : i < end + 1
    <3>1. Begins(line, Sep) \subseteq 1 .. Len(line) /\ Ends(line, Sep) \subseteq 1 .. Len(line)
      BY <1>b DEF Begins, Ends
    <3> QED BY <1>1, <1>3, <3>1
  <2> QED BY <2>2, <2>3, <2>4
<1>10. FoundInv'
  <2>1. PICK m \in Nat : m = idx
    BY <1>4
  <2> DEFINE begun == {i \in Begins(line, Sep) : i < pos}
             ended == {i \in Ends(line, Sep) : i < pos}
  <2>2. PICK b, e : FoundAt(b, e)
    BY <1>a DEF FoundInv
  <2>3. Listed(b, m, begun) /\ Listed(e, m, ended)
    BY <2>1, <2>2 DEF FoundAt
  <2>4. Above(first, begun) /\ Above(end, ended)
    <3>1. begun \subseteq Int /\ ended \subseteq Int
      BY <1>b DEF Begins, Ends
    <3> QED BY <1>1, <1>3, <3>1 DEF Above
  <2>5. {i \in Begins(line, Sep) : i < end + 1} = begun \cup {first}
    BY <1>9
  <2>6. {i \in Ends(line, Sep) : i < end + 1} = ended \cup {end}
    BY <1>9
  <2> HIDE DEF begun, ended
  <2>a. Listed(b, m, begun) /\ Above(first, begun) /\ Listed(e, m, ended) /\ Above(end, ended)
    BY <2>3, <2>4
  <2>b. PICK p : Grown(b, p, m, begun, first)
    BY <2>a, ListedNext
  <2>c. PICK q : Grown(e, q, m, ended, end)
    BY <2>a, ListedNext
  <2>7. /\ Listed(p, m + 1, begun \cup {first})
        /\ p[m + 1] = first /\ \A k \in 1 .. m : p[k] = b[k]
    BY <2>b DEF Grown
  <2>8. /\ Listed(q, m + 1, ended \cup {end})
        /\ q[m + 1] = end /\ \A k \in 1 .. m : q[k] = e[k]
    BY <2>c DEF Grown
  <2>9. result' = [k \in 1 .. m + 1 |-> SubSeq(line, p[k], q[k])]
    <3>1. Len(result) = m /\ result = [k \in 1 .. m |-> SubSeq(line, b[k], e[k])]
      BY <1>1, <2>1, <2>2 DEF FoundAt, idx
    <3>2. /\ result' \in Seq(Seq(Chars)) /\ Len(result') = m + 1
          /\ result'[m + 1] = SubSeq(line, first, end)
          /\ \A k \in 1 .. m : result'[k] = result[k]
      <4>1. /\ Append(result, SubSeq(line, first, end)) \in Seq(Seq(Chars))
            /\ Len(Append(result, SubSeq(line, first, end))) = Len(result) + 1
            /\ Append(result, SubSeq(line, first, end))[Len(result) + 1] = SubSeq(line, first, end)
            /\ \A k \in 1 .. Len(result) :
                 Append(result, SubSeq(line, first, end))[k] = result[k]
        <5> DEFINE piece == SubSeq(line, first, end)
        <5>1. result \in Seq(Seq(Chars)) /\ piece \in Seq(Chars)
          BY <1>1, <1>4
        <5> HIDE DEF piece
        <5>2. /\ Append(result, piece) \in Seq(Seq(Chars))
              /\ Len(Append(result, piece)) = Len(result) + 1
              /\ Append(result, piece)[Len(result) + 1] = piece
              /\ \A k \in 1 .. Len(result) : Append(result, piece)[k] = result[k]
          BY ONLY <5>1, AppendProperties
        <5> QED BY ONLY <5>2 DEF piece
      <4>2. Len(result) = m
        BY <3>1
      <4> QED BY <1>2, <4>1, <4>2, Zenon
    <3>3. \A k \in 1 .. m + 1 : result'[k] = SubSeq(line, p[k], q[k])
      <4> SUFFICES ASSUME NEW k \in 1 .. m + 1 PROVE result'[k] = SubSeq(line, p[k], q[k])
        OBVIOUS
      <4>1. CASE k \in 1 .. m
        <5>1. result[k] = SubSeq(line, b[k], e[k])
          BY <3>1, <4>1
        <5> QED BY <2>7, <2>8, <3>2, <4>1, <5>1
      <4>2. CASE k = m + 1
        BY <2>7, <2>8, <3>2, <4>2
      <4> QED BY <4>1, <4>2
    <3>4. result' = [k \in 1 .. m + 1 |-> result'[k]]
      BY <3>2, LenProperties
    <3> QED BY <3>3, <3>4
  <2>10. FoundAt(p, q)'
    <3>1. idx' = m + 1 /\ line' = line /\ pos' = end + 1
      BY <1>a, <1>2, <1>4, <2>1
    <3> QED BY <2>5, <2>6, <2>7, <2>8, <2>9, <3>1 DEF FoundAt
  <2> QED BY <2>10 DEF FoundInv
<1> QED BY <1>a, <1>1, <1>5, <1>7, <1>8, <1>10 DEF SplitInv, ReturnsWords

(* When strtok() finds no more, it has found all words, and as many as the *)
(* counting loop has expected unless a separator has no word before it.    *)
LEMMA SplitAgrees ==
  ASSUME SplitInv, pc = "tokens", NoToken
  PROVE  /\ result = Words(line, Sep)
         /\ idx = count - 1 <=> ~HasEmptyWord(line, Sep)
<1> DEFINE N == Len(line)
<1> USE DEF SplitInv
<1>1. /\ line \in Seq(Chars) /\ N \in Nat /\ DOMAIN line = 1 .. N /\ pos \in 1 .. N + 1
      /\ idx \in Nat /\ (line = <<>> <=> N = 0) /\ \A i \in pos .. N : line[i] = Sep
  BY LenProperties, EmptySeq DEF SplitTypeOK, NoToken, idx
<1>0. PICK m \in Nat : m = idx
  BY <1>1
<1>2. PICK b, e : FoundAt(b, e)
  BY DEF FoundInv
<1>3. Listed(b, m, Begins(line, Sep)) /\ Listed(e, m, Ends(line, Sep))
  <2>1. DOMAIN line = 1 .. N
    BY LenProperties
  <2>2. ASSUME NEW i \in 1 .. N, line[i] # Sep PROVE i < pos
    BY <1>1, <2>2
  <2>3. /\ {i \in Begins(line, Sep) : i < pos} = Begins(line, Sep)
        /\ {i \in Ends(line, Sep) : i < pos} = Ends(line, Sep)
    BY <2>1, <2>2 DEF Begins, Ends
  <2> QED BY <1>0, <1>2, <2>3 DEF FoundAt
<1>4. /\ result = Words(line, Sep)
      /\ IsFiniteSet(Ends(line, Sep)) /\ Cardinality(Ends(line, Sep)) = idx
  <2>1. Words(line, Sep) = [k \in 1 .. m |-> SubSeq(line, b[k], e[k])]
    BY <1>3, WordsListed
  <2>2. IsFiniteSet(Ends(line, Sep)) /\ Cardinality(Ends(line, Sep)) = m
    BY <1>3, ListedFacts
  <2> QED BY <1>0, <1>2, <2>1, <2>2 DEF FoundAt
<1> HIDE DEF N
<1> DEFINE inner == {i \in Ends(line, Sep) : i < N}
           after == {i + 1 : i \in inner}
<1>5. /\ IsFiniteSet(inner)
      /\ idx = Cardinality(inner) + (IF N > 0 /\ line[N] # Sep THEN 1 ELSE 0)
  <2>1. IsFiniteSet(inner)
    BY <1>4, FS_Subset
  <2>2. CASE N > 0 /\ line[N] # Sep
    <3>1. Ends(line, Sep) = inner \cup {N} /\ N \notin inner
      BY <1>1, <2>2 DEF Ends, N
    <3> QED BY <1>4, <2>1, <2>2, <3>1, FS_AddElement
  <2>3. CASE ~(N > 0 /\ line[N] # Sep)
    <3>1. Ends(line, Sep) = inner
      BY <1>1, <2>3 DEF Ends
    <3>2. idx = Cardinality(inner)
      BY <1>4, <3>1
    <3> QED BY <1>1, <2>1, <2>3, <3>2
  <2> QED BY <2>2, <2>3
<1>6. /\ after \subseteq SepsBelow(N + 1)
      /\ Cardinality(after) = Cardinality(inner)
  <2>1. after \subseteq SepsBelow(N + 1)
    BY <1>1 DEF Ends, SepsBelow, N
  <2> DEFINE f == [i \in inner |-> i + 1]
  <2>2. f \in [inner -> after] /\ (\A i, j \in inner : f[i] = f[j] => i = j)
        /\ \A y \in after : \E i \in inner : f[i] = y
    BY <1>1 DEF Ends, N
  <2>3. f \in Bijection(inner, after)
    <3> HIDE DEF f, inner, after
    <3> QED BY <2>2, Fun_IsBij
  <2>4. ExistsBijection(inner, after)
    BY <2>3 DEF ExistsBijection
  <2> HIDE DEF inner, after
  <2>5. Cardinality(after) = Cardinality(inner)
    BY <1>5, <2>4, FS_Bijection
  <2> QED BY <2>1, <2>5
<1>7. N > 0 => (after = SepsBelow(N + 1) <=> ~HasEmptyWord(line, Sep))
  <2> SUFFICES ASSUME N > 0 PROVE after = SepsBelow(N + 1) <=> ~HasEmptyWord(line, Sep)
    OBVIOUS
  <2>1. ASSUME NEW i \in SepsBelow(N + 1)
        PROVE  i \in after <=> ~(i = 1 \/ line[i - 1] = Sep)
    <3>1. i \in 1 .. N /\ line[i] = Sep
      BY <1>1 DEF SepsBelow
    <3>2. i \in after <=> i - 1 \in inner
      <4>1. inner \subseteq Int
        BY <1>1 DEF Ends, N
      <4> HIDE DEF inner
      <4> QED BY <1>1, <3>1, <4>1
    <3>3. i - 1 \in inner <=> i # 1 /\ line[i - 1] # Sep
      BY <1>1, <3>1 DEF Ends, N
    <3> QED BY <3>2, <3>3
  <2>2. HasEmptyWord(line, Sep) <=> \E i \in SepsBelow(N + 1) : i = 1 \/ line[i - 1] = Sep
    <3>1. SepsBelow(N + 1) = {i \in 1 .. N : line[i] = Sep}
      BY <1>1 DEF SepsBelow
    <3>2. DOMAIN line = 1 .. N /\ line # <<>>
      BY <1>1
    <3> QED BY <3>1, <3>2 DEF HasEmptyWord
  <2> HIDE DEF after
  <2> QED BY <1>6, <2>1, <2>2
<1>8. IsFiniteSet(SepsBelow(N + 1)) /\ Seps(N + 1) = Cardinality(SepsBelow(N + 1))
  BY <1>1, SepsType DEF Seps
<1>9. after = SepsBelow(N + 1) <=> Cardinality(inner) = Seps(N + 1)
  <2> HIDE DEF inner, after
  <2> QED BY <1>6, <1>8, FS_Subset
<1>10. /\ Cardinality(inner) \in Nat /\ Seps(N + 1) \in Nat
       /\ count - 1 = Seps(N + 1) + (IF N = 0 \/ line[N] # Sep THEN 1 ELSE 0)
  <2>1. Cardinality(inner) \in Nat /\ Seps(N + 1) \in Nat
    <3> HIDE DEF inner
    <3> QED BY <1>5, <1>8, FS_CardinalityType
  <2> QED BY <2>1 DEF CountInv, N
<1>11. CASE N > 0
  <2> HIDE DEF inner, after
  <2> QED BY <1>1, <1>4, <1>5, <1>7, <1>9, <1>10, <1>11
<1>12. CASE N = 0
  <2>1. HasEmptyWord(line, Sep)
    BY <1>1, <1>12 DEF HasEmptyWord
  <2>2. inner = {}
    BY <1>1, <1>12 DEF Ends, N
  <2>3. idx = 0
    BY <1>5, <1>12, <2>2, FS_EmptySet
  <2>4. Seps(N + 1) = 0
    BY <1>12, SepsType
  <2> QED BY <1>4, <1>10, <1>12, <2>1, <2>3, <2>4
<1> QED BY <1>1, <1>11, <1>12

LEMMA SplitEnds ==
  ASSUME SplitInv, Finish \/ Abort
  PROVE  SplitInv'
<1>1. /\ pc = "tokens" /\ NoToken /\ line' = line /\ result' = result
      /\ \/ pc' = "done" /\ idx = count - 1
         \/ pc' = "aborted" /\ idx # count - 1
      /\ UNCHANGED <<line, tmp, count, last, pos, result>>
  BY DEF Finish, Abort
<1>2. SplitTypeOK'
  BY <1>1 DEF SplitInv, SplitTypeOK
<1>3. ReturnsWords'
  <2>1. /\ result = Words(line, Sep)
        /\ idx = count - 1 <=> ~HasEmptyWord(line, Sep)
    BY <1>1, SplitAgrees
  <2> QED BY <1>1, <2>1 DEF ReturnsWords
<1> QED BY <1>1, <1>2, <1>3 DEF SplitInv

LEMMA SplitQuiet ==
  ASSUME SplitInv, UNCHANGED splitVars
  PROVE  SplitInv'
<1>1. UNCHANGED <<pc, line, tmp, count, last, pos, result>>
  BY DEF splitVars
<1>2. SplitTypeOK' /\ ReturnsWords'
  BY <1>1 DEF SplitInv, SplitTypeOK, ReturnsWords
<1>3. /\ ScanInv' = ScanInv /\ TokenInv' = TokenInv /\ CountInv' = CountInv
  BY <1>1 DEF ScanInv, TokenInv, CountInv, TextAfterLast, idx, Seps, SepsBelow
<1>4. FoundInv => FoundInv'
  <2> SUFFICES ASSUME FoundInv PROVE FoundInv'
    OBVIOUS
  <2>1. PICK b, e : FoundAt(b, e)
    BY DEF FoundInv
  <2>2. FoundAt(b, e)' /\ idx' = idx
    BY <1>1, <2>1 DEF FoundAt, idx
  <2> QED BY <2>2 DEF FoundInv
<1> QED BY <1>1, <1>2, <1>3, <1>4 DEF SplitInv

LEMMA SplitRoom == SplitInv => RoomForTerminator
<1> SUFFICES ASSUME SplitInv, pc = "tokens" PROVE idx < count
  BY DEF RoomForTerminator
<1> USE DEF SplitInv
<1>1. line \in Seq(Chars) /\ Len(line) \in Nat /\ idx \in Nat
  BY LenProperties DEF SplitTypeOK, idx
<1>2. Seps(Len(line) + 1) \in Nat
  BY <1>1, SepsType
<1>3. CASE idx = 0
  BY <1>1, <1>2, <1>3 DEF CountInv
<1>4. CASE pos > 1 /\ pos <= Len(line) /\ line[pos] = Sep /\ idx <= Seps(pos) + 1
  <2>1. Seps(pos) + 1 <= Seps(Len(line) + 1)
    BY <1>1, <1>4, SepsPassed DEF SplitTypeOK
  <2>2. Seps(pos) \in Nat
    BY <1>4, SepsType DEF SplitTypeOK
  <2> QED BY <1>1, <1>2, <1>4, <2>1, <2>2 DEF CountInv
<1>5. CASE pos = Len(line) + 1 /\ line[Len(line)] # Sep /\ idx <= Seps(pos) + 1
  BY <1>1, <1>2, <1>5 DEF CountInv
<1>6. pos \in Nat /\ (pos <= Len(line) \/ (pos = Len(line) + 1 /\ pos - 1 = Len(line)))
  BY <1>1 DEF SplitTypeOK
<1>7. \/ idx = 0
      \/ pos > 1 /\ line[pos - 1] # Sep /\ (pos <= Len(line) => line[pos] = Sep) /\ idx <= Seps(pos) + 1
  BY DEF TokenInv
<1> QED BY <1>3, <1>4, <1>5, <1>6, <1>7

-----------------------------------------------------------------------------
LEMMA SplitInvariance == SplitSpec => []SplitInv
<1>1. SplitInit => SplitInv
  BY SplitStarts
<1>2. SplitInv /\ [SplitNext]_splitVars => SplitInv'
  BY SplitScan, SplitAllocate, SplitStore, SplitEnds, SplitQuiet DEF SplitNext, Returned
<1> QED BY <1>1, <1>2, PTL DEF SplitSpec

(* The loops of split() stay inside the line and count at most its length. *)
THEOREM SplitTypeCorrect == SplitSpec => []SplitTypeOK
BY SplitInvariance, PTL DEF SplitInv

(* The array split() allocates holds every word and the null pointer.      *)
THEOREM ArrayLargeEnough == SplitSpec => []RoomForTerminator
BY SplitInvariance, SplitRoom, PTL

(* What split() returns are the words of the line, and its assertion fails *)
(* for lines with an empty word and for no others.                         *)
THEOREM SplitFindsWords == SplitSpec => []ReturnsWords
BY SplitInvariance, PTL DEF SplitInv

(* split() comes to an end on every line: what is left of it is the loop   *)
(* it is in, and how much of the line that loop has not seen.              *)
LoopsLeft == IF pc = "scan" THEN 2 ELSE IF pc = "tokens" THEN 1 ELSE 0
Unseen == Len(line) + 1 - (IF pc = "scan" THEN tmp ELSE pos)
SplitLeft == <<LoopsLeft, Unseen, 0>>
SplitNats == LoopsLeft \in Nat /\ Unseen \in Nat

LEMMA SplitNatsType == SplitInv => SplitNats
<1> SUFFICES ASSUME SplitInv PROVE SplitNats
  OBVIOUS
<1>1. Len(line) \in Nat /\ tmp \in 1 .. Len(line) + 1 /\ pos \in 1 .. Len(line) + 1
  BY LenProperties DEF SplitInv, SplitTypeOK
<1>2. Unseen \in Nat
  BY ONLY <1>1 DEF Unseen
<1>3. LoopsLeft \in Nat
  BY DEF LoopsLeft
<1> QED BY <1>2, <1>3 DEF SplitNats

LEMMA SplitLowers ==
  ASSUME SplitInv, SplitNext, ~ UNCHANGED splitVars
  PROVE  Lower(LoopsLeft', Unseen', 0, LoopsLeft, Unseen, 0)
<1>1. Len(line) \in Nat /\ tmp \in 1 .. Len(line) + 1 /\ pos \in 1 .. Len(line) + 1
  BY LenProperties DEF SplitInv, SplitTypeOK
<1>2. CASE Scan
  <2>1. pc = "scan" /\ pc' = pc /\ line' = line /\ tmp' = tmp + 1
    BY <1>2 DEF Scan
  <2>2. Unseen' < Unseen
    BY ONLY <1>1, <2>1 DEF Unseen
  <2>3. LoopsLeft' = LoopsLeft
    BY ONLY <2>1 DEF LoopsLeft
  <2> QED BY ONLY <2>2, <2>3 DEF Lower
<1>3. CASE Store
  <2>1. pc = "tokens" /\ pc' = pc /\ line' = line
    BY <1>3 DEF Store
  <2>2. PICK first \in 1 .. Len(line), end \in 1 .. Len(line) :
          pos <= first /\ first <= end /\ pos' = end + 1
    BY <1>3 DEF Store, Token
  <2>3. pos' \in Int /\ pos < pos'
    BY ONLY <1>1, <2>2
  <2>4. Unseen' < Unseen
    BY ONLY <1>1, <2>1, <2>3 DEF Unseen
  <2>5. LoopsLeft' = LoopsLeft
    BY ONLY <2>1 DEF LoopsLeft
  <2> QED BY ONLY <2>4, <2>5 DEF Lower
<1>4. CASE Allocate
  <2>1. pc = "scan" /\ pc' \in {"tokens", "null"}
    BY <1>4 DEF Allocate
  <2>2. LoopsLeft' < LoopsLeft
    BY ONLY <2>1 DEF LoopsLeft
  <2> QED BY ONLY <2>2 DEF Lower
<1>5. CASE Finish \/ Abort
  <2>1. pc = "tokens" /\ pc' \in {"done", "aborted"}
    BY <1>5 DEF Finish, Abort
  <2>2. LoopsLeft' < LoopsLeft
    BY ONLY <2>1 DEF LoopsLeft
  <2> QED BY ONLY <2>2 DEF Lower
<1>6. ~Returned
  BY DEF Returned
<1> QED BY <1>2, <1>3, <1>4, <1>5, <1>6 DEF SplitNext

(* Neither loop of split() goes on for ever: strtok() passes over at least *)
(* one character for every word, however words and separators lie.         *)
THEOREM SplitRunsOut ==
  IsWellFoundedOn(Down, Tally) /\ (SplitSpec => [][(<<SplitLeft', SplitLeft>> \in Down)]_splitVars)
<1>1. SplitInv /\ SplitNats /\ SplitNats' /\ [SplitNext]_splitVars
        => [(<<SplitLeft', SplitLeft>> \in Down)]_splitVars
  <2> SUFFICES ASSUME SplitInv, SplitNats, SplitNats', SplitNext, ~ UNCHANGED splitVars
               PROVE  <<SplitLeft', SplitLeft>> \in Down
    OBVIOUS
  <2>1. Lower(LoopsLeft', Unseen', 0, LoopsLeft, Unseen, 0)
    BY SplitLowers
  <2>2. /\ LoopsLeft \in Nat /\ Unseen \in Nat /\ 0 \in Nat
        /\ LoopsLeft' \in Nat /\ Unseen' \in Nat
    BY DEF SplitNats
  <2>3. << <<LoopsLeft', Unseen', 0>>, <<LoopsLeft, Unseen, 0>> >> \in Down
    BY ONLY <2>1, <2>2, GoesDown
  <2> QED BY <2>3, Zenon DEF SplitLeft
<1>2. SplitSpec => [][(<<SplitLeft', SplitLeft>> \in Down)]_splitVars
  BY <1>1, SplitNatsType, SplitInvariance, PTL DEF SplitSpec
<1> QED BY <1>2, DownEnds

-----------------------------------------------------------------------------
(* The loop of main().                                                     *)

Text == Seq(Word) \ {<<>>}

(* How far each side is while UNIX_TL waits.  An order of fewer than three *)
(* segments never reaches the round that starts the server.                *)
Said(round) == IF round = 0 THEN <<>>
               ELSE IF round = 1 THEN <<"HELLO">> ELSE <<"HELLO", "login">>
PhaseInv ==
  start = 0 =>
    /\ peer \in {"new", "waitHello", "waitLogin"} =>
         main = "read" /\ server = "none" /\ said = Said(reads)
    /\ peer = "new" => heard = 0 /\ reads = 0 /\ stream = <<>>
    /\ peer = "waitHello" =>
         heard = 0 /\ ((reads = 0 /\ stream = <<Hello>>) \/ (reads = 1 /\ stream = <<>>))
    /\ peer = "waitLogin" =>
         heard = 1 /\ ((reads = 1 /\ stream = <<Please>>) \/ (reads = 2 /\ stream = <<>>))
    /\ peer = "waitService" =>
         /\ said = Said(2) /\ heard = 2 /\ reads >= 2
         /\ reads + Len(stream) = Len(order) + 2
         /\ main = "read" /\ reads > 4 => server # "none"

LongOrders == \A o \in Orders : Len(o) >= 3

-----------------------------------------------------------------------------
(* Sequences of texts.                                                     *)

LEMMA LineIsText ==
  ASSUME NEW words \in Seq(Word), words # <<>>
  PROVE  Line(words) \in Text
<1> DEFINE k == Len(words)
<1>1. k \in Nat \ {0} /\ \A i \in 1 .. k : words[i] \in Word
  BY LenProperties, ElementOfSeq, EmptySeq
<1> HIDE DEF k
<1>2. \A i \in 1 .. 2 * k : (i + 1) \div 2 \in 1 .. k \/ i % 2 # 1
  BY <1>1
<1> DEFINE at(i) == IF i % 2 = 1 THEN words[(i + 1) \div 2]
                    ELSE IF i = 2 * k THEN "nl" ELSE "sp"
<1>3. Line(words) = [i \in 1 .. 2 * k |-> at(i)]
  BY DEF Line, k
<1>4. ASSUME NEW i \in 1 .. 2 * k PROVE at(i) \in Word
  <2>1. CASE i % 2 = 1
    <3>1. (i + 1) \div 2 \in 1 .. k
      BY <1>2, <2>1
    <3> QED BY <1>1, <2>1, <3>1
  <2>2. CASE i % 2 # 1
    BY <2>2 DEF Word
  <2> QED BY <2>1, <2>2
<1> HIDE DEF at
<1>5. Line(words) \in [1 .. 2 * k -> Word]
  BY <1>3, <1>4
<1>6. 2 * k \in Nat \ {0}
  BY <1>1
<1>7. Line(words) \in Seq(Word) /\ Len(Line(words)) = 2 * k
  BY <1>5, <1>6, SeqDef, LenProperties
<1> QED BY <1>6, <1>7, EmptySeq DEF Text

LEMMA TextFacts == Hello \in Text /\ Please \in Text /\ Complaint \in Seq(Text)
<1>0. \A w, x \in Word : /\ <<w, w, w, w, w>> \in Seq(Word)
                         /\ <<w, w, w, w, w, w>> \in Seq(Word)
                         /\ <<w, x, w, w, w, w, w, w, w, w>> \in Seq(Word)
                         /\ <<w, x, w, w, w, w, w>> \in Seq(Word)
  OBVIOUS
<1>1. /\ <<"w", "w", "w", "w", "w">> \in Seq(Word)
      /\ <<"w", "w", "w", "w", "w", "w">> \in Seq(Word)
      /\ <<"w", "310", "w", "w", "w", "w", "w", "w", "w", "w">> \in Seq(Word)
      /\ <<"w", "209", "w", "w", "w", "w", "w">> \in Seq(Word)
  <2>1. "w" \in Word /\ "310" \in Word /\ "209" \in Word
    BY DEF Word, Numbers
  <2> QED BY <1>0, <2>1
<1>2. Hello \in Text
  BY <1>1, LineIsText DEF Hello
<1>3. Please \in Text
  BY <1>1, LineIsText DEF Please
<1>4. /\ Line(<<"w", "310", "w", "w", "w", "w", "w", "w", "w", "w">>) \in Text
      /\ Line(<<"w", "209", "w", "w", "w", "w", "w">>) \in Text
  BY <1>1, LineIsText
<1>5. Complaint \in Seq(Text)
  BY <1>4 DEF Complaint
<1> QED BY <1>2, <1>3, <1>5

LEMMA PortFacts ==
  ASSUME TypeOK, NEW text
  PROVE  PortsIn(text) \subseteq Numbers \cup {"0", "none", "junk"}
<1>1. \A word : Atol(word) \in Numbers \cup {"0"}
  BY DEF Atol
<1>2. reads \in Nat
  BY DEF TypeOK
<1>3. CASE reads = 0
  BY <1>3 DEF PortsIn
<1>4. CASE reads > 0 /\ HasEmptyWord(text, "sp")
  BY <1>2, <1>4 DEF PortsIn
<1>5. CASE reads > 0 /\ ~HasEmptyWord(text, "sp")
  <2>1. \/ PortsIn(text) = {Atol(Words(text, "sp")[12])}
        \/ PortsIn(text) = {"none"} \/ PortsIn(text) = {"none", "junk"}
    BY <1>2, <1>5 DEF PortsIn
  <2> QED BY <1>1, <2>1
<1> QED BY <1>2, <1>3, <1>4, <1>5

-----------------------------------------------------------------------------
(* Type correctness.                                                       *)

LEMMA TypeInit == Init => TypeOK
<1>1. <<>> \in Seq(Text) /\ <<>> \in Seq({"HELLO", "login"}) /\ Len(<<>>) = 0
  BY EmptySeq
<1> QED BY <1>1 DEF Init, TypeOK, Text, Waiting

LEMMA TypePeer ==
  ASSUME TypeOK, PeerStep
  PROVE  TypeOK'
<1> USE DEF Waiting, serverVars, peerVars
<1>1. /\ stream \in Seq(Text) /\ order \in Seq(Text)
      /\ Len(said) \in Nat /\ heard \in 0 .. Len(said)
  BY OrdersAssumption, LenProperties DEF TypeOK, Text
<1>2. /\ stream' \in Seq(Text) /\ heard' \in 0 .. Len(said)
      /\ peer' \in Waiting \cup {"new", "called", "closing", "closed"}
  <2>1. CASE Greet
    BY <1>1, <2>1, TextFacts, AppendProperties DEF Greet
  <2>2. CASE HearRight
    <3>1. Append(stream, Please) \in Seq(Text) /\ stream \o order \in Seq(Text)
      BY <1>1, TextFacts, AppendProperties, ConcatProperties
    <3>2. heard' \in 0 .. Len(said)
      BY <1>1, <2>2 DEF HearRight
    <3>3. stream' \in Seq(Text) /\ peer' \in Waiting
      BY <2>2, <3>1 DEF HearRight
    <3> QED BY <3>2, <3>3
  <2>3. CASE Complain
    <3>1. stream \o Complaint \in Seq(Text)
      BY <1>1, TextFacts, ConcatProperties
    <3> QED BY <1>1, <2>3, <3>1 DEF Complain
  <2>4. CASE CallService \/ Close
    BY <1>1, <2>4 DEF CallService, Close
  <2> QED BY <2>1, <2>2, <2>3, <2>4 DEF PeerStep
<1>3. UNCHANGED <<order, said, start, reads, main, server, port>>
  BY DEF PeerStep, Greet, HearRight, Complain, CallService, Close
<1> QED BY <1>2, <1>3 DEF TypeOK, Text

(* What one round of the loop leaves.                                      *)
LEMMA ReadFacts ==
  ASSUME TypeOK, NEW round, Read(round)
  PROVE  /\ UNCHANGED <<peer, order, heard, start>> /\ main = "read"
         /\ stream' \in Seq(Text) /\ reads' = reads + 1 /\ reads' \in Nat
         /\ stream # <<>> /\ Len(stream') = Len(stream) - 1
<1>1. stream \in Seq(Text) /\ stream # <<>> /\ reads \in Nat
  BY DEF Read, TypeOK, Text
<1> QED BY <1>1, HeadTailProperties DEF Read, peerVars

LEMMA ReplyFacts ==
  ASSUME TypeOK, NEW m \in {"HELLO", "login"}, Reply(m)
  PROVE  /\ said' \in Seq({"HELLO", "login"}) /\ heard \in 0 .. Len(said')
         /\ main' \in {main, "ended"}
         /\ peer # "closed" => said' = Append(said, m) /\ main' = main
<1>1. said \in Seq({"HELLO", "login"}) /\ Len(said) \in Nat /\ heard \in 0 .. Len(said)
  BY LenProperties DEF TypeOK
<1>2. /\ Append(said, m) \in Seq({"HELLO", "login"})
      /\ Len(Append(said, m)) = Len(said) + 1
  BY <1>1, AppendProperties
<1>3. heard \in 0 .. Len(Append(said, m))
  BY <1>1, <1>2
<1> QED BY <1>1, <1>2, <1>3 DEF Reply

LEMMA TypeMain ==
  ASSUME TypeOK, MainStep \/ Listen
  PROVE  TypeOK'
<1> USE DEF TypeOK, serverVars, peerVars
<1>1. CASE SayHello
  BY <1>1, ReadFacts, ReplyFacts DEF SayHello, Text
<1>2. CASE SayLogin
  BY <1>2, ReadFacts, ReplyFacts DEF SayLogin, Text
<1>3. CASE StartServer
  <2>1. /\ UNCHANGED <<peer, order, heard, start, said>>
        /\ stream' \in Seq(Text) /\ reads' \in Nat
    BY <1>3, ReadFacts DEF StartServer
  <2>2. CASE \E p \in PortsIn(stream[1]) \ {"none"} :
               port' = p /\ server' = "starting" /\ UNCHANGED main
    <3>1. port' \in Numbers \cup {"0", "junk"}
      BY <2>2, PortFacts
    <3>2. port' # "unset"
      BY <3>1 DEF Numbers
    <3> QED BY <2>1, <2>2, <3>1, <3>2 DEF Text
  <2>3. CASE main' = "ended" /\ UNCHANGED serverVars
    BY <2>1, <2>3 DEF Text
  <2> QED BY <1>3, <2>2, <2>3 DEF StartServer
<1>4. CASE ReadOn
  BY <1>4, ReadFacts DEF ReadOn, Text
<1>5. CASE LeaveLoop
  BY <1>5 DEF LeaveLoop
<1>6. CASE Listen
  BY <1>6 DEF Listen
<1> QED BY <1>1, <1>2, <1>3, <1>4, <1>5, <1>6 DEF MainStep

LEMMA TypeStep ==
  ASSUME TypeOK, [Next]_vars
  PROVE  TypeOK'
<1>1. CASE UNCHANGED vars
  BY <1>1 DEF vars, peerVars, serverVars, TypeOK
<1> QED BY <1>1, TypePeer, TypeMain DEF Next, Over

(* Whatever UNIX_TL orders and however it arrives, main has a port, read   *)
(* or made up, exactly when it has a server.                               *)
THEOREM TypeCorrect == Spec => []TypeOK
<1> QED BY TypeInit, TypeStep, PTL DEF Spec

-----------------------------------------------------------------------------
(* The phases.                                                             *)

LEMMA PhaseInit == Init => PhaseInv
BY DEF Init, PhaseInv, Said

LEMMA PhasePeer ==
  ASSUME TypeOK, PhaseInv, PeerStep
  PROVE  PhaseInv'
<1> USE DEF serverVars
<1>0. SUFFICES ASSUME start = 0 PROVE PhaseInv'
  BY DEF PhaseInv, PeerStep, Greet, HearRight, Complain, CallService, Close
<1>1. CASE Greet
  <2>1. stream' = <<Hello>>
    <3>1. stream = <<>> /\ stream' = Append(stream, Hello)
      BY <1>0, <1>1 DEF Greet, PhaseInv
    <3> QED BY <3>1
  <2> QED BY <1>0, <1>1, <2>1 DEF Greet, PhaseInv
<1>2. CASE HearRight /\ peer = "waitHello"
  <2>1. reads = 1 /\ stream = <<>>
    BY <1>0, <1>2, EmptySeq DEF HearRight, PhaseInv, Said
  <2>2. stream' = <<Please>>
    <3>1. stream' = Append(stream, Please)
      BY <1>2 DEF HearRight
    <3> QED BY <2>1, <3>1
  <2> QED BY <1>0, <1>2, <2>1, <2>2 DEF HearRight, PhaseInv
<1>3. CASE HearRight /\ peer = "waitLogin"
  <2>1. reads = 2 /\ stream = <<>>
    BY <1>0, <1>3 DEF HearRight, PhaseInv, Said
  <2>2. stream' = order /\ order \in Seq(Text)
    BY <1>3, <2>1, OrdersAssumption, ConcatEmptySeq DEF HearRight, TypeOK, Text
  <2>3. Len(stream') = Len(order) /\ Len(order) \in Nat /\ order' = order
    BY <1>3, <2>2, LenProperties DEF HearRight
  <2> QED BY <1>0, <1>3, <2>1, <2>3 DEF HearRight, PhaseInv
<1>4. CASE Complain \/ CallService \/ Close
  BY <1>4 DEF Complain, CallService, Close, PhaseInv
<1> QED BY <1>1, <1>2, <1>3, <1>4 DEF PeerStep, HearRight

LEMMA PhaseMain ==
  ASSUME TypeOK, PhaseInv, MainStep \/ Listen
  PROVE  PhaseInv'
<1> USE DEF serverVars, peerVars
<1>0. SUFFICES ASSUME start = 0 PROVE PhaseInv'
  BY DEF PhaseInv, MainStep, SayHello, SayLogin, StartServer, ReadOn, LeaveLoop, Listen, Read
<1>1. n = reads /\ reads \in Nat
  BY <1>0 DEF n, TypeOK
<1>2. Len(stream) \in Nat /\ Len(order) \in Nat
  BY OrdersAssumption, LenProperties DEF TypeOK
<1>3. CASE peer \in {"called", "closing", "closed"}
  BY <1>3, ReadFacts DEF PhaseInv, MainStep, SayHello, SayLogin, StartServer, ReadOn,
     LeaveLoop, Listen
<1>4. CASE peer = "new"
  BY <1>0, <1>4 DEF PhaseInv, MainStep, SayHello, SayLogin, StartServer, ReadOn,
     LeaveLoop, Listen, Read
<1>5. CASE peer \in {"waitHello", "waitLogin"}
  <2>1. ~Listen /\ ~LeaveLoop /\ stream # <<>>
    BY <1>0, <1>5 DEF PhaseInv, MainStep, SayHello, SayLogin, StartServer, ReadOn, Read,
       Listen, LeaveLoop
  <2>2. (reads = 0 /\ peer = "waitHello") \/ (reads = 1 /\ peer = "waitLogin")
    BY <1>0, <1>5, <2>1 DEF PhaseInv
  <2>3. Tail(stream) = <<>>
    <3>1. \A x : Tail(<<x>>) = <<>>
      OBVIOUS
    <3>2. stream = <<Hello>> \/ stream = <<Please>>
      BY <1>0, <1>5, <2>1 DEF PhaseInv
    <3> QED BY <3>1, <3>2
  <2>4. CASE SayHello
    <3>0. /\ reads = 0 /\ stream' = Tail(stream) /\ reads' = reads + 1
          /\ said = Said(0) /\ Reply("HELLO") /\ peer # "closed"
      BY <1>0, <1>1, <1>5, <2>2, <2>4 DEF SayHello, Read, PhaseInv
    <3>1. reads = 0 /\ reads' = 1 /\ stream' = <<>> /\ said' = <<"HELLO">>
      BY <2>3, <3>0, ReplyFacts DEF Said
    <3> QED BY <1>0, <1>5, <2>2, <2>4, <3>1, ReplyFacts DEF SayHello, Read, PhaseInv, Said
  <2>5. CASE SayLogin
    <3>0. /\ reads = 1 /\ stream' = Tail(stream) /\ reads' = reads + 1
          /\ said = Said(1) /\ Reply("login") /\ peer # "closed"
      BY <1>0, <1>1, <1>5, <2>2, <2>5 DEF SayLogin, Read, PhaseInv
    <3>1. reads = 1 /\ reads' = 2 /\ stream' = <<>> /\ said' = <<"HELLO", "login">>
      BY <2>3, <3>0, ReplyFacts DEF Said
    <3> QED BY <1>0, <1>5, <2>2, <2>5, <3>1, ReplyFacts DEF SayLogin, Read, PhaseInv, Said
  <2>6. ~StartServer /\ ~ReadOn
    BY <1>1, <2>2 DEF StartServer, ReadOn, Read
  <2> QED BY <2>1, <2>4, <2>5, <2>6 DEF MainStep
<1>6. CASE peer = "waitService"
  <2>1. /\ said = Said(2) /\ heard = 2 /\ reads >= 2
        /\ reads + Len(stream) = Len(order) + 2
        /\ main = "read" /\ reads > 4 => server # "none"
    BY <1>0, <1>6 DEF PhaseInv
  <2>2. CASE StartServer \/ ReadOn
    <3>1. /\ UNCHANGED <<peer, order, heard, start, said>>
          /\ reads' = reads + 1 /\ Len(stream') = Len(stream) - 1
      BY <2>2, ReadFacts DEF StartServer, ReadOn
    <3>2. main' = "read" /\ reads' > 4 => server' # "none"
      <4>1. CASE StartServer
        BY <4>1 DEF StartServer
      <4>2. CASE ReadOn
        <5>1. reads # 4 /\ main = "read" /\ server' = server
          BY <1>1, <4>2 DEF ReadOn, Read
        <5> QED BY <1>1, <2>1, <3>1, <5>1
      <4> QED BY <2>2, <4>1, <4>2
    <3>3. reads' + Len(stream') = Len(order') + 2 /\ reads' >= 2
      BY <1>1, <1>2, <2>1, <3>1
    <3> QED BY <1>6, <2>1, <3>1, <3>2, <3>3 DEF PhaseInv
  <2>3. CASE Listen
    BY <1>0, <1>6, <2>1, <2>3 DEF Listen, PhaseInv
  <2>4. ~SayHello /\ ~SayLogin /\ ~LeaveLoop
    BY <1>1, <1>6, <2>1 DEF SayHello, SayLogin, Read, LeaveLoop
  <2> QED BY <2>2, <2>3, <2>4 DEF MainStep
<1> QED BY <1>3, <1>4, <1>5, <1>6 DEF TypeOK, Waiting

LEMMA PhaseStep ==
  ASSUME TypeOK, PhaseInv, [Next]_vars
  PROVE  PhaseInv'
<1>1. CASE UNCHANGED vars
  BY <1>1 DEF vars, peerVars, serverVars, PhaseInv
<1> QED BY <1>1, PhasePeer, PhaseMain DEF Next, Over

LEMMA Phases == Spec => [](TypeOK /\ PhaseInv)
<1>1. Init => TypeOK /\ PhaseInv
  BY TypeInit, PhaseInit
<1>2. TypeOK /\ PhaseInv /\ [Next]_vars => (TypeOK /\ PhaseInv)'
  BY TypeStep, PhaseStep
<1> QED BY <1>1, <1>2, PTL DEF Spec

(* Whatever the order, a reply that UNIX_TL reads while it waits is the    *)
(* one it asked for, if n is zero at first.                                *)
THEOREM AnswersRight == Spec => []AnswerRight
<1>1. TypeOK /\ PhaseInv => AnswerRight
  BY DEF PhaseInv, AnswerRight, Expected, Said
<1> QED BY <1>1, Phases, PTL

(* If n is zero at first and the order comes in three segments or more,    *)
(* UNIX_TL and main do not wait for each other.                            *)
THEOREM NobodyWaits == LongOrders => (Spec => []NoMutualWait)
<1> SUFFICES ASSUME LongOrders PROVE Spec => []NoMutualWait
  OBVIOUS
<1>1. TypeOK /\ PhaseInv => NoMutualWait
  <2> SUFFICES ASSUME TypeOK, PhaseInv, start = 0, peer \in Waiting, heard = Len(said),
                      main = "read", stream = <<>>
               PROVE  server # "none"
    BY DEF NoMutualWait
  <2>1. peer \notin {"waitHello", "waitLogin"}
    BY DEF PhaseInv, Said
  <2>2. /\ reads + Len(stream) = Len(order) + 2 /\ Len(stream) = 0
        /\ Len(order) >= 3 /\ Len(order) \in Nat /\ reads \in Nat
    BY <2>1, OrdersAssumption, LenProperties, EmptySeq DEF PhaseInv, Waiting, TypeOK, LongOrders
  <2>3. reads > 4
    BY <2>2
  <2> QED BY <2>1, <2>3 DEF PhaseInv, Waiting
<1> QED BY <1>1, Phases, PTL

-----------------------------------------------------------------------------
(* The port.                                                               *)

(* What UNIX_TL says behind the login: the order, and its complaint if it  *)
(* gives up then.  The third of these texts is the fifth of all.           *)
Told == order \o Complaint

(* If n is zero: behind the greeting UNIX_TL has given up before the order *)
(* and main will not read a fifth text; or main reads what it was told.    *)
Unread == /\ reads >= 2
          /\ \A i \in 1 .. Len(stream) : stream[i] = Told[reads - 2 + i]
NamedInv ==
  start = 0 /\ peer \notin {"new", "waitHello", "waitLogin"} =>
    \/ peer \in {"closing", "closed"} /\ server = "none" /\ reads + Len(stream) <= 4
    \/ Unread /\ (server # "none" => port = Twelfth(Told[3]))

(* If n is not zero: UNIX_TL never hears a HELLO, and says three things at *)
(* most, of which the server may be made for the first or the complaint.   *)
Others == <<Hello, Complaint[1], Complaint[2]>>
OtherInv ==
  start # 0 =>
    /\ peer \in {"new", "waitHello", "closing", "closed"}
    /\ peer = "new" => stream = <<>> /\ reads = 0 /\ said = <<>>
    /\ peer = "waitHello" =>
         reads + Len(stream) = 1 /\ \A i \in 1 .. Len(said) : said[i] = "login"
    /\ reads + Len(stream) <= 3
    /\ \A i \in 1 .. Len(stream) : stream[i] = Others[reads + i]
    /\ server # "none" => start \in 2 .. 4 /\ port = "junk"

(* Two texts behind others.                                                *)
LEMMA TwoMore ==
  ASSUME NEW a \in Seq(Text), NEW b \in Seq(Text), Len(b) = 2
  PROVE  /\ Len(a \o b) = Len(a) + 2
         /\ \A i \in 1 .. Len(a) : (a \o b)[i] = a[i]
         /\ \A i \in 1 .. 2 : (a \o b)[Len(a) + i] = b[i]
<1>1. Len(a) \in Nat
  BY LenProperties
<1>2. /\ Len(a \o b) = Len(a) + Len(b)
      /\ \A i \in 1 .. Len(a) + Len(b) :
           (a \o b)[i] = IF i <= Len(a) THEN a[i] ELSE b[i - Len(a)]
  BY ConcatProperties
<1>3. ASSUME NEW i \in 1 .. 2 PROVE (a \o b)[Len(a) + i] = b[i]
  <2>1. /\ Len(a) + i \in 1 .. Len(a) + Len(b) /\ ~(Len(a) + i <= Len(a))
        /\ (Len(a) + i) - Len(a) = i
    BY <1>1, <1>3
  <2> QED BY ONLY <1>2, <2>1
<1>4. ASSUME NEW i \in 1 .. Len(a) PROVE (a \o b)[i] = a[i]
  <2>1. i \in 1 .. Len(a) + Len(b) /\ i <= Len(a)
    BY <1>1, <1>4
  <2> QED BY ONLY <1>2, <2>1
<1> QED BY <1>2, <1>3, <1>4

(* The words of a line are those it was made of.                           *)
LEMMA LineWords ==
  ASSUME NEW words \in Seq(Word), words # <<>>, \A i \in DOMAIN words : words[i] # "sp"
  PROVE  Len(Words(Line(words), "sp")) = Len(words)
<1> DEFINE k == Len(words)
           made == Line(words)
           at == [i \in 1 .. k |-> 2 * i - 1]
<1>1. k \in Nat \ {0} /\ \A i \in 1 .. k : words[i] # "sp"
  BY LenProperties, EmptySeq
<1> HIDE DEF k
<1>2. made = [i \in 1 .. 2 * k |-> IF i % 2 = 1 THEN words[(i + 1) \div 2]
                                   ELSE IF i = 2 * k THEN "nl" ELSE "sp"]
  BY DEF Line, k
<1> HIDE DEF made
<1>3. ASSUME NEW i \in Begins(made, "sp") PROVE \E j \in 1 .. k : i = at[j]
  <2>1. i \in 1 .. 2 * k /\ made[i] # "sp" /\ (i = 1 \/ made[i - 1] = "sp")
    BY <1>2 DEF Begins
  <2>2. CASE i % 2 = 1
    <3>1. (i + 1) \div 2 \in 1 .. k /\ i = 2 * ((i + 1) \div 2) - 1
      BY ONLY <1>1, <2>1, <2>2
    <3> QED BY <3>1
  <2>3. CASE i % 2 # 1
    <3>1. i = 2 * k
      BY <1>2, <2>1, <2>3
    <3>2. i - 1 \in 1 .. 2 * k /\ (i - 1) % 2 = 1 /\ ((i - 1) + 1) \div 2 = k /\ i # 1
      BY ONLY <1>1, <3>1
    <3>3. made[i - 1] = words[k]
      BY <1>2, <3>2
    <3> QED BY <1>1, <2>1, <3>2, <3>3
  <2> QED BY <2>2, <2>3
<1>4. ASSUME NEW j \in 1 .. k PROVE at[j] \in Begins(made, "sp")
  <2>1. /\ 2 * j - 1 \in 1 .. 2 * k /\ (2 * j - 1) % 2 = 1 /\ ((2 * j - 1) + 1) \div 2 = j
        /\ j # 1 => /\ 2 * j - 2 \in 1 .. 2 * k /\ (2 * j - 2) % 2 # 1 /\ 2 * j - 2 # 2 * k
                    /\ (2 * j - 1) - 1 = 2 * j - 2
    BY ONLY <1>1, <1>4
  <2>2. made[2 * j - 1] = words[j]
    BY ONLY <1>2, <2>1
  <2>3. j # 1 => made[(2 * j - 1) - 1] = "sp"
    BY ONLY <1>2, <2>1
  <2>4. 2 * j - 1 \in DOMAIN made /\ (j = 1 => 2 * j - 1 = 1)
    BY ONLY <1>2, <2>1
  <2> QED BY <1>1, <2>2, <2>3, <2>4 DEF Begins
<1>5. Listed(at, k, Begins(made, "sp"))
  <2>1. at \in [1 .. k -> Int] /\ \A i, j \in 1 .. k : i < j => at[i] < at[j]
    BY <1>1
  <2> HIDE DEF at
  <2>2. Begins(made, "sp") = {at[i] : i \in 1 .. k}
    BY ONLY <1>3, <1>4
  <2> QED BY ONLY <2>1, <2>2 DEF Listed
<1>6. Cardinality(Begins(made, "sp")) = k
  BY ONLY <1>1, <1>5, ListedFacts
<1>7. Len(Words(made, "sp")) = k
  BY ONLY <1>1, <1>6 DEF Words
<1> QED BY <1>7 DEF k, made

(* No line of the complaint has twelve words.                              *)
LEMMA ShortComplaint ==
  /\ Len(Complaint) = 2
  /\ Len(Words(Complaint[1], "sp")) = 10 /\ Len(Words(Complaint[2], "sp")) = 7
<1> DEFINE first == <<"w", "310", "w", "w", "w", "w", "w", "w", "w", "w">>
           second == <<"w", "209", "w", "w", "w", "w", "w">>
<1>1. Complaint = <<Line(first), Line(second)>>
  BY DEF Complaint
<1>2. first \in Seq(Word) /\ Len(first) = 10 /\ first # <<>>
      /\ \A i \in DOMAIN first : first[i] # "sp"
  <2>1. "w" \in Word /\ "310" \in Word /\ "w" # "sp" /\ "310" # "sp"
    BY DEF Word, Numbers
  <2>2. \A w, x : w \in Word /\ x \in Word /\ w # "sp" /\ x # "sp" =>
          LET s == <<w, x, w, w, w, w, w, w, w, w>>
          IN  s \in Seq(Word) /\ Len(s) = 10 /\ s # <<>> /\ \A i \in DOMAIN s : s[i] # "sp"
    OBVIOUS
  <2> QED BY <2>1, <2>2
<1>3. second \in Seq(Word) /\ Len(second) = 7 /\ second # <<>>
      /\ \A i \in DOMAIN second : second[i] # "sp"
  <2>1. "w" \in Word /\ "209" \in Word /\ "w" # "sp" /\ "209" # "sp"
    BY DEF Word, Numbers
  <2>2. \A w, x : w \in Word /\ x \in Word /\ w # "sp" /\ x # "sp" =>
          LET s == <<w, x, w, w, w, w, w>>
          IN  s \in Seq(Word) /\ Len(s) = 7 /\ s # <<>> /\ \A i \in DOMAIN s : s[i] # "sp"
    OBVIOUS
  <2> QED BY <2>1, <2>2
<1> HIDE DEF first, second
<1>4. Len(Words(Line(first), "sp")) = 10 /\ Len(Words(Line(second), "sp")) = 7
  BY <1>2, <1>3, LineWords
<1> QED BY <1>1, <1>4

(* What main serves, when it has read something before.                    *)
LEMMA PortIsTwelfth ==
  ASSUME TypeOK, reads # 0, NEW text, NEW p \in PortsIn(text), p # "none"
  PROVE  p = Twelfth(text) /\ (Len(Words(text, "sp")) \in 0 .. 10 => p = "junk")
<1>1. reads \in Nat /\ reads > 0
  BY DEF TypeOK
<1>2. ~HasEmptyWord(text, "sp")
  BY <1>1 DEF PortsIn
<1>3. p \in IF Len(Words(text, "sp")) > 11 THEN {Atol(Words(text, "sp")[12])}
            ELSE IF Len(Words(text, "sp")) = 11 THEN {"none"} ELSE {"none", "junk"}
  BY <1>1, <1>2 DEF PortsIn
<1> QED BY <1>3 DEF Twelfth

LEMMA NamedPeer ==
  ASSUME TypeOK, PhaseInv, NamedInv, PeerStep
  PROVE  NamedInv'
<1> USE DEF serverVars
<1>0. /\ stream \in Seq(Text) /\ order \in Seq(Text)
      /\ Len(stream) \in Nat /\ Len(order) \in Nat /\ reads \in Nat
  BY OrdersAssumption, LenProperties DEF TypeOK, Text
<1>1. SUFFICES ASSUME start = 0 PROVE NamedInv'
  BY DEF NamedInv, PeerStep, Greet, HearRight, Complain, CallService, Close
<1>2. Complaint \in Seq(Text) /\ Len(Complaint) = 2
  BY TextFacts, ShortComplaint
<1>3. /\ \A i \in 1 .. Len(order) : Told[i] = order[i]
      /\ \A i \in 1 .. 2 : Told[Len(order) + i] = Complaint[i]
  BY <1>0, <1>2, TwoMore DEF Told
<1>4. UNCHANGED <<order, reads, server, port, start>>
  BY DEF PeerStep, Greet, HearRight, Complain, CallService, Close
<1>5. Told' = Told
  BY <1>4 DEF Told
<1>6. CASE Greet \/ (HearRight /\ peer = "waitHello")
  BY <1>6 DEF Greet, HearRight, NamedInv
<1>7. CASE HearRight /\ peer = "waitLogin"
  <2>1. reads = 2 /\ stream = <<>> /\ server = "none"
    BY <1>1, <1>7 DEF HearRight, PhaseInv, Said
  <2>2. stream' = order
    BY <1>0, <1>7, <2>1, ConcatEmptySeq DEF HearRight
  <2>3. Unread'
    BY <1>0, <1>3, <1>4, <1>5, <2>1, <2>2 DEF Unread
  <2> QED BY <1>4, <2>1, <2>3 DEF NamedInv
<1>8. CASE Complain
  <2>1. stream' = stream \o Complaint /\ peer \in Waiting /\ peer' = "closing"
    BY <1>8 DEF Complain
  <2>2. /\ Len(stream') = Len(stream) + 2
        /\ \A i \in 1 .. Len(stream) : stream'[i] = stream[i]
        /\ \A i \in 1 .. 2 : stream'[Len(stream) + i] = Complaint[i]
    BY <1>0, <1>2, <2>1, TwoMore
  <2>3. CASE peer = "waitService"
    <3>1. reads + Len(stream) = Len(order) + 2
      BY <1>1, <2>3 DEF PhaseInv
    <3>2. Unread /\ (server # "none" => port = Twelfth(Told[3]))
      BY <1>1, <2>3 DEF NamedInv
    <3>3. ASSUME NEW i \in 1 .. Len(stream') PROVE stream'[i] = Told[reads - 2 + i]
      <4>1. CASE i <= Len(stream)
        BY <1>0, <2>2, <3>2, <3>3, <4>1 DEF Unread
      <4>2. CASE i > Len(stream)
        <5>1. /\ i - Len(stream) \in 1 .. 2 /\ i = Len(stream) + (i - Len(stream))
              /\ reads - 2 + i = Len(order) + (i - Len(stream))
          BY ONLY <1>0, <2>2, <3>1, <3>3, <4>2
        <5>2. stream'[i] = Complaint[i - Len(stream)]
          BY ONLY <2>2, <5>1
        <5>3. Told[reads - 2 + i] = Complaint[i - Len(stream)]
          BY ONLY <1>3, <5>1
        <5> QED BY <5>2, <5>3
      <4> QED BY <1>0, <3>3, <4>1, <4>2
    <3>4. Unread'
      BY <1>4, <1>5, <3>2, <3>3 DEF Unread
    <3> QED BY <1>4, <1>5, <3>2, <3>4 DEF NamedInv, Twelfth
  <2>4. CASE peer \in {"waitHello", "waitLogin"}
    <3>1. server = "none" /\ reads + Len(stream) <= 2
      <4>1. Len(<<Hello>>) = 1 /\ Len(<<Please>>) = 1 /\ Len(<<>>) = 0
        OBVIOUS
      <4>2. /\ server = "none" /\ reads <= 2
            /\ stream = <<>> \/ (stream \in {<<Hello>>, <<Please>>} /\ reads <= 1)
        BY <1>1, <2>4 DEF PhaseInv
      <4>3. reads <= 2 /\ (Len(stream) = 0 \/ (Len(stream) = 1 /\ reads <= 1))
        BY <4>1, <4>2
      <4>4. PICK k \in Nat, r \in Nat : k = Len(stream) /\ r = reads
        BY <1>0
      <4>5. r <= 2 /\ (k = 0 \/ (k = 1 /\ r <= 1))
        BY <4>3, <4>4
      <4>6. r + k <= 2
        BY <4>5
      <4> QED BY <4>2, <4>4, <4>6
    <3> QED BY <1>0, <1>4, <2>1, <2>2, <3>1 DEF NamedInv
  <2> QED BY <2>1, <2>3, <2>4 DEF Waiting
<1>9. CASE CallService \/ Close
  <2>1. stream' = stream /\ peer # "new" /\ peer \notin {"waitHello", "waitLogin"}
        /\ (peer \in {"closing", "closed"} => peer' \in {"closing", "closed"})
    BY <1>9 DEF CallService, Close
  <2>2. Unread => Unread'
    BY <1>4, <1>5, <2>1 DEF Unread
  <2> QED BY <1>1, <1>4, <1>5, <2>1, <2>2 DEF NamedInv, Twelfth
<1> QED BY <1>6, <1>7, <1>8, <1>9 DEF PeerStep, HearRight

LEMMA NamedMain ==
  ASSUME TypeOK, PhaseInv, NamedInv, MainStep \/ Listen
  PROVE  NamedInv'
<1> USE DEF serverVars, peerVars
<1>0. stream \in Seq(Text) /\ Len(stream) \in Nat /\ reads \in Nat
  BY LenProperties DEF TypeOK, Text
<1>1. SUFFICES ASSUME start = 0, peer \notin {"new", "waitHello", "waitLogin"}
               PROVE  NamedInv'
  BY DEF NamedInv, MainStep, SayHello, SayLogin, StartServer, ReadOn, LeaveLoop, Listen, Read
<1>2. n = reads
  BY <1>0, <1>1 DEF n
<1>3. UNCHANGED <<peer, order, start>> /\ Told' = Told
  BY DEF Told, MainStep, SayHello, SayLogin, StartServer, ReadOn, LeaveLoop, Listen, Read
<1>4. CASE LeaveLoop \/ Listen
  <2>1. UNCHANGED <<reads, stream, port>> /\ (server = "none" <=> server' = "none")
    BY <1>4 DEF LeaveLoop, Listen
  <2> QED BY <1>1, <1>3, <2>1 DEF NamedInv, Unread, Twelfth
<1>5. CASE SayHello \/ SayLogin \/ StartServer \/ ReadOn
  <2>1. /\ reads' = reads + 1 /\ Len(stream) > 0
        /\ stream # <<>> /\ stream' = Tail(stream) /\ Len(stream') = Len(stream) - 1
    BY <1>0, <1>5, ReadFacts, EmptySeq DEF SayHello, SayLogin, StartServer, ReadOn, Read
  <2>2. CASE peer \in {"closing", "closed"} /\ server = "none" /\ reads + Len(stream) <= 4
    <3>1. server' = "none"
      <4>1. reads # 4
        BY <1>0, <2>1, <2>2
      <4>2. ~StartServer
        BY <1>2, <4>1 DEF StartServer, Read
      <4> QED BY <1>5, <2>2, <4>2 DEF SayHello, SayLogin, ReadOn
    <3> QED BY <1>0, <1>3, <2>1, <2>2, <3>1 DEF NamedInv
  <2>3. CASE Unread /\ (server # "none" => port = Twelfth(Told[3]))
    <3>1. Unread'
      <4>1. \A i \in 1 .. Len(stream') : stream'[i] = stream[i + 1]
        BY <1>0, <2>1, HeadTailProperties
      <4>2. ASSUME NEW i \in 1 .. Len(stream') PROVE stream'[i] = Told[reads' - 2 + i]
        <5>1. i + 1 \in 1 .. Len(stream) /\ reads - 2 + (i + 1) = reads' - 2 + i
          BY ONLY <1>0, <2>1, <4>2
        <5> QED BY <2>3, <4>1, <5>1 DEF Unread
      <4> QED BY <1>0, <1>3, <2>1, <2>3, <4>2 DEF Unread
    <3>2. CASE ReadOn
      BY <1>3, <2>3, <3>1, <3>2 DEF ReadOn, NamedInv, Twelfth
    <3>3. CASE StartServer
      <4>1. reads = 4 /\ stream[1] = Told[3]
        <5>1. reads = 4
          BY <1>2, <3>3 DEF StartServer, Read
        <5>2. 1 \in 1 .. Len(stream) /\ reads - 2 + 1 = 3
          BY <1>0, <2>1, <5>1
        <5> QED BY <2>3, <5>1, <5>2 DEF Unread
      <4>2. ASSUME NEW p \in PortsIn(stream[1]), p # "none" PROVE p = Twelfth(Told[3])
        BY <4>1, <4>2, PortIsTwelfth
      <4>3. server' # "none" => port' = Twelfth(Told[3])
        BY <2>3, <3>3, <4>2 DEF StartServer
      <4> QED BY <1>3, <3>1, <4>3 DEF NamedInv, Twelfth
    <3>4. ~SayHello /\ ~SayLogin
      BY <1>0, <1>2, <2>3 DEF SayHello, SayLogin, Read, Unread
    <3> QED BY <1>5, <3>2, <3>3, <3>4
  <2> QED BY <1>1, <2>2, <2>3 DEF NamedInv
<1> QED BY <1>4, <1>5 DEF MainStep

LEMMA OtherPeer ==
  ASSUME TypeOK, OtherInv, PeerStep
  PROVE  OtherInv'
<1> USE DEF serverVars
<1>0. /\ stream \in Seq(Text) /\ Len(stream) \in Nat /\ reads \in Nat
      /\ said \in Seq({"HELLO", "login"}) /\ Len(said) \in Nat /\ heard \in Nat
  BY LenProperties DEF TypeOK, Text
<1>1. UNCHANGED <<reads, said, server, port, start>>
  BY DEF PeerStep, Greet, HearRight, Complain, CallService, Close
<1>2. SUFFICES ASSUME start # 0 PROVE OtherInv'
  BY <1>1 DEF OtherInv
<1>3. CASE Greet
  <2>1. stream = <<>> /\ reads = 0 /\ said = <<>> /\ stream' = Append(stream, Hello)
    BY <1>2, <1>3 DEF Greet, OtherInv
  <2>2. stream' = <<Hello>>
    BY <2>1
  <2>3. Len(stream') = 1 /\ stream'[1] = Others[1] /\ Len(said) = 0
    BY <2>1, <2>2 DEF Others
  <2>4. \A i \in 1 .. Len(stream') : stream'[i] = Others[reads' + i]
    BY <1>1, <2>1, <2>3
  <2> QED BY <1>1, <1>2, <1>3, <2>1, <2>3, <2>4 DEF Greet, OtherInv
<1>4. ~HearRight
  <2> SUFFICES ASSUME HearRight PROVE FALSE
    OBVIOUS
  <2>1. /\ peer = "waitHello" /\ heard < Len(said) /\ said[heard + 1] = "HELLO"
    BY <1>2 DEF HearRight, OtherInv, Expected
  <2>2. heard + 1 \in 1 .. Len(said)
    BY <1>0, <2>1
  <2> QED BY <1>2, <2>1, <2>2 DEF OtherInv
<1>5. CASE Complain
  <2>1. Complaint \in Seq(Text) /\ Len(Complaint) = 2
    BY TextFacts, ShortComplaint
  <2>2. peer = "waitHello" /\ reads + Len(stream) = 1
    BY <1>2, <1>5 DEF Complain, Waiting, OtherInv
  <2>3. /\ Len(stream') = Len(stream) + 2
        /\ \A i \in 1 .. Len(stream) : stream'[i] = stream[i]
        /\ \A i \in 1 .. 2 : stream'[Len(stream) + i] = Complaint[i]
    BY <1>0, <1>5, <2>1, TwoMore DEF Complain
  <2>4. ASSUME NEW i \in 1 .. Len(stream') PROVE stream'[i] = Others[reads + i]
    <3>1. CASE i <= Len(stream)
      BY <1>0, <1>2, <2>3, <2>4, <3>1 DEF OtherInv
    <3>2. CASE i > Len(stream)
      <4>1. i = Len(stream) + 1 \/ i = Len(stream) + 2
        BY ONLY <1>0, <2>3, <2>4, <3>2
      <4>2. reads + (Len(stream) + 1) = 2 /\ reads + (Len(stream) + 2) = 3
        BY ONLY <1>0, <2>2
      <4> QED BY <2>3, <4>1, <4>2 DEF Others
    <3> QED BY <1>0, <2>4, <3>1, <3>2
  <2>5. reads + Len(stream') <= 3
    BY <1>0, <2>2, <2>3
  <2> QED BY <1>1, <1>2, <1>5, <2>4, <2>5 DEF Complain, OtherInv
<1>6. CASE CallService \/ Close
  BY <1>1, <1>2, <1>6 DEF CallService, Close, OtherInv
<1> QED BY <1>3, <1>4, <1>5, <1>6 DEF PeerStep

LEMMA OtherMain ==
  ASSUME TypeOK, OtherInv, MainStep \/ Listen
  PROVE  OtherInv'
<1> USE DEF serverVars, peerVars
<1>0. /\ stream \in Seq(Text) /\ Len(stream) \in Nat /\ reads \in Nat /\ start \in Int
      /\ said \in Seq({"HELLO", "login"}) /\ Len(said) \in Nat
  BY NStartAssumption, LenProperties DEF TypeOK, Text
<1>1. UNCHANGED <<peer, start>>
  BY DEF MainStep, SayHello, SayLogin, StartServer, ReadOn, LeaveLoop, Listen, Read
<1>2. SUFFICES ASSUME start # 0 PROVE OtherInv'
  BY <1>1 DEF OtherInv
<1>3. CASE LeaveLoop \/ Listen
  BY <1>2, <1>3 DEF LeaveLoop, Listen, OtherInv
<1>4. CASE SayHello \/ SayLogin \/ StartServer \/ ReadOn
  <2>1. /\ reads' = reads + 1 /\ Len(stream) > 0
        /\ stream # <<>> /\ stream' = Tail(stream) /\ Len(stream') = Len(stream) - 1
    BY <1>0, <1>4, ReadFacts, EmptySeq DEF SayHello, SayLogin, StartServer, ReadOn, Read
  <2>2. peer # "new" /\ reads + Len(stream) <= 3 /\ (peer = "waitHello" => reads + Len(stream) = 1)
    BY <1>2, <2>1 DEF OtherInv
  <2>3. \A i \in 1 .. Len(stream') : stream'[i] = Others[reads' + i]
    <3>1. \A i \in 1 .. Len(stream') : stream'[i] = stream[i + 1]
      BY <1>0, <2>1, HeadTailProperties
    <3>2. ASSUME NEW i \in 1 .. Len(stream') PROVE stream'[i] = Others[reads' + i]
      <4>1. i + 1 \in 1 .. Len(stream) /\ reads + (i + 1) = reads' + i
        BY ONLY <1>0, <2>1, <3>2
      <4> QED BY <1>2, <3>1, <4>1 DEF OtherInv
    <3> QED BY <3>2
  <2>4. reads' + Len(stream') = reads + Len(stream)
    BY <1>0, <2>1
  <2>5. ASSUME peer = "waitHello" PROVE \A i \in 1 .. Len(said') : said'[i] = "login"
    <3>1. reads = 0 /\ n = start /\ ~SayHello
      BY <1>0, <1>2, <2>1, <2>2, <2>5 DEF SayHello, Read, n
    <3>2. said' = said \/ said' = Append(said, "login")
      BY <1>4, <3>1 DEF SayLogin, StartServer, ReadOn, Reply
    <3>3. \A i \in 1 .. Len(said) : said[i] = "login"
      BY <1>2, <2>5 DEF OtherInv
    <3>4. "login" \in {"HELLO", "login"}
      OBVIOUS
    <3>5. /\ Len(Append(said, "login")) = Len(said) + 1
          /\ Append(said, "login")[Len(said) + 1] = "login"
          /\ \A i \in 1 .. Len(said) : Append(said, "login")[i] = said[i]
      BY ONLY <1>0, <3>4, AppendProperties
    <3> QED BY <1>0, <3>2, <3>3, <3>5
  <2>6. server' # "none" => start \in 2 .. 4 /\ port' = "junk"
    <3>1. CASE ~StartServer
      <4>1. UNCHANGED <<server, port>>
        BY <1>4, <3>1 DEF SayHello, SayLogin, ReadOn, StartServer
      <4> QED BY <1>2, <4>1 DEF OtherInv
    <3>2. CASE StartServer
      <4>1. start + reads = 4 /\ reads \in 0 .. 2
        BY <1>0, <2>1, <2>2, <3>2 DEF StartServer, Read, n
      <4>2. stream[1] = Others[reads + 1]
        BY <1>0, <1>2, <2>1 DEF OtherInv
      <4>3. ASSUME NEW p \in PortsIn(stream[1]), p # "none" PROVE p = "junk"
        <5>1. CASE reads = 0
          BY <4>3, <5>1 DEF PortsIn
        <5>2. CASE reads \in 1 .. 2
          <6>1. Len(Words(stream[1], "sp")) \in 0 .. 10
            BY <4>2, <5>2, ShortComplaint DEF Others
          <6> QED BY <4>3, <5>2, <6>1, PortIsTwelfth
        <5> QED BY <4>1, <5>1, <5>2
      <4>4. start \in 2 .. 4
        BY <1>0, <4>1
      <4> QED BY <1>2, <3>2, <4>3, <4>4 DEF StartServer, OtherInv
    <3> QED BY <3>1, <3>2
  <2> QED BY <1>1, <1>2, <2>2, <2>3, <2>4, <2>5, <2>6 DEF OtherInv
<1> QED BY <1>3, <1>4 DEF MainStep

(* The program serves nothing but what stands at the twelfth place of the  *)
(* third text behind the login, whatever UNIX_TL orders and however it is  *)
(* cut; and if n was anything but zero, what UNIX_TL orders is never what  *)
(* it serves.                                                              *)
THEOREM ServesTheFifth == Spec => []ServesFifthText
<1>1. Init => NamedInv /\ OtherInv
  BY EmptySeq DEF Init, NamedInv, OtherInv
<1>2. TypeOK /\ PhaseInv /\ NamedInv /\ OtherInv /\ [Next]_vars => (NamedInv /\ OtherInv)'
  <2>1. ASSUME UNCHANGED vars, NamedInv, OtherInv PROVE NamedInv' /\ OtherInv'
    BY <2>1 DEF vars, peerVars, serverVars, NamedInv, OtherInv, Unread, Told, Twelfth
  <2> QED BY <2>1, NamedPeer, NamedMain, OtherPeer, OtherMain DEF Next, Over
<1>3. TypeOK /\ PhaseInv /\ NamedInv /\ OtherInv => ServesFifthText
  BY DEF PhaseInv, NamedInv, OtherInv, ServesFifthText, Told
<1> QED BY <1>1, <1>2, <1>3, Phases, PTL DEF Spec

-----------------------------------------------------------------------------
(* The greeting comes to an end: what UNIX_TL has still to do, what it has *)
(* sent that main has not read, and whether main is in its loop and the    *)
(* server on its way.                                                      *)
PeerLeft == CASE peer = "new" -> 5
              [] peer = "waitHello" -> 4
              [] peer = "waitLogin" -> 3
              [] peer = "waitService" -> 2
              [] peer \in {"called", "closing"} -> 1
              [] peer = "closed" -> 0
Doing == (IF main = "read" THEN 1 ELSE 0) + (IF server = "starting" THEN 1 ELSE 0)
GreetingLeft == <<PeerLeft, Len(stream), Doing>>
GreetingNats == PeerLeft \in Nat /\ Len(stream) \in Nat /\ Doing \in Nat

LEMMA GreetingNatsType == TypeOK => GreetingNats
<1> SUFFICES ASSUME TypeOK PROVE GreetingNats
  OBVIOUS
<1>1. PeerLeft \in Nat
  <2>1. peer \in {"new", "waitHello", "waitLogin", "waitService", "called", "closing", "closed"}
    BY DEF TypeOK, Waiting
  <2> QED BY ONLY <2>1 DEF PeerLeft
<1>2. Len(stream) \in Nat
  BY LenProperties DEF TypeOK
<1>3. Doing \in Nat
  BY DEF Doing
<1> QED BY <1>1, <1>2, <1>3 DEF GreetingNats

LEMMA GreetingLowers ==
  ASSUME TypeOK, Next, ~ UNCHANGED vars
  PROVE  Lower(PeerLeft', Len(stream'), Doing', PeerLeft, Len(stream), Doing)
<1>1. CASE PeerStep
  <2>1. \/ peer = "new" /\ peer' = "waitHello"
        \/ peer = "waitHello" /\ peer' = "waitLogin"
        \/ peer = "waitLogin" /\ peer' = "waitService"
        \/ peer \in {"waitHello", "waitLogin", "waitService"} /\ peer' = "closing"
        \/ peer = "waitService" /\ peer' = "called"
        \/ peer \in {"called", "closing"} /\ peer' = "closed"
    BY <1>1 DEF PeerStep, Greet, HearRight, Complain, CallService, Close, Waiting
  <2>2. PeerLeft' < PeerLeft
    BY ONLY <2>1 DEF PeerLeft
  <2> QED BY ONLY <2>2 DEF Lower
<1>2. CASE SayHello \/ SayLogin \/ StartServer \/ ReadOn
  <2>1. PICK round : Read(round)
    BY <1>2, Zenon DEF SayHello, SayLogin, StartServer, ReadOn
  <2>2. peer' = peer /\ Len(stream') = Len(stream) - 1 /\ Len(stream) \in Nat
    BY <2>1, ReadFacts, LenProperties DEF TypeOK
  <2>3. PeerLeft' = PeerLeft
    BY <2>2 DEF PeerLeft
  <2>4. Len(stream') < Len(stream)
    BY ONLY <2>2
  <2> QED BY ONLY <2>3, <2>4 DEF Lower
<1>3. CASE LeaveLoop \/ Listen
  <2>1. UNCHANGED <<peer, stream>>
    BY <1>3 DEF LeaveLoop, Listen, peerVars
  <2>2. PeerLeft' = PeerLeft /\ Len(stream') = Len(stream)
    BY <2>1 DEF PeerLeft
  <2>3. \/ main = "read" /\ main' = "wait" /\ server' = server
        \/ server = "starting" /\ server' \in {"listening", "failed"} /\ main' = main
    BY <1>3 DEF LeaveLoop, Listen, serverVars
  <2>4. Doing' < Doing
    BY ONLY <2>3 DEF Doing
  <2> QED BY ONLY <2>2, <2>4 DEF Lower
<1>4. ~Over
  BY DEF Over
<1> QED BY <1>1, <1>2, <1>3, <1>4 DEF Next, MainStep

(* The loop of main() does not go round for ever: whatever n holds at      *)
(* first, in however many segments the order comes and whether UNIX_TL is  *)
(* content, complains or closes, every step leaves less of the greeting.   *)
(* What LoopEnds still needs is that neither side is stuck.                *)
THEOREM GreetingRunsOut ==
  IsWellFoundedOn(Down, Tally) /\ (Spec => [][(<<GreetingLeft', GreetingLeft>> \in Down)]_vars)
<1>1. TypeOK /\ GreetingNats /\ GreetingNats' /\ [Next]_vars
        => [(<<GreetingLeft', GreetingLeft>> \in Down)]_vars
  <2> SUFFICES ASSUME TypeOK, GreetingNats, GreetingNats', Next, ~ UNCHANGED vars
               PROVE  <<GreetingLeft', GreetingLeft>> \in Down
    OBVIOUS
  <2>1. Lower(PeerLeft', Len(stream'), Doing', PeerLeft, Len(stream), Doing)
    BY GreetingLowers
  <2>2. /\ PeerLeft \in Nat /\ Len(stream) \in Nat /\ Doing \in Nat
        /\ PeerLeft' \in Nat /\ Len(stream') \in Nat /\ Doing' \in Nat
    BY DEF GreetingNats
  <2>3. << <<PeerLeft', Len(stream'), Doing'>>, <<PeerLeft, Len(stream), Doing>> >> \in Down
    BY ONLY <2>1, <2>2, GoesDown
  <2> QED BY <2>3, Zenon DEF GreetingLeft
<1>2. Spec => [][(<<GreetingLeft', GreetingLeft>> \in Down)]_vars
  BY <1>1, GreetingNatsType, TypeCorrect, PTL DEF Spec
<1> QED BY <1>2, DownEnds
=============================================================================
