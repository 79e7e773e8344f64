-------------------------- MODULE InstructionProofs --------------------------
(***************************************************************************)
(* The three properties of Instruction, for every value of its constants.  *)
(* First ReadsRight: the values a map call has in use at once are in       *)
(* headers of their own.  Then TypeOK and Implements: words and their      *)
(* bits, what one operation does, what the operations of an arithmetic     *)
(* instruction leave (AluMeans) and how the entry of a conditional jump    *)
(* decides (JumpMeans), and at last the inductive invariant CodeInv and    *)
(* the mapping of the steps.                                               *)
(***************************************************************************)
EXTENDS Instruction, FiniteSetTheorems, SequenceTheorems, WellFoundedInduction, TLAPS

-----------------------------------------------------------------------------
(* ------------------------- the scratch pool ---------------------------- *)
Values == {"key", "rawkey", "raw", "pres", "tag", "rawfull", "full",
           "val", "from", "to", "byte"} \X Nat

(* The place of a value in the block of call c, counted from 1.            *)
KeyEnd(c)   == IF c.key = "stack" THEN 1 ELSE 2
Place(c, v) ==
  IF v[1] = "key" THEN 1
  ELSE IF v[1] = "rawkey" THEN 2
  ELSE IF v[1] = "raw" THEN KeyEnd(c) + 1
  ELSE IF v[1] = "pres" THEN KeyEnd(c) + 1 + v[2]
  ELSE IF v[1] = "tag" /\ v[2] # 0 THEN KeyEnd(c) + 1 + c.nslots + v[2]
  ELSE IF v[1] = "tag" THEN KeyEnd(c) + 2 + 2 * c.nslots
  ELSE IF v[1] = "rawfull" THEN KeyEnd(c) + 3 + 2 * c.nslots
  ELSE KeyEnd(c) + 4 + 2 * c.nslots

(* The values a block has, and their number.                               *)
InBlock(c) ==
  {Pool!one("key"), Pool!one("raw")}
    \cup (IF c.key = "stack" THEN {} ELSE {Pool!one("rawkey")})
    \cup {Pool!pres(i) : i \in 1 .. c.nslots} \cup {Pool!tag(i) : i \in 1 .. c.nslots}
    \cup (IF c.fn = "lookup" THEN {}
          ELSE {Pool!one("tag"), Pool!one("rawfull"), Pool!one("full")})
Size(c) == KeyEnd(c) + 1 + 2 * c.nslots + (IF c.fn = "lookup" THEN 0 ELSE 3)

(* The calls and the parts of their blocks.                                *)
LEMMA CallIs ==
  ASSUME NEW c \in Pool!Calls
  PROVE  /\ c.nslots \in Nat \ {0} /\ KeyEnd(c) \in 1 .. 2
         /\ c.fn \in {"lookup", "update"} /\ c.key \in {"stack", "region"}
         /\ c.value \in {"stack", "cell", "bytes"} /\ Size(c) \in Nat
<1>1. /\ c.nslots \in Slots /\ c.fn \in {"lookup", "update"}
      /\ c.key \in {"stack", "region"} /\ c.value \in {"stack", "cell", "bytes"}
  BY DEF Pool!Calls
<1>2. c.nslots \in Nat \ {0}
  BY <1>1, PoolAssumption, Zenon
<1>3. KeyEnd(c) \in 1 .. 2
  BY DEF KeyEnd
<1> QED
  BY <1>1, <1>2, <1>3 DEF Size

LEMMA Joined ==
  ASSUME NEW Elems, NEW left \in Seq(Elems), NEW right \in Seq(Elems)
  PROVE  /\ left \o right \in Seq(Elems) /\ Len(left \o right) = Len(left) + Len(right)
         /\ Len(left) \in Nat /\ Len(right) \in Nat
         /\ \A i \in 1 .. Len(left) : (left \o right)[i] = left[i]
         /\ \A i \in 1 .. Len(right) : (left \o right)[Len(left) + i] = right[i]
  OBVIOUS

(* The values of a block are given headers one after the other.            *)
LEMMA BlockIs ==
  ASSUME NEW c \in Pool!Calls
  PROVE  /\ Pool!Block(c) \in Seq(Values) /\ Len(Pool!Block(c)) = Size(c)
         /\ \A j \in 1 .. Size(c) :
              Pool!Block(c)[j] \in InBlock(c) /\ Place(c, Pool!Block(c)[j]) = j
         /\ \A v \in InBlock(c) :
              Place(c, v) \in 1 .. Size(c) /\ Pool!Block(c)[Place(c, v)] = v
<1> DEFINE n == c.nslots
           K == Pool!read_map_key(c)
           R == << Pool!one("raw") >>
           P == [i \in 1 .. n |-> Pool!pres(i)]
           T == [i \in 1 .. n |-> Pool!tag(i)]
           S == Pool!ToStore(c)
           RP == R \o P
           E == RP \o T
           KE == K \o E
           B == KE \o S
           k == KeyEnd(c)
           s == IF c.fn = "lookup" THEN 0 ELSE 3
<1>1. n \in Nat \ {0} /\ k \in 1 .. 2 /\ s \in {0, 3}
      /\ c.fn \in {"lookup", "update"} /\ c.key \in {"stack", "region"}
  BY CallIs
<1>2. B = Pool!Block(c)
  BY DEF Pool!Block, Pool!emit_slot_headers
<1>3. K \in Seq(Values) /\ Len(K) = k /\ K[1] = Pool!one("key")
      /\ (k = 2 => K[2] = Pool!one("rawkey"))
  <2>1. Pool!one("key") \in Values /\ Pool!one("rawkey") \in Values
    BY DEF Pool!one, Values
  <2>2. CASE c.key = "stack"
    <3>1. K = << Pool!one("key") >> \o << >> /\ k = 1
      BY <2>2 DEF Pool!read_map_key, KeyEnd
    <3>2. << Pool!one("key") >> \o << >> = << Pool!one("key") >>
      BY <2>1
    <3> HIDE DEF K, k
    <3> QED
      BY <2>1, <3>1, <3>2
  <2>3. CASE c.key # "stack"
    <3>1. K = << Pool!one("key") >> \o << Pool!one("rawkey") >> /\ k = 2
      BY <2>3 DEF Pool!read_map_key, KeyEnd
    <3> DEFINE a == << Pool!one("key") >>
               b == << Pool!one("rawkey") >>
    <3>2. a \in Seq(Values) /\ b \in Seq(Values) /\ Len(a) = 1 /\ Len(b) = 1
          /\ a[1] = Pool!one("key") /\ b[1] = Pool!one("rawkey")
      BY <2>1
    <3> HIDE DEF K, k, a, b
    <3>3. K = a \o b
      BY <3>1 DEF a, b
    <3>4. a \o b \in Seq(Values) /\ Len(a \o b) = 2
          /\ (a \o b)[1] = a[1] /\ (a \o b)[2] = b[1]
      <4>1. a \in Seq(Values) /\ b \in Seq(Values)
        BY <3>2
      <4>2. /\ a \o b \in Seq(Values) /\ Len(a \o b) = Len(a) + Len(b)
            /\ \A i \in 1 .. Len(a) : (a \o b)[i] = a[i]
            /\ \A i \in 1 .. Len(b) : (a \o b)[Len(a) + i] = b[i]
        BY <4>1, Joined
      <4> DEFINE ab == a \o b
      <4> HIDE DEF ab
      <4>3. /\ ab \in Seq(Values) /\ Len(ab) = 2 /\ ab[1] = a[1] /\ ab[2] = b[1]
        BY <3>2, <4>2 DEF ab
      <4> QED
        BY <4>3 DEF ab
    <3> QED
      BY <3>1, <3>2, <3>3, <3>4
  <2> QED
    BY <2>2, <2>3
<1>4. R \in Seq(Values) /\ Len(R) = 1 /\ R[1] = Pool!one("raw")
  BY DEF Pool!one, Values
<1>5. P \in Seq(Values) /\ Len(P) = n /\ \A i \in 1 .. n : P[i] = Pool!pres(i)
  BY <1>1 DEF Pool!pres, Values
<1>6. T \in Seq(Values) /\ Len(T) = n /\ \A i \in 1 .. n : T[i] = Pool!tag(i)
  BY <1>1 DEF Pool!tag, Values
<1>7. S \in Seq(Values) /\ Len(S) = s
      /\ (s = 3 => S[1] = Pool!one("tag") /\ S[2] = Pool!one("rawfull")
                   /\ S[3] = Pool!one("full"))
  <2>1. {Pool!one("tag"), Pool!one("rawfull"), Pool!one("full")} \subseteq Values
    BY DEF Pool!one, Values
  <2>2. S = IF s = 0 THEN << >>
            ELSE << Pool!one("tag"), Pool!one("rawfull"), Pool!one("full") >>
    BY <1>1 DEF Pool!ToStore
  <2> HIDE DEF S
  <2> QED
    BY <1>1, <2>1, <2>2
<1> HIDE DEF K, R, P, T, S, n, s, k
<1>8. RP \in Seq(Values) /\ Len(RP) = 1 + n /\ RP[1] = Pool!one("raw")
      /\ \A i \in 1 .. n : RP[1 + i] = Pool!pres(i)
  <2>1. RP \in Seq(Values) /\ Len(RP) = 1 + n
        /\ (\A i \in 1 .. 1 : RP[i] = R[i]) /\ (\A i \in 1 .. n : RP[1 + i] = P[i])
    <3>1. R \in Seq(Values) /\ P \in Seq(Values)
      BY <1>4, <1>5
    <3>2. RP \in Seq(Values) /\ Len(RP) = Len(R) + Len(P)
          /\ (\A i \in 1 .. Len(R) : RP[i] = R[i])
          /\ (\A i \in 1 .. Len(P) : RP[Len(R) + i] = P[i])
      BY <3>1, Joined
    <3> HIDE DEF RP
    <3> QED
      BY <1>1, <1>4, <1>5, <3>2
  <2> HIDE DEF RP
  <2> QED
    BY <1>4, <1>5, <2>1
<1> HIDE DEF RP
<1>9. E \in Seq(Values) /\ Len(E) = 1 + 2 * n /\ E[1] = Pool!one("raw")
      /\ \A i \in 1 .. n : E[1 + i] = Pool!pres(i) /\ E[1 + n + i] = Pool!tag(i)
  BY <1>1, <1>6, <1>8
<1> HIDE DEF E
<1>10. KE \in Seq(Values) /\ Len(KE) = k + 1 + 2 * n
       /\ KE[1] = Pool!one("key") /\ (k = 2 => KE[2] = Pool!one("rawkey"))
       /\ KE[k + 1] = Pool!one("raw")
       /\ \A i \in 1 .. n : KE[k + 1 + i] = Pool!pres(i) /\ KE[k + 1 + n + i] = Pool!tag(i)
  <2>1. KE \in Seq(Values) /\ Len(KE) = k + 1 + 2 * n
        /\ (\A i \in 1 .. Len(K) : KE[i] = K[i])
        /\ (\A i \in 1 .. Len(E) : KE[k + i] = E[i])
    <3>1. KE \in Seq(Values) /\ Len(KE) = Len(K) + Len(E)
          /\ (\A i \in 1 .. Len(K) : KE[i] = K[i])
          /\ (\A i \in 1 .. Len(E) : KE[Len(K) + i] = E[i])
      <4>1. K \in Seq(Values) /\ E \in Seq(Values)
        BY <1>3, <1>9
      <4> QED
        BY <4>1, Joined
    <3> HIDE DEF KE
    <3> QED
      BY <1>1, <1>3, <1>9, <3>1
  <2> HIDE DEF KE
  <2>2. \A i \in 1 .. n : 1 + i \in 1 .. Len(E) /\ 1 + n + i \in 1 .. Len(E)
                          /\ k + (1 + i) = k + 1 + i /\ k + (1 + n + i) = k + 1 + n + i
    BY <1>1, <1>9
  <2>3. 1 \in 1 .. Len(E) /\ 1 \in 1 .. Len(K) /\ (k = 2 => 2 \in 1 .. Len(K))
    BY <1>1, <1>3, <1>9
  <2>4. ASSUME NEW i \in 1 .. n
        PROVE  KE[k + (1 + i)] = E[1 + i] /\ KE[k + (1 + n + i)] = E[1 + n + i]
    <3>1. 1 + i \in 1 .. Len(E) /\ 1 + n + i \in 1 .. Len(E)
      BY <2>2
    <3> QED
      BY <2>1, <3>1, Zenon
  <2> QED
    BY <1>1, <1>3, <1>9, <2>1, <2>2, <2>3, <2>4
<1> HIDE DEF KE
<1>11. B \in Seq(Values) /\ Len(B) = k + 1 + 2 * n + s
       /\ (\A i \in 1 .. Len(KE) : B[i] = KE[i])
       /\ (\A i \in 1 .. s : B[k + 1 + 2 * n + i] = S[i])
  <2>1. B \in Seq(Values) /\ Len(B) = Len(KE) + Len(S)
        /\ (\A i \in 1 .. Len(KE) : B[i] = KE[i])
        /\ (\A i \in 1 .. Len(S) : B[Len(KE) + i] = S[i])
    <3>1. KE \in Seq(Values) /\ S \in Seq(Values)
      BY <1>7, <1>10
    <3> QED
      BY <3>1, Joined
  <2> HIDE DEF B
  <2> QED
    BY <1>7, <1>10, <2>1
<1> HIDE DEF B
<1>12. /\ B[1] = Pool!one("key") /\ (k = 2 => B[2] = Pool!one("rawkey"))
       /\ B[k + 1] = Pool!one("raw")
       /\ \A i \in 1 .. n : B[k + 1 + i] = Pool!pres(i) /\ B[k + 1 + n + i] = Pool!tag(i)
       /\ (s = 3 => /\ B[k + 2 + 2 * n] = Pool!one("tag")
                    /\ B[k + 3 + 2 * n] = Pool!one("rawfull")
                    /\ B[k + 4 + 2 * n] = Pool!one("full"))
  <2>1. 1 \in 1 .. Len(KE) /\ (k = 2 => 2 \in 1 .. Len(KE)) /\ k + 1 \in 1 .. Len(KE)
    BY <1>1, <1>10
  <2>2. \A i \in 1 .. n : k + 1 + i \in 1 .. Len(KE) /\ k + 1 + n + i \in 1 .. Len(KE)
    BY <1>1, <1>10
  <2>3. s = 3 => /\ B[k + 1 + 2 * n + 1] = S[1]
                 /\ B[k + 1 + 2 * n + 2] = S[2]
                 /\ B[k + 1 + 2 * n + 3] = S[3]
    <3>1. s = 3 => 1 \in 1 .. s /\ 2 \in 1 .. s /\ 3 \in 1 .. s
      OBVIOUS
    <3> QED
      BY <1>11, <3>1, Zenon
  <2>4. k + 1 + 2 * n + 1 = k + 2 + 2 * n /\ k + 1 + 2 * n + 2 = k + 3 + 2 * n
        /\ k + 1 + 2 * n + 3 = k + 4 + 2 * n
    BY <1>1
  <2> QED
    BY <1>7, <1>10, <1>11, <2>1, <2>2, <2>3, <2>4
<1>13. Size(c) = k + 1 + 2 * n + s
  BY DEF Size, k, n, s
<1>14. /\ c.key = "stack" <=> k = 1
       /\ c.fn = "lookup" <=> s = 0
  BY <1>1 DEF KeyEnd, k, s
<1>15. ASSUME NEW v \in InBlock(c)
       PROVE  Place(c, v) \in 1 .. Size(c) /\ B[Place(c, v)] = v
  <2>1. CASE v = Pool!one("key")
    BY <1>1, <1>12, <1>13, <2>1 DEF Place, Pool!one
  <2>2. CASE v = Pool!one("raw")
    BY <1>1, <1>12, <1>13, <2>2 DEF Place, Pool!one, k
  <2>3. CASE v = Pool!one("rawkey") /\ c.key # "stack"
    BY <1>1, <1>12, <1>13, <1>14, <2>3 DEF Place, Pool!one
  <2>4. ASSUME NEW i \in 1 .. n, v = Pool!pres(i)
        PROVE  Place(c, v) \in 1 .. Size(c) /\ B[Place(c, v)] = v
    <3>1. Place(c, v) = k + 1 + i
      BY <2>4 DEF Place, Pool!pres, k
    <3> QED
      BY <1>1, <1>12, <1>13, <2>4, <3>1
  <2>5. ASSUME NEW i \in 1 .. n, v = Pool!tag(i)
        PROVE  Place(c, v) \in 1 .. Size(c) /\ B[Place(c, v)] = v
    <3>1. Place(c, v) = k + 1 + n + i
      BY <2>5 DEF Place, Pool!tag, k, n
    <3> QED
      BY <1>1, <1>12, <1>13, <2>5, <3>1
  <2>6. CASE c.fn # "lookup" /\ v \in {Pool!one("tag"), Pool!one("rawfull"), Pool!one("full")}
    <3>1. Place(c, v) = IF v = Pool!one("tag") THEN k + 2 + 2 * n
                        ELSE IF v = Pool!one("rawfull") THEN k + 3 + 2 * n
                        ELSE k + 4 + 2 * n
      BY <2>6 DEF Place, Pool!one, k, n
    <3> QED
      BY <1>1, <1>12, <1>13, <1>14, <2>6, <3>1
  <2> QED
    BY <2>1, <2>2, <2>3, <2>4, <2>5, <2>6 DEF InBlock, n
<1>16. ASSUME NEW j \in 1 .. Size(c)
       PROVE  \E v \in InBlock(c) : Place(c, v) = j
  <2>1. CASE j = 1
    <3>1. Pool!one("key") \in InBlock(c) /\ Place(c, Pool!one("key")) = 1
      BY DEF InBlock, Place, Pool!one
    <3> QED
      BY <2>1, <3>1
  <2>2. CASE j = 2 /\ k = 2
    <3>1. Pool!one("rawkey") \in InBlock(c) /\ Place(c, Pool!one("rawkey")) = 2
      BY <1>14, <2>2 DEF InBlock, Place, Pool!one
    <3> QED
      BY <2>2, <3>1
  <2>3. CASE j = k + 1
    <3>1. Pool!one("raw") \in InBlock(c) /\ Place(c, Pool!one("raw")) = k + 1
      BY DEF InBlock, Place, Pool!one, k
    <3> QED
      BY <2>3, <3>1
  <2>4. CASE j \in k + 2 .. k + 1 + n
    <3>1. PICK i \in 1 .. n : j = k + 1 + i
      <4>1. j - k - 1 \in 1 .. n /\ j = k + 1 + (j - k - 1)
        BY <1>1, <2>4
      <4> QED
        BY <4>1
    <3>2. Pool!pres(i) \in InBlock(c) /\ Place(c, Pool!pres(i)) = k + 1 + i
      BY DEF InBlock, Place, Pool!pres, k, n
    <3> QED
      BY <3>1, <3>2
  <2>5. CASE j \in k + 2 + n .. k + 1 + 2 * n
    <3>1. PICK i \in 1 .. n : j = k + 1 + n + i
      <4>1. j - k - 1 - n \in 1 .. n /\ j = k + 1 + n + (j - k - 1 - n)
        BY <1>1, <2>5
      <4> QED
        BY <4>1
    <3>2. Pool!tag(i) \in InBlock(c) /\ Place(c, Pool!tag(i)) = k + 1 + n + i
      BY DEF InBlock, Place, Pool!tag, k, n
    <3> QED
      BY <3>1, <3>2
  <2>6. CASE j \in k + 2 + 2 * n .. k + 4 + 2 * n /\ s = 3
    <3>1. /\ {Pool!one("tag"), Pool!one("rawfull"), Pool!one("full")} \subseteq InBlock(c)
          /\ Place(c, Pool!one("tag")) = k + 2 + 2 * n
          /\ Place(c, Pool!one("rawfull")) = k + 3 + 2 * n
          /\ Place(c, Pool!one("full")) = k + 4 + 2 * n
      BY <1>14, <2>6 DEF InBlock, Place, Pool!one, k, n
    <3>2. j = k + 2 + 2 * n \/ j = k + 3 + 2 * n \/ j = k + 4 + 2 * n
      BY <1>1, <2>6
    <3> QED
      BY <3>1, <3>2
  <2> QED
    BY <1>1, <1>13, <2>1, <2>2, <2>3, <2>4, <2>5, <2>6
<1>17. ASSUME NEW j \in 1 .. Size(c)
       PROVE  B[j] \in InBlock(c) /\ Place(c, B[j]) = j
  BY <1>15, <1>16
<1> QED
  BY <1>2, <1>11, <1>13, <1>15, <1>17

(* The place of the value whose operations are the first to fill the       *)
(* header of v: the raw loads have a header before anything is in it.      *)
Filled(c, v) ==
  IF v[1] = "key" THEN KeyEnd(c)
  ELSE IF v[1] = "raw" THEN KeyEnd(c) + 2
  ELSE IF v[1] = "rawfull" THEN KeyEnd(c) + 4 + 2 * c.nslots
  ELSE Place(c, v)

(* What is written once a value has its header has a header itself.        *)
LEMMA WritesIs ==
  ASSUME NEW c \in Pool!Calls, NEW v \in InBlock(c)
  PROVE  /\ Pool!Writes(c, v) \in Seq(InBlock(c)) /\ Len(Pool!Writes(c, v)) \in 0 .. 2
         /\ \A i \in 1 .. Len(Pool!Writes(c, v)) : Place(c, Pool!Writes(c, v)[i]) <= Place(c, v)
         /\ \A u \in InBlock(c) : Filled(c, u) = Place(c, v) =>
              \E i \in 1 .. Len(Pool!Writes(c, v)) : Pool!Writes(c, v)[i] = u
<1> DEFINE n == c.nslots
           W == Pool!Writes(c, v)
           Good == /\ W \in Seq(InBlock(c)) /\ Len(W) \in 0 .. 2
                   /\ \A i \in 1 .. Len(W) : Place(c, W[i]) <= Place(c, v)
                   /\ \A u \in InBlock(c) : Filled(c, u) = Place(c, v) =>
                        \E i \in 1 .. Len(W) : W[i] = u
           Fills(u) == Filled(c, u) = Place(c, v)
<1>1. n \in Nat \ {0} /\ KeyEnd(c) \in 1 .. 2 /\ (c.key = "stack" <=> KeyEnd(c) = 1)
      /\ c.fn \in {"lookup", "update"}
  BY CallIs DEF KeyEnd
<1>2. ASSUME NEW w \in InBlock(c), W = << w >>, Place(c, w) <= Place(c, v),
             \A u \in InBlock(c) : Fills(u) => u = w
      PROVE  Good
  <2> HIDE DEF W, Fills
  <2>1. Len(W) = 1 /\ W[1] = w /\ W \in Seq(InBlock(c))
    BY <1>2
  <2> QED
    BY <1>2, <2>1 DEF Fills
<1>3. ASSUME NEW w \in InBlock(c), NEW x \in InBlock(c), W = << w, x >>,
             Place(c, w) <= Place(c, v), Place(c, x) <= Place(c, v),
             \A u \in InBlock(c) : Fills(u) => u = w \/ u = x
      PROVE  Good
  <2> HIDE DEF W, Fills
  <2>1. Len(W) = 2 /\ W[1] = w /\ W[2] = x /\ W \in Seq(InBlock(c))
    BY <1>3
  <2> QED
    BY <1>3, <2>1 DEF Fills
<1>4. ASSUME W = << >>, \A u \in InBlock(c) : ~ Fills(u)
      PROVE  Good
  <2> HIDE DEF W, Fills
  <2>1. Len(W) = 0 /\ W \in Seq(InBlock(c))
    BY <1>4
  <2> QED
    BY <1>4, <2>1 DEF Fills
<1>5. \A u \in InBlock(c) :
        \/ u = Pool!one("key") /\ Place(c, u) = 1 /\ Filled(c, u) = KeyEnd(c)
        \/ /\ u = Pool!one("rawkey") /\ KeyEnd(c) = 2 /\ Place(c, u) = 2 /\ Filled(c, u) = 2
        \/ /\ u = Pool!one("raw") /\ Place(c, u) = KeyEnd(c) + 1 /\ Filled(c, u) = KeyEnd(c) + 2
        \/ \E i \in 1 .. n : /\ u = Pool!pres(i) /\ Place(c, u) = KeyEnd(c) + 1 + i
                             /\ Filled(c, u) = KeyEnd(c) + 1 + i
        \/ \E i \in 1 .. n : /\ u = Pool!tag(i) /\ Place(c, u) = KeyEnd(c) + 1 + n + i
                             /\ Filled(c, u) = KeyEnd(c) + 1 + n + i
        \/ /\ u = Pool!one("tag") /\ Place(c, u) = KeyEnd(c) + 2 + 2 * n
           /\ Filled(c, u) = KeyEnd(c) + 2 + 2 * n
        \/ /\ u = Pool!one("rawfull") /\ Place(c, u) = KeyEnd(c) + 3 + 2 * n
           /\ Filled(c, u) = KeyEnd(c) + 4 + 2 * n
        \/ /\ u = Pool!one("full") /\ Place(c, u) = KeyEnd(c) + 4 + 2 * n
           /\ Filled(c, u) = KeyEnd(c) + 4 + 2 * n
  BY <1>1 DEF InBlock, Filled, Place, Pool!one, Pool!pres, Pool!tag
<1>6. Pool!one("raw") \in InBlock(c) /\ Pool!one("key") \in InBlock(c)
      /\ (v = Pool!one("full") => Pool!one("rawfull") \in InBlock(c))
      /\ Place(c, Pool!one("raw")) = KeyEnd(c) + 1 /\ Place(c, Pool!one("key")) = 1
      /\ Place(c, Pool!one("rawfull")) = KeyEnd(c) + 3 + 2 * n
  BY DEF InBlock, Place, Pool!one, Pool!pres, Pool!tag
<1>7. CASE v = Pool!one("key")
  <2>1. W = IF c.key = "stack" THEN << v >> ELSE << >>
    BY <1>7 DEF Pool!Writes, Pool!one
  <2>2. CASE c.key = "stack"
    <3>1. W = << v >> /\ Place(c, v) = 1 /\ \A u \in InBlock(c) : Fills(u) => u = v
      BY <1>1, <1>5, <1>6, <1>7, <2>1, <2>2
    <3> QED
      BY <1>2, <3>1
  <2>3. CASE c.key # "stack"
    <3>1. W = << >> /\ \A u \in InBlock(c) : ~ Fills(u)
      BY <1>1, <1>5, <1>6, <1>7, <2>1, <2>3
    <3> QED
      BY <1>4, <3>1
  <2> QED
    BY <2>2, <2>3
<1>8. CASE v = Pool!one("rawkey")
  <2>1. W = << v, Pool!one("key") >>
    BY <1>8 DEF Pool!Writes, Pool!one
  <2>2. Place(c, v) = 2 /\ KeyEnd(c) = 2
    BY <1>5, <1>8 DEF Pool!one, Pool!pres, Pool!tag
  <2>3. \A u \in InBlock(c) : Fills(u) => u = v \/ u = Pool!one("key")
    BY <1>1, <1>5, <1>8, <2>2
  <2> QED
    BY <1>3, <1>6, <2>1, <2>2, <2>3
<1>9. CASE v = Pool!one("raw")
  <2>1. W = << >>
    BY <1>9 DEF Pool!Writes, Pool!one
  <2>2. \A u \in InBlock(c) : ~ Fills(u)
    BY <1>1, <1>5, <1>6, <1>9
  <2> QED
    BY <1>4, <2>1, <2>2
<1>10. ASSUME NEW i \in 1 .. n, v = Pool!pres(i)
       PROVE  Good
  <2>1. W = << Pool!one("raw"), v >>
    BY <1>10 DEF Pool!Writes, Pool!one, Pool!pres
  <2>2. Place(c, v) = KeyEnd(c) + 1 + i
    BY <1>10 DEF Place, Pool!pres
  <2>3. \A u \in InBlock(c) : Fills(u) => u = v \/ u = Pool!one("raw")
    BY <1>1, <1>5, <1>10, <2>2
  <2>4. Place(c, Pool!one("raw")) <= Place(c, v) /\ Place(c, v) <= Place(c, v)
    BY <1>1, <1>6, <2>2
  <2> QED
    BY <1>3, <1>6, <2>1, <2>3, <2>4
<1>11. ASSUME NEW i \in 1 .. n, v = Pool!tag(i)
       PROVE  Good
  <2>1. W = << Pool!one("raw"), v >>
    BY <1>1, <1>11 DEF Pool!Writes, Pool!one, Pool!tag
  <2>2. Place(c, v) = KeyEnd(c) + 1 + n + i
    BY <1>1, <1>11 DEF Place, Pool!tag
  <2>3. \A u \in InBlock(c) : Fills(u) => u = v \/ u = Pool!one("raw")
    BY <1>1, <1>5, <1>11, <2>2
  <2>4. Place(c, Pool!one("raw")) <= Place(c, v) /\ Place(c, v) <= Place(c, v)
    BY <1>1, <1>6, <2>2
  <2> QED
    BY <1>3, <1>6, <2>1, <2>3, <2>4
<1>12. CASE v = Pool!one("tag")
  <2>1. W = << v >>
    BY <1>12 DEF Pool!Writes, Pool!one
  <2>2. Place(c, v) = KeyEnd(c) + 2 + 2 * n
    BY <1>12 DEF Place, Pool!one
  <2>3. \A u \in InBlock(c) : Fills(u) => u = v
    BY <1>1, <1>5, <1>12, <2>2
  <2>4. Place(c, v) <= Place(c, v)
    BY <1>1, <2>2
  <2> QED
    BY <1>2, <2>1, <2>3, <2>4
<1>13. CASE v = Pool!one("rawfull")
  <2>1. W = << >>
    BY <1>13 DEF Pool!Writes, Pool!one
  <2>2. \A u \in InBlock(c) : ~ Fills(u)
    BY <1>1, <1>5, <1>6, <1>13
  <2> QED
    BY <1>4, <2>1, <2>2
<1>14. CASE v = Pool!one("full")
  <2>1. W = << Pool!one("rawfull"), v >>
    BY <1>14 DEF Pool!Writes, Pool!one
  <2>2. Place(c, v) = KeyEnd(c) + 4 + 2 * n
    BY <1>14 DEF Place, Pool!one
  <2>3. \A u \in InBlock(c) : Fills(u) => u = v \/ u = Pool!one("rawfull")
    BY <1>1, <1>5, <1>14, <2>2
  <2>4. Place(c, Pool!one("rawfull")) <= Place(c, v) /\ Place(c, v) <= Place(c, v)
    BY <1>1, <1>6, <2>2
  <2> QED
    BY <1>3, <1>6, <1>14, <2>1, <2>3, <2>4
<1>15. \/ v = Pool!one("key") \/ v = Pool!one("rawkey") \/ v = Pool!one("raw")
       \/ \E i \in 1 .. n : v = Pool!pres(i)
       \/ \E i \in 1 .. n : v = Pool!tag(i)
       \/ v = Pool!one("tag") \/ v = Pool!one("rawfull") \/ v = Pool!one("full")
  BY DEF InBlock
<1>16. (\E i \in 1 .. n : v = Pool!pres(i)) => Good
  <2> HIDE DEF Good
  <2> QED
    BY <1>10, Zenon
<1>17. (\E i \in 1 .. n : v = Pool!tag(i)) => Good
  <2> HIDE DEF Good
  <2> QED
    BY <1>11, Zenon
<1> QED
  BY <1>7, <1>8, <1>9, <1>12, <1>13, <1>14, <1>15, <1>16, <1>17, Zenon

(* What a header holds after some values were written.                     *)
Holding(x, t, given, ws, h) ==
  \/ (\A i \in 1 .. Len(ws) : given[ws[i]] # h) /\ x = t[h]
  \/ \E i \in 1 .. Len(ws) : given[ws[i]] = h /\ x = ws[i]

(* What Written leaves in a header.                                        *)
LEMMA WrittenIs ==
  ASSUME NEW t, NEW given, NEW ws, DOMAIN ws = 1 .. Len(ws), Len(ws) \in 0 .. 3,
         NEW h \in DOMAIN t
  PROVE  /\ DOMAIN Pool!Written(t, given, ws) = DOMAIN t
         /\ Holding(Pool!Written(t, given, ws)[h], t, given, ws, h)
<1> DEFINE I == {i \in DOMAIN ws : given[ws[i]] = h}
<1>1. DOMAIN ws = 1 .. Len(ws)
  OBVIOUS
<1>2. DOMAIN Pool!Written(t, given, ws) = DOMAIN t
      /\ Pool!Written(t, given, ws)[h] = IF I = {} THEN t[h] ELSE ws[Pool!Max(I)]
  BY DEF Pool!Written
<1>3. CASE I = {}
  BY <1>1, <1>2, <1>3 DEF Holding
<1>4. CASE I # {}
  <2>1. I \subseteq 1 .. 3
    BY <1>1
  <2> HIDE DEF I
  <2>2. \E x \in I : \A y \in I : x >= y
    <3>1. CASE 3 \in I
      BY <2>1, <3>1
    <3>2. CASE 3 \notin I /\ 2 \in I
      BY <2>1, <3>2
    <3>3. CASE 3 \notin I /\ 2 \notin I
      <4>1. PICK x \in I : TRUE
        BY <1>4, Zenon
      <4> QED
        BY <2>1, <3>3, <4>1
    <3> QED
      BY <3>1, <3>2, <3>3
  <2>3. Pool!Max(I) \in I
    BY <2>2 DEF Pool!Max
  <2> QED
    BY <1>1, <1>2, <1>4, <2>3 DEF I, Holding
<1> QED
  BY <1>3, <1>4

-----------------------------------------------------------------------------
(* The pool while a call is translated and run.  Nothing is claimed once a *)
(* diagnostic was reported.                                                *)
Mem(s)   == {s[i] : i \in 1 .. Len(s)}
Rest(s, n) == SubSeq(s, n + 1, Len(s))
Total(c) == IF c.fn = "update" THEN 2 * c.nslots ELSE 0
Given(c, given, n) ==
  /\ n <= NUM_TMPS
  /\ \A v \in InBlock(c) : Place(c, v) <= n => v \in DOMAIN given /\ given[v] = Place(c, v) - 1
Kept(c, given, t, n) ==
  \A v \in InBlock(c) : Filled(c, v) <= n => t[given[v]] = v
CopyGiven(c, given, m) ==
  /\ Size(c) + m <= NUM_TMPS
  /\ \A j \in 1 .. m : LET v == Pool!copy_map_value(c)[j]
                       IN  v \in DOMAIN given /\ given[v] = Size(c) + j - 1
InBlockOf(c) ==
  \E n \in 0 .. Size(c) :
    /\ todo = Rest(Pool!Block(c), n) /\ tmp_next = n /\ arms = Total(c)
    /\ Given(c, hdrOf, n) /\ Kept(c, hdrOf, tmp, n)
InArms(c) ==
  \/ arms = Total(c) /\ todo = << >>
  \/ /\ c.fn = "update"
     /\ \E m \in 0 .. Len(Pool!copy_map_value(c)) :
          /\ todo = Rest(Pool!copy_map_value(c), m) /\ tmp_next = mark + m
          /\ CopyGiven(c, hdrOf, m)
PoolInv ==
  /\ call \in Pool!Calls /\ error \in BOOLEAN
  /\ at \in {"block", "arms", "decide", "arm", "copied"}
  /\ ~ error =>
       /\ DOMAIN tmp = 0 .. NUM_TMPS - 1
       /\ at = "block" => InBlockOf(call)
       /\ at # "block" => Given(call, hdrOf, Size(call)) /\ mark = Size(call)
       /\ at \in {"arms", "decide", "arm"} => Kept(call, hdrOf, tmp, Size(call))
       /\ at = "arms" => InArms(call)
       /\ at \in {"decide", "arm", "copied"} /\ call.fn = "update" =>
            CopyGiven(call, hdrOf, Len(Pool!copy_map_value(call)))
       /\ at = "copied" /\ call.fn = "update" =>
            \A v \in Mem(Pool!copy_map_value(call)) : tmp[hdrOf[v]] = v

(* The rest of a sequence shrinks one by one.                              *)
LEMMA RestIs ==
  ASSUME NEW Elems, NEW s \in Seq(Elems)
  PROVE  /\ Len(s) \in Nat /\ Rest(s, 0) = s
         /\ \A n \in 0 .. Len(s) :
              /\ Len(Rest(s, n)) = Len(s) - n
              /\ Rest(s, n) = << >> <=> n = Len(s)
              /\ Rest(s, n) # << >> => /\ n < Len(s) /\ n + 1 \in 1 .. Len(s)
                                       /\ Head(Rest(s, n)) = s[n + 1]
                                       /\ Tail(Rest(s, n)) = Rest(s, n + 1)
<1>1. Len(s) \in Nat /\ s = [i \in 1 .. Len(s) |-> s[i]]
  OBVIOUS
<1>2. Rest(s, 0) = s
  BY <1>1 DEF Rest
<1>3. ASSUME NEW n \in 0 .. Len(s)
      PROVE  /\ Len(Rest(s, n)) = Len(s) - n
             /\ Rest(s, n) = << >> <=> n = Len(s)
             /\ Rest(s, n) # << >> => /\ n < Len(s) /\ n + 1 \in 1 .. Len(s)
                                      /\ Head(Rest(s, n)) = s[n + 1]
                                      /\ Tail(Rest(s, n)) = Rest(s, n + 1)
  <2>1. /\ Rest(s, n) \in Seq(Elems) /\ Len(Rest(s, n)) = Len(s) - n
        /\ \A i \in 1 .. Len(s) - n : Rest(s, n)[i] = s[n + i]
    BY <1>1 DEF Rest
  <2>2. Rest(s, n) = << >> <=> n = Len(s)
    <3> DEFINE r == Rest(s, n)
    <3>1. r \in Seq(Elems) /\ Len(r) = Len(s) - n
      BY <2>1
    <3> HIDE DEF r
    <3>2. r = << >> <=> Len(r) = 0
      BY <3>1
    <3>3. r = << >> <=> n = Len(s)
      BY <1>1, <3>1, <3>2
    <3> QED
      BY <3>3 DEF r
  <2>3. ASSUME Rest(s, n) # << >>
        PROVE  /\ n < Len(s) /\ n + 1 \in 1 .. Len(s)
               /\ Head(Rest(s, n)) = s[n + 1] /\ Tail(Rest(s, n)) = Rest(s, n + 1)
    <3>1. n < Len(s) /\ n + 1 \in 1 .. Len(s) /\ n + 1 \in 0 .. Len(s)
      BY <1>1, <2>2, <2>3
    <3>2. Head(Rest(s, n)) = s[n + 1]
      BY <2>1, <3>1
    <3>3. /\ Rest(s, n + 1) \in Seq(Elems) /\ Len(Rest(s, n + 1)) = Len(s) - (n + 1)
          /\ \A i \in 1 .. Len(s) - (n + 1) : Rest(s, n + 1)[i] = s[n + 1 + i]
      BY <1>1, <3>1, SMTT(60) DEF Rest
    <3> DEFINE t == Tail(Rest(s, n))
               u == Rest(s, n + 1)
    <3>4. /\ t \in Seq(Elems) /\ Len(t) = Len(s) - n - 1
          /\ \A i \in 1 .. Len(t) : t[i] = Rest(s, n)[i + 1]
      <4> DEFINE r == Rest(s, n)
      <4>1. r \in Seq(Elems) /\ r # << >> /\ Len(r) = Len(s) - n
        BY <2>1, <2>3
      <4> HIDE DEF r
      <4>2. /\ Tail(r) \in Seq(Elems) /\ Len(Tail(r)) = Len(r) - 1
            /\ \A i \in 1 .. Len(Tail(r)) : Tail(r)[i] = r[i + 1]
        BY <4>1
      <4> QED
        BY <4>1, <4>2 DEF r
    <3>5. ASSUME NEW i \in 1 .. Len(t) PROVE t[i] = u[i]
      <4>1. Len(t) = Len(s) - n - 1 /\ t[i] = Rest(s, n)[i + 1]
        BY <3>4
      <4> HIDE DEF t
      <4>2. i \in Nat /\ i + 1 \in 1 .. Len(s) - n /\ i \in 1 .. Len(s) - (n + 1)
            /\ n + (i + 1) = n + 1 + i
        BY <1>1, <4>1
      <4>3. Rest(s, n)[i + 1] = s[n + (i + 1)]
        BY <2>1, <4>2, Zenon
      <4>4. u[i] = s[n + 1 + i]
        BY <3>3, <4>2, Zenon
      <4> QED
        BY <4>1, <4>2, <4>3, <4>4
    <3>6. t \in Seq(Elems) /\ u \in Seq(Elems) /\ Len(t) = Len(u)
      BY <1>1, <3>1, <3>3, <3>4
    <3> HIDE DEF t, u
    <3>7. t = u
      BY <3>5, <3>6
    <3> QED
      BY <3>1, <3>2, <3>7 DEF t, u
  <2> QED
    BY <2>1, <2>2, <2>3
<1> QED
  BY <1>1, <1>2, <1>3

(* The values an arm copies are its own.                                   *)
LEMMA CopyIs ==
  ASSUME NEW c \in Pool!Calls
  PROVE  /\ Pool!copy_map_value(c) \in Seq(Values) /\ Len(Pool!copy_map_value(c)) \in 0 .. 3
         /\ \A i \in 1 .. Len(Pool!copy_map_value(c)) :
              /\ Pool!copy_map_value(c)[i] \notin InBlock(c)
              /\ \A j \in 1 .. Len(Pool!copy_map_value(c)) :
                   Pool!copy_map_value(c)[i] = Pool!copy_map_value(c)[j] => i = j
<1> DEFINE C == Pool!copy_map_value(c)
           Own == {Pool!one("val"), Pool!one("from"), Pool!one("to"), Pool!one("byte")}
<1>1. Own \subseteq Values
  BY DEF Values, Pool!one
<1>2. \A v \in Own : v \notin InBlock(c)
  BY DEF InBlock, Pool!one, Pool!pres, Pool!tag
<1>3. /\ Pool!one("from") # Pool!one("to") /\ Pool!one("from") # Pool!one("byte")
      /\ Pool!one("to") # Pool!one("byte")
  BY DEF Pool!one
<1>4. \/ C = << >> \/ C = << Pool!one("val") >>
      \/ C = << Pool!one("from"), Pool!one("to"), Pool!one("byte") >>
  BY CallIs DEF Pool!copy_map_value
<1> HIDE DEF C
<1>5. C \in Seq(Own) /\ Len(C) \in 0 .. 3
      /\ (\A i \in 1 .. Len(C) : C[i] \in Own)
      /\ (\A i, j \in 1 .. Len(C) : C[i] = C[j] => i = j)
  <2>1. CASE C = << >>
    BY <2>1
  <2>2. CASE C = << Pool!one("val") >>
    BY <2>2
  <2>3. CASE C = << Pool!one("from"), Pool!one("to"), Pool!one("byte") >>
    <3>1. Len(C) = 3 /\ C[1] = Pool!one("from") /\ C[2] = Pool!one("to")
          /\ C[3] = Pool!one("byte") /\ C \in Seq(Own)
      BY <2>3
    <3> QED
      BY <1>3, <3>1
  <2> QED
    BY <1>4, <2>1, <2>2, <2>3
<1>6. C \in Seq(Values)
  BY <1>1, <1>5
<1> QED
  BY <1>2, <1>5, <1>6 DEF C

(* A value given the next header keeps what the others have.               *)
LEMMA GivenMore ==
  ASSUME NEW c \in Pool!Calls, NEW given, NEW n \in 0 .. Size(c), n < Size(c),
         Given(c, given, n), NEW after, n + 1 <= NUM_TMPS,
         after = [x \in DOMAIN given \cup {Pool!Block(c)[n + 1]} |->
                    IF x = Pool!Block(c)[n + 1] THEN n ELSE given[x]]
  PROVE  Given(c, after, n + 1)
<1> DEFINE b == Pool!Block(c)[n + 1]
<1>1. n + 1 \in 1 .. Size(c) /\ Size(c) \in Nat
  BY CallIs
<1>2. b \in InBlock(c) /\ Place(c, b) = n + 1
  BY <1>1, BlockIs
<1>3. \A v \in InBlock(c) : Place(c, v) \in 1 .. Size(c) /\ (Place(c, v) = n + 1 => v = b)
  BY BlockIs
<1> HIDE DEF b
<1>4. ASSUME NEW v \in InBlock(c), Place(c, v) <= n + 1
      PROVE  v \in DOMAIN after /\ after[v] = Place(c, v) - 1
  <2>1. CASE v = b
    BY <1>1, <1>2, <2>1 DEF b
  <2>2. CASE v # b
    <3>1. Place(c, v) <= n
      BY <1>1, <1>3, <1>4, <2>2
    <3>2. v \in DOMAIN given /\ given[v] = Place(c, v) - 1
      BY <3>1 DEF Given
    <3> QED
      BY <2>2, <3>2 DEF b
  <2> QED
    BY <2>1, <2>2
<1> QED
  BY <1>4 DEF Given

(* The block's operations for one value fill its header and no other that  *)
(* is already in use.                                                      *)
LEMMA KeptMore ==
  ASSUME NEW c \in Pool!Calls, NEW t, DOMAIN t = 0 .. NUM_TMPS - 1,
         NEW given, NEW n \in 0 .. Size(c), n < Size(c),
         NEW after, n + 1 <= NUM_TMPS, Given(c, after, n + 1),
         Kept(c, after, t, n)
  PROVE  /\ Kept(c, after, Pool!Written(t, after, Pool!Writes(c, Pool!Block(c)[n + 1])), n + 1)
         /\ DOMAIN Pool!Written(t, after, Pool!Writes(c, Pool!Block(c)[n + 1])) = DOMAIN t
<1> DEFINE b == Pool!Block(c)[n + 1]
           W == Pool!Writes(c, b)
<1>1. n + 1 \in 1 .. Size(c) /\ Size(c) \in Nat
  BY CallIs
<1>2. b \in InBlock(c) /\ Place(c, b) = n + 1
  BY <1>1, BlockIs
<1>3. /\ W \in Seq(InBlock(c)) /\ Len(W) \in 0 .. 3
      /\ \A i \in 1 .. Len(W) : Place(c, W[i]) <= n + 1 /\ W[i] \in InBlock(c)
      /\ \A u \in InBlock(c) : Filled(c, u) = n + 1 => \E i \in 1 .. Len(W) : W[i] = u
  <2> HIDE DEF b
  <2>1. /\ W \in Seq(InBlock(c)) /\ Len(W) \in 0 .. 2
        /\ \A i \in 1 .. Len(W) : Place(c, W[i]) <= n + 1
        /\ \A u \in InBlock(c) : Filled(c, u) = n + 1 => \E i \in 1 .. Len(W) : W[i] = u
    BY <1>2, WritesIs
  <2> HIDE DEF W
  <2> QED
    BY <2>1
<1> HIDE DEF b, W
<1>4. \A v \in InBlock(c) : /\ Place(c, v) \in 1 .. Size(c) /\ Place(c, v) <= Filled(c, v)
                            /\ Filled(c, v) \in Nat
                            /\ Pool!Block(c)[Place(c, v)] = v
  <2>1. \A v \in InBlock(c) : /\ Place(c, v) \in 1 .. Size(c) /\ Pool!Block(c)[Place(c, v)] = v
    BY BlockIs
  <2>2. \A v \in InBlock(c) : Place(c, v) <= Filled(c, v) /\ Filled(c, v) \in Nat
    <3>1. KeyEnd(c) \in 1 .. 2 /\ c.nslots \in Nat
      BY CallIs
    <3> QED
      BY <2>1, <3>1, SMTT(60) DEF Filled, Place
  <2> QED
    BY <2>1, <2>2
<1>5. ASSUME NEW v \in InBlock(c), Filled(c, v) <= n + 1
      PROVE  Pool!Written(t, after, W)[after[v]] = v
  <2>1. Place(c, v) <= n + 1 /\ after[v] = Place(c, v) - 1 /\ after[v] \in DOMAIN t
    <3>1. Place(c, v) <= n + 1 /\ Place(c, v) \in 1 .. Size(c)
      BY <1>1, <1>4, <1>5
    <3>2. after[v] = Place(c, v) - 1
      BY <3>1 DEF Given
    <3> QED
      BY <1>1, <3>1, <3>2, PoolAssumption
  <2>2. \/ /\ \A i \in 1 .. Len(W) : after[W[i]] # after[v]
           /\ Pool!Written(t, after, W)[after[v]] = t[after[v]]
        \/ \E i \in 1 .. Len(W) :
             after[W[i]] = after[v] /\ Pool!Written(t, after, W)[after[v]] = W[i]
    <3> DEFINE h == after[v]
    <3>1. h \in DOMAIN t /\ DOMAIN W = 1 .. Len(W) /\ Len(W) \in 0 .. 3
      BY <1>3, <2>1
    <3> HIDE DEF h
    <3>2. Holding(Pool!Written(t, after, W)[h], t, after, W, h)
      BY <3>1, WrittenIs
    <3> QED
      BY <3>2 DEF h, Holding
  <2>3. CASE /\ \A i \in 1 .. Len(W) : after[W[i]] # after[v]
             /\ Pool!Written(t, after, W)[after[v]] = t[after[v]]
    <3>1. Filled(c, v) # n + 1
      BY <1>3, <2>3
    <3>2. Filled(c, v) <= n
      BY <1>1, <1>4, <1>5, <3>1
    <3> QED
      BY <2>3, <3>2 DEF Kept
  <2>4. ASSUME NEW i \in 1 .. Len(W), after[W[i]] = after[v],
               Pool!Written(t, after, W)[after[v]] = W[i]
        PROVE  Pool!Written(t, after, W)[after[v]] = v
    <3>1. W[i] \in InBlock(c) /\ Place(c, W[i]) <= n + 1
      BY <1>3
    <3>2. after[W[i]] = Place(c, W[i]) - 1
      BY <3>1 DEF Given
    <3>3. Place(c, W[i]) = Place(c, v)
      BY <1>4, <2>1, <2>4, <3>1, <3>2
    <3>4. W[i] = v
      BY <1>4, <3>1, <3>3
    <3> QED
      BY <2>4, <3>4
  <2> QED
    BY <2>2, <2>3, <2>4
<1>6. DOMAIN Pool!Written(t, after, W) = DOMAIN t
  BY DEF Pool!Written
<1> QED
  BY <1>5, <1>6 DEF Kept, W, b

(* The pool's invariant holds in the beginning ...                         *)
LEMMA PoolStarts == Pool!Init => PoolInv
<1> SUFFICES ASSUME Pool!Init PROVE PoolInv
  OBVIOUS
<1>1. call \in Pool!Calls /\ at = "block" /\ error = FALSE /\ tmp_next = 0
      /\ todo = Pool!Block(call) /\ arms = Total(call)
      /\ DOMAIN tmp = 0 .. NUM_TMPS - 1
  BY DEF Pool!Init, Total
<1>2. Rest(Pool!Block(call), 0) = Pool!Block(call) /\ 0 \in 0 .. Size(call)
  BY <1>1, BlockIs, RestIs, CallIs
<1>3. Given(call, hdrOf, 0) /\ Kept(call, hdrOf, tmp, 0)
  <2>1. \A v \in InBlock(call) : Place(call, v) \in 1 .. Size(call)
    BY <1>1, BlockIs
  <2>2. \A v \in InBlock(call) : Filled(call, v) # 0 /\ Filled(call, v) \in Nat
    <3>1. KeyEnd(call) \in 1 .. 2 /\ call.nslots \in Nat
      BY <1>1, CallIs
    <3> QED
      BY <2>1, <3>1 DEF Filled
  <2> QED
    BY <2>1, <2>2, PoolAssumption DEF Given, Kept
<1>4. InBlockOf(call)
  BY <1>1, <1>2, <1>3 DEF InBlockOf
<1> QED
  BY <1>1, <1>4 DEF PoolInv

(* A header that is not there is reported.                                 *)
LEMMA FreshReports ==
  ASSUME NEW v, Pool!fresh_tmp(v), error \in BOOLEAN
  PROVE  error' \in BOOLEAN /\ (~ error' => ~ error /\ ~ (tmp_next >= NUM_TMPS))
<1>1. error' = (error \/ tmp_next >= NUM_TMPS)
  BY Zenon DEF Pool!fresh_tmp
<1>2. (error \/ tmp_next >= NUM_TMPS) \in BOOLEAN
  OBVIOUS
<1> QED
  BY <1>1, <1>2, Zenon

(* ... is kept by every step ...                                           *)
LEMMA PoolSteps == PoolInv /\ [Pool!Next]_callVars => PoolInv'
<1> SUFFICES ASSUME PoolInv, [Pool!Next]_callVars PROVE PoolInv'
  OBVIOUS
<1> USE DEF callVars
<1>1. call \in Pool!Calls /\ error \in BOOLEAN
      /\ at \in {"block", "arms", "decide", "arm", "copied"}
  BY DEF PoolInv
<1>2. CASE UNCHANGED callVars
  BY <1>2 DEF PoolInv, InBlockOf, InArms
<1>3. CASE Pool!EmitBlock
  <2>1. at = "block" /\ at' = "block" /\ call' = call /\ todo # << >> /\ arms' = arms
        /\ todo' = Tail(todo) /\ Pool!fresh_tmp(Head(todo))
        /\ tmp' = Pool!Written(tmp, hdrOf', Pool!Writes(call, Head(todo)))
    BY <1>3 DEF Pool!EmitBlock
  <2>2. error' \in BOOLEAN /\ (~ error' => ~ error /\ ~ (tmp_next >= NUM_TMPS))
    BY <1>1, <2>1, FreshReports
  <2>3. ASSUME ~ error' PROVE InBlockOf(call)' /\ DOMAIN tmp' = 0 .. NUM_TMPS - 1
    <3>1. ~ error /\ DOMAIN tmp = 0 .. NUM_TMPS - 1
      BY <2>2, <2>3 DEF PoolInv
    <3>2. PICK n \in 0 .. Size(call) :
            /\ todo = Rest(Pool!Block(call), n) /\ tmp_next = n /\ arms = Total(call)
            /\ Given(call, hdrOf, n) /\ Kept(call, hdrOf, tmp, n)
      BY <2>1, <3>1 DEF PoolInv, InBlockOf
    <3>3. /\ Pool!Block(call) \in Seq(Values) /\ Len(Pool!Block(call)) = Size(call)
          /\ Size(call) \in Nat
      BY <1>1, BlockIs, CallIs
    <3>4. n < Size(call) /\ n + 1 \in 0 .. Size(call) /\ n + 1 <= NUM_TMPS
          /\ Head(todo) = Pool!Block(call)[n + 1] /\ todo' = Rest(Pool!Block(call), n + 1)
      <4>1. n + 1 <= NUM_TMPS
        BY <2>2, <2>3, <3>2, PoolAssumption
      <4>2. Rest(Pool!Block(call), n) # << >> /\ n \in 0 .. Len(Pool!Block(call))
        BY <2>1, <3>2, <3>3
      <4>3. /\ n < Len(Pool!Block(call)) /\ n + 1 \in 1 .. Len(Pool!Block(call))
            /\ Head(Rest(Pool!Block(call), n)) = Pool!Block(call)[n + 1]
            /\ Tail(Rest(Pool!Block(call), n)) = Rest(Pool!Block(call), n + 1)
        BY <3>3, <4>2, RestIs
      <4> QED
        BY <2>1, <3>2, <3>3, <4>1, <4>3
    <3> DEFINE b == Pool!Block(call)[n + 1]
    <3>5. hdrOf' = [x \in DOMAIN hdrOf \cup {b} |-> IF x = b THEN n ELSE hdrOf[x]]
          /\ tmp_next' = n + 1
      BY <2>1, <3>2, <3>4, PoolAssumption DEF Pool!fresh_tmp
    <3> DEFINE after == [x \in DOMAIN hdrOf \cup {b} |-> IF x = b THEN n ELSE hdrOf[x]]
               written == Pool!Written(tmp, after, Pool!Writes(call, Pool!Block(call)[n + 1]))
    <3>6. Given(call, after, n + 1)
      BY <1>1, <3>2, <3>4, GivenMore
    <3>7. Kept(call, after, tmp, n)
      <4>1. ASSUME NEW v \in InBlock(call), Filled(call, v) <= n
            PROVE  tmp[after[v]] = v
        <5>1. tmp[hdrOf[v]] = v
          BY <3>2, <4>1 DEF Kept
        <5>2. Place(call, v) <= n
          <6>1. KeyEnd(call) \in 1 .. 2 /\ call.nslots \in Nat /\ Place(call, v) \in 1 .. Size(call)
            BY <1>1, CallIs, BlockIs
          <6> QED
            BY <4>1, <6>1 DEF Filled, Place
        <5>3. hdrOf[v] = Place(call, v) - 1
          BY <3>2, <5>2 DEF Given
        <5>4. after[v] = Place(call, v) - 1
          <6>1. Place(call, v) \in 1 .. Size(call)
            BY <1>1, BlockIs
          <6>2. Place(call, v) <= n + 1
            BY <5>2, <6>1
          <6> HIDE DEF after
          <6> QED
            BY <3>6, <6>2 DEF Given
        <5> QED
          BY <5>1, <5>3, <5>4
      <4> QED
        BY <4>1 DEF Kept
    <3> HIDE DEF after
    <3>8. /\ Kept(call, after, Pool!Written(tmp, after, Pool!Writes(call, Pool!Block(call)[n + 1])),
                   n + 1)
          /\ DOMAIN Pool!Written(tmp, after, Pool!Writes(call, Pool!Block(call)[n + 1])) = DOMAIN tmp
      <4> HIDE DEF b, written
      <4> QED
        BY <1>1, <3>1, <3>2, <3>4, <3>6, <3>7, KeptMore
    <3>9. hdrOf' = after /\ tmp' = written
      BY <2>1, <3>4, <3>5 DEF after
    <3> HIDE DEF written
    <3> QED
      BY <2>1, <3>1, <3>2, <3>4, <3>5, <3>6, <3>8, <3>9, SMTT(60) DEF InBlockOf
  <2> QED
    BY <1>1, <2>1, <2>2, <2>3 DEF PoolInv
<1>4. CASE Pool!EndBlock
  <2>1. /\ at = "block" /\ todo = << >> /\ at' = "arms" /\ mark' = tmp_next
        /\ UNCHANGED <<call, todo, arms, tmp_next, error, hdrOf, tmp>>
    BY <1>4 DEF Pool!EndBlock
  <2>2. ASSUME ~ error
        PROVE  /\ Given(call, hdrOf, Size(call)) /\ Kept(call, hdrOf, tmp, Size(call))
               /\ tmp_next = Size(call) /\ arms = Total(call)
    <3>1. PICK n \in 0 .. Size(call) :
            /\ todo = Rest(Pool!Block(call), n) /\ tmp_next = n /\ arms = Total(call)
            /\ Given(call, hdrOf, n) /\ Kept(call, hdrOf, tmp, n)
      BY <2>1, <2>2 DEF PoolInv, InBlockOf
    <3>2. /\ Pool!Block(call) \in Seq(Values) /\ Len(Pool!Block(call)) = Size(call)
      BY <1>1, BlockIs
    <3>3. Rest(Pool!Block(call), n) = << >> /\ n \in 0 .. Len(Pool!Block(call))
      BY <2>1, <3>1, <3>2
    <3>4. n = Size(call)
      BY <3>2, <3>3, RestIs
    <3> QED
      BY <3>1, <3>4
  <2> QED
    BY <1>1, <2>1, <2>2 DEF PoolInv, InArms
<1>5. CASE Pool!BeginArm
  <2>1. /\ at = "arms" /\ todo = << >> /\ arms > 0 /\ arms' = arms - 1 /\ tmp_next' = mark
        /\ todo' = Pool!copy_map_value(call)
        /\ UNCHANGED <<call, at, mark, error, hdrOf, tmp>>
    BY <1>5 DEF Pool!BeginArm
  <2>2. ASSUME ~ error PROVE InArms(call)'
    <3>1. InArms(call) /\ mark = Size(call) /\ Given(call, hdrOf, Size(call))
      BY <2>1, <2>2 DEF PoolInv
    <3>2. call.fn = "update"
      BY <2>1, <3>1 DEF InArms, Total
    <3>3. /\ Pool!copy_map_value(call) = Rest(Pool!copy_map_value(call), 0)
          /\ Len(Pool!copy_map_value(call)) \in Nat
      BY <1>1, CopyIs, RestIs
    <3>4. CopyGiven(call, hdrOf, 0) /\ tmp_next' = mark + 0
      <4>1. Size(call) \in Nat
        BY <1>1, CallIs
      <4> QED
        BY <2>1, <3>1, <4>1 DEF CopyGiven, Given
    <3> QED
      BY <2>1, <3>2, <3>3, <3>4 DEF InArms
  <2> QED
    BY <1>1, <2>1, <2>2 DEF PoolInv
<1>6. CASE Pool!EmitArm
  <2>1. /\ at = "arms" /\ todo # << >> /\ Pool!fresh_tmp(Head(todo)) /\ todo' = Tail(todo)
        /\ UNCHANGED <<call, at, arms, mark, tmp>>
    BY <1>6 DEF Pool!EmitArm
  <2>2. error' \in BOOLEAN /\ (~ error' => ~ error /\ ~ (tmp_next >= NUM_TMPS))
    BY <1>1, <2>1, FreshReports
  <2> DEFINE C == Pool!copy_map_value(call)
  <2>3. /\ C \in Seq(Values) /\ Len(C) \in Nat /\ Size(call) \in Nat
        /\ \A i \in 1 .. Len(C) : /\ C[i] \notin InBlock(call)
                                  /\ \A j \in 1 .. Len(C) : C[i] = C[j] => i = j
    BY <1>1, CopyIs, CallIs
  <2>4. ASSUME ~ error'
        PROVE  InArms(call)' /\ Given(call, hdrOf', Size(call)) /\ Kept(call, hdrOf', tmp, Size(call))
    <3>1. /\ ~ error /\ InArms(call) /\ mark = Size(call)
          /\ Given(call, hdrOf, Size(call)) /\ Kept(call, hdrOf, tmp, Size(call))
      BY <2>1, <2>2, <2>4 DEF PoolInv
    <3>2. call.fn = "update"
      BY <2>1, <3>1 DEF InArms
    <3>3. PICK m \in 0 .. Len(C) :
            todo = Rest(C, m) /\ tmp_next = mark + m /\ CopyGiven(call, hdrOf, m)
      BY <2>1, <3>1 DEF InArms
    <3>4. /\ m < Len(C) /\ m + 1 \in 1 .. Len(C) /\ Head(todo) = C[m + 1]
          /\ todo' = Rest(C, m + 1)
      <4>1. Rest(C, m) # << >>
        BY <2>1, <3>3
      <4>2. m < Len(C) /\ m + 1 \in 1 .. Len(C) /\ Head(Rest(C, m)) = C[m + 1]
            /\ Tail(Rest(C, m)) = Rest(C, m + 1)
        BY <2>3, <4>1, RestIs
      <4> QED
        BY <2>1, <3>3, <4>2
    <3>5. hdrOf' = [x \in DOMAIN hdrOf \cup {C[m + 1]} |->
                      IF x = C[m + 1] THEN Size(call) + m ELSE hdrOf[x]]
          /\ tmp_next' = Size(call) + m + 1 /\ Size(call) + (m + 1) <= NUM_TMPS
      BY <2>1, <2>2, <2>3, <2>4, <3>1, <3>3, <3>4, PoolAssumption DEF Pool!fresh_tmp
    <3>6. \A v \in InBlock(call) : /\ Place(call, v) \in 1 .. Size(call) /\ v # C[m + 1]
                                   /\ v \in DOMAIN hdrOf
      BY <1>1, <2>3, <3>1, <3>4, BlockIs DEF Given
    <3> HIDE DEF C
    <3>7. \A v \in InBlock(call) : v \in DOMAIN hdrOf' /\ hdrOf'[v] = hdrOf[v]
      BY <3>5, <3>6
    <3>8. Given(call, hdrOf', Size(call)) /\ Kept(call, hdrOf', tmp, Size(call))
      BY <3>1, <3>7 DEF Given, Kept
    <3>9. ASSUME NEW j \in 1 .. m + 1
          PROVE  C[j] \in DOMAIN hdrOf' /\ hdrOf'[C[j]] = Size(call) + j - 1
      <4>1. CASE j = m + 1
        BY <2>3, <3>5, <4>1
      <4>2. CASE j # m + 1
        <5>1. j \in 1 .. m /\ j \in 1 .. Len(C)
          BY <2>3, <4>2
        <5>2. C[j] \in DOMAIN hdrOf /\ hdrOf[C[j]] = Size(call) + j - 1
          BY <3>3, <5>1 DEF CopyGiven, C
        <5>3. C[j] # C[m + 1]
          BY <2>3, <3>4, <4>2, <5>1
        <5> QED
          BY <3>5, <5>2, <5>3
      <4> QED
        BY <4>1, <4>2
    <3>10. CopyGiven(call, hdrOf', m + 1)
      BY <3>5, <3>9 DEF CopyGiven, C
    <3>11. m + 1 \in 0 .. Len(C) /\ tmp_next' = mark' + (m + 1) /\ call' = call
      BY <2>1, <2>3, <3>1, <3>4, <3>5
    <3> QED
      BY <3>2, <3>4, <3>8, <3>10, <3>11 DEF InArms, C
  <2> HIDE DEF C
  <2> QED
    BY <1>1, <2>1, <2>2, <2>4 DEF PoolInv
<1>7. CASE Pool!Translated
  <2>1. /\ at = "arms" /\ todo = << >> /\ arms = 0 /\ at' = "decide"
        /\ UNCHANGED <<call, todo, arms, tmp_next, mark, error, hdrOf, tmp>>
    BY <1>7 DEF Pool!Translated
  <2>2. ASSUME ~ error, call.fn = "update"
        PROVE  CopyGiven(call, hdrOf, Len(Pool!copy_map_value(call)))
    <3>1. InArms(call)
      BY <2>1, <2>2 DEF PoolInv
    <3>2. arms # Total(call)
      <4>1. call.nslots \in Nat \ {0}
        BY <1>1, CallIs
      <4> QED
        BY <2>1, <2>2, <4>1 DEF Total
    <3>3. PICK m \in 0 .. Len(Pool!copy_map_value(call)) :
            todo = Rest(Pool!copy_map_value(call), m) /\ CopyGiven(call, hdrOf, m)
      BY <3>1, <3>2 DEF InArms
    <3>4. m = Len(Pool!copy_map_value(call))
      <4>1. Pool!copy_map_value(call) \in Seq(Values)
        BY <1>1, CopyIs
      <4>2. Rest(Pool!copy_map_value(call), m) = << >>
        BY <2>1, <3>3
      <4> QED
        BY <4>1, <4>2, RestIs
    <3> QED
      BY <3>3, <3>4
  <2> QED
    BY <1>1, <2>1, <2>2 DEF PoolInv
<1>8. CASE Pool!RunArm
  BY <1>1, <1>8 DEF Pool!RunArm, PoolInv
<1>9. CASE Pool!Copy
  <2>1. /\ at = "arm" /\ at' = "copied"
        /\ tmp' = IF call.fn = "update"
                  THEN Pool!Written(tmp, hdrOf, Pool!copy_map_value(call)) ELSE tmp
        /\ UNCHANGED <<call, todo, arms, tmp_next, mark, error, hdrOf>>
    BY <1>9 DEF Pool!Copy
  <2> DEFINE C == Pool!copy_map_value(call)
  <2>2. ASSUME ~ error, call.fn = "update"
        PROVE  DOMAIN tmp' = DOMAIN tmp /\ \A v \in Mem(C) : tmp'[hdrOf[v]] = v
    <3>1. DOMAIN tmp = 0 .. NUM_TMPS - 1 /\ CopyGiven(call, hdrOf, Len(C))
      BY <2>1, <2>2 DEF PoolInv
    <3>2. C \in Seq(Values) /\ Len(C) \in 0 .. 3 /\ Size(call) \in Nat
      BY <1>1, CopyIs, CallIs
    <3>3. DOMAIN C = 1 .. Len(C)
      BY <3>2
    <3>4. tmp' = Pool!Written(tmp, hdrOf, C)
      BY <2>1, <2>2
    <3> HIDE DEF C
    <3>5. ASSUME NEW j \in 1 .. Len(C)
          PROVE  tmp'[hdrOf[C[j]]] = C[j]
      <4> DEFINE h == hdrOf[C[j]]
      <4>1. \A i \in 1 .. Len(C) : hdrOf[C[i]] = Size(call) + i - 1
        BY <3>1 DEF CopyGiven, C
      <4>2. h = Size(call) + j - 1 /\ Size(call) + Len(C) <= NUM_TMPS
        BY <3>1, <4>1 DEF CopyGiven
      <4> HIDE DEF h
      <4>3. h \in DOMAIN tmp
        BY <3>1, <3>2, <4>2, PoolAssumption
      <4>4. Holding(Pool!Written(tmp, hdrOf, C)[h], tmp, hdrOf, C, h)
        BY <3>2, <3>3, <4>3, WrittenIs
      <4>5. PICK i \in 1 .. Len(C) :
              hdrOf[C[i]] = h /\ Pool!Written(tmp, hdrOf, C)[h] = C[i]
        BY <4>4 DEF Holding, h
      <4>6. i = j
        BY <3>2, <4>1, <4>2, <4>5
      <4> QED
        BY <3>4, <4>5, <4>6 DEF h
    <3>6. DOMAIN tmp' = DOMAIN tmp
      BY <3>4 DEF Pool!Written
    <3> QED
      BY <3>5, <3>6 DEF Mem
  <2> HIDE DEF C
  <2>3. tmp' = tmp \/ call.fn = "update"
    BY <2>1
  <2> QED
    BY <1>1, <2>1, <2>2, <2>3 DEF PoolInv, C
<1> QED
  BY <1>2, <1>3, <1>4, <1>5, <1>6, <1>7, <1>8, <1>9 DEF Pool!Next

(* ... and means that what is read is right.                               *)
LEMMA PoolReads == PoolInv => Pool!ReadsRight
<1> SUFFICES ASSUME PoolInv, ~ error, NEW v \in Pool!Live(call, at) PROVE tmp[hdrOf[v]] = v
  BY DEF Pool!ReadsRight
<1>1. call \in Pool!Calls /\ at \in {"block", "arms", "decide", "arm", "copied"}
  BY DEF PoolInv
<1>2. /\ call.nslots \in Nat \ {0} /\ KeyEnd(call) \in 1 .. 2 /\ Size(call) \in Nat
      /\ call.fn \in {"lookup", "update"}
  BY <1>1, CallIs
<1>3. CASE at \in {"decide", "arm"}
  <2>1. Kept(call, hdrOf, tmp, Size(call))
    BY <1>3 DEF PoolInv
  <2>2. \/ v = Pool!one("key")
        \/ \E i \in 1 .. call.nslots : v = Pool!pres(i) \/ v = Pool!tag(i)
        \/ call.fn = "update" /\ (v = Pool!one("full") \/ v = Pool!one("tag"))
    BY <1>3 DEF Pool!Live
  <2>3. v \in InBlock(call) /\ Filled(call, v) <= Size(call)
    BY <1>2, <2>2 DEF InBlock, Filled, Place, Size, Pool!one, Pool!pres, Pool!tag
  <2> QED
    BY <2>1, <2>3 DEF Kept
<1>4. CASE at = "copied"
  <2>1. call.fn = "update" /\ v \in Pool!ToSet(Pool!copy_map_value(call))
    BY <1>4 DEF Pool!Live
  <2>2. v \in Mem(Pool!copy_map_value(call))
    <3>1. Pool!copy_map_value(call) \in Seq(Values)
      BY <1>1, CopyIs
    <3>2. DOMAIN Pool!copy_map_value(call) = 1 .. Len(Pool!copy_map_value(call))
      BY <3>1
    <3> QED
      BY <2>1, <3>2 DEF Pool!ToSet, Mem
  <2> QED
    BY <1>4, <2>1, <2>2 DEF PoolInv
<1> QED
  BY <1>1, <1>3, <1>4 DEF Pool!Live

(* Unless the translation of a map call reported that its scratch headers  *)
(* ran out, the headers its decision and its arms read hold the values the *)
(* block put there, for every number of slots and of headers (fresh_tmp,   *)
(* and the rewinding in emit_tagged_update).                               *)
THEOREM ScratchReadsRight == Spec => []ReadsRight
<1> DEFINE PInv == insn.cls = "CALL" => PoolInv
<1>1. Init => PInv
  <2>1. CASE Alu!Init
    BY <2>1 DEF Alu!Init, Alu!Insns, Alu!Classes
  <2>2. CASE Jump!Init
    BY <2>2 DEF Jump!Init, Jump!Insns
  <2>3. CASE Pool!Init
    BY <2>3, PoolStarts
  <2> QED
    BY <2>1, <2>2, <2>3 DEF Init
<1>2. PInv /\ [Next]_vars => PInv'
  <2> SUFFICES ASSUME PInv, [Next]_vars, insn'.cls = "CALL" PROVE PoolInv'
    OBVIOUS
  <2>1. insn' = insn
    <3>1. CASE TranslateAlu
      BY <3>1 DEF TranslateAlu, Alu!Next, Alu!Refuse, Alu!Translate, Alu!Run
    <3>2. CASE TranslateJump
      BY <3>2 DEF TranslateJump, Jump!Next, Jump!Refuse, Jump!EmitCondition, Jump!Run, Jump!Decide
    <3>3. CASE TranslateCall
      BY <3>3 DEF TranslateCall, aluVars
    <3>4. CASE UNCHANGED vars
      BY <3>4 DEF vars, aluVars
    <3> QED
      BY <3>1, <3>2, <3>3, <3>4 DEF Next
  <2>2. PoolInv /\ [Pool!Next]_callVars
    BY <2>1 DEF Next, TranslateAlu, TranslateJump, TranslateCall, vars
  <2> QED
    BY <2>2, PoolSteps
<1>3. PInv => ReadsRight
  BY PoolReads DEF ReadsRight
<1> QED
  BY <1>1, <1>2, <1>3, PTL DEF Spec

-----------------------------------------------------------------------------
(* ------------------------------ induction ------------------------------ *)
LEMMA Smallest ==
  ASSUME NEW T \in SUBSET Nat, T # {}
  PROVE  \E n \in T : \A m \in T : n <= m
<1>1. PICK n \in T : \A m \in T : ~(<<m, n>> \in OpToRel(<, Nat))
  BY NatLessThanWellFounded, WFMin
<1>2. \A m \in T : ~(m < n)
  BY <1>1 DEF OpToRel
<1> QED
  BY <1>2

(* Induction, with a set for the property.                                 *)
LEMMA Induct ==
  ASSUME NEW G, 0 \in G, \A n \in Nat : n \in G => n + 1 \in G
  PROVE  Nat \subseteq G
<1>1. SUFFICES ASSUME Nat \ G # {} PROVE FALSE
  OBVIOUS
<1>2. PICK n \in Nat \ G : \A m \in Nat \ G : n <= m
  BY <1>1, Smallest
<1>3. n # 0 /\ n - 1 \in Nat /\ n - 1 \in G
  BY <1>2
<1> QED
  BY <1>2, <1>3

(* Going through the steps F[1], ..., F[K] on the values of X.             *)
Runs(X, x0, F, K, h) ==
  h \in [0 .. K -> X] /\ h[0] = x0 /\ \A i \in 1 .. K : h[i] = F[i][h[i - 1]]

(* There is one way through.                                               *)
LEMMA RunsOnce ==
  ASSUME NEW X, NEW x0 \in X, NEW K \in Nat, NEW F \in [1 .. K -> [X -> X]]
  PROVE  \E h : Runs(X, x0, F, K, h)
<1> DEFINE Good(h, n) == /\ h \in [0 .. n -> X] /\ h[0] = x0
                         /\ \A i \in 1 .. n : h[i] = F[i][h[i - 1]]
           G == {n \in Nat : n <= K => \E h : Good(h, n)}
<1>1. 0 \in G
  <2>1. Good([i \in 0 .. 0 |-> x0], 0)
    OBVIOUS
  <2> HIDE DEF Good
  <2> QED
    BY <2>1
<1>2. ASSUME NEW n \in Nat, n \in G PROVE n + 1 \in G
  <2> SUFFICES ASSUME n + 1 <= K PROVE n + 1 \in G
    OBVIOUS
  <2>1. PICK h : Good(h, n)
    <3> HIDE DEF Good
    <3> QED
      BY <1>2
  <2> DEFINE g == [i \in 0 .. n + 1 |-> IF i <= n THEN h[i] ELSE F[n + 1][h[n]]]
  <2>2. g \in [0 .. n + 1 -> X]
    <3>1. F[n + 1] \in [X -> X] /\ h[n] \in X
      BY <2>1
    <3>2. F[n + 1][h[n]] \in X
      BY <3>1
    <3> QED
      BY <2>1, <3>2
  <2>3. g[n + 1] = F[n + 1][h[n]] /\ \A i \in 0 .. n : g[i] = h[i]
    OBVIOUS
  <2> HIDE DEF g
  <2>4. ASSUME NEW i \in 1 .. n + 1 PROVE g[i] = F[i][g[i - 1]]
    <3>1. CASE i <= n
      <4>1. i \in 1 .. n /\ i \in 0 .. n /\ i - 1 \in 0 .. n
        BY <3>1
      <4> QED
        BY <2>1, <2>3, <4>1
    <3>2. CASE i = n + 1
      <4>1. i - 1 = n /\ n \in 0 .. n
        BY <3>2
      <4> QED
        BY <2>3, <3>2, <4>1
    <3> QED
      BY <3>1, <3>2
  <2>5. Good(g, n + 1)
    BY <2>1, <2>2, <2>3, <2>4
  <2> HIDE DEF Good
  <2> QED
    BY <2>5
<1>3. Nat \subseteq G
  <2> HIDE DEF G
  <2> QED
    BY <1>1, <1>2, Induct
<1>4. PICK h : Good(h, K)
  <2>1. K \in G
    <3> HIDE DEF G
    <3> QED
      BY <1>3
  <2> HIDE DEF Good
  <2> QED
    BY <2>1
<1> QED
  BY <1>4 DEF Runs

(* Two functions on 0 .. K that start and go on alike are equal.           *)
StayAlike(f, g, K) ==
  f[0] = g[0] /\ \A i \in 0 .. K - 1 : f[i] = g[i] => f[i + 1] = g[i + 1]

LEMMA Alike ==
  ASSUME NEW K \in Nat, NEW f, NEW g, StayAlike(f, g, K)
  PROVE  \A i \in 0 .. K : f[i] = g[i]
<1> DEFINE G == {n \in Nat : n <= K => f[n] = g[n]}
<1>1. 0 \in G
  BY DEF StayAlike
<1>2. \A n \in Nat : n \in G => n + 1 \in G
  BY DEF StayAlike
<1> HIDE DEF G
<1>3. Nat \subseteq G
  BY <1>1, <1>2, Induct
<1> QED
  BY <1>3 DEF G

-----------------------------------------------------------------------------
-----------------------------------------------------------------------------
(* ------------------------------- words --------------------------------- *)
LEMMA Exp2Is ==
  /\ exp2[0] = 1
  /\ \A k \in Nat : exp2[k] \in Nat \ {0} /\ exp2[k + 1] = 2 * exp2[k]
<1> DEFINE F(K) == [i \in 1 .. K |-> [x \in Nat |-> 2 * x]]
           h(K) == CHOOSE g : Runs(Nat, 1, F(K), K, g)
           e == [k \in Nat |-> h(k)[k]]
<1>1. ASSUME NEW K \in Nat
      PROVE  /\ h(K) \in [0 .. K -> Nat] /\ h(K)[0] = 1
             /\ \A i \in 1 .. K : h(K)[i] = 2 * h(K)[i - 1]
  <2>1. F(K) \in [1 .. K -> [Nat -> Nat]]
    OBVIOUS
  <2>2. \E g : Runs(Nat, 1, F(K), K, g)
    <3> HIDE DEF F
    <3> QED
      BY <2>1, RunsOnce
  <2>3. Runs(Nat, 1, F(K), K, h(K))
    <3> HIDE DEF F
    <3> QED
      BY <2>2
  <2> DEFINE g == h(K)
  <2> HIDE DEF h
  <2>4. /\ g \in [0 .. K -> Nat] /\ g[0] = 1 /\ \A i \in 1 .. K : g[i] = F(K)[i][g[i - 1]]
    BY <2>3 DEF Runs
  <2> HIDE DEF g
  <2>5. ASSUME NEW i \in 1 .. K PROVE g[i] = 2 * g[i - 1]
    <3>1. i - 1 \in 0 .. K
      OBVIOUS
    <3>2. g[i - 1] \in Nat /\ g[i] = F(K)[i][g[i - 1]]
      BY <2>4, <3>1
    <3>3. \A y \in Nat : F(K)[i][y] = 2 * y
      OBVIOUS
    <3> HIDE DEF F
    <3> QED
      BY <3>2, <3>3
  <2> QED
    BY <2>4, <2>5 DEF g
<1> HIDE DEF h
<1>2. ASSUME NEW k \in Nat PROVE h(k + 1)[k + 1] = 2 * h(k)[k] /\ h(k)[k] \in Nat
  <2> DEFINE f == h(k)
             g == h(k + 1)
  <2>1. /\ f \in [0 .. k -> Nat] /\ f[0] = 1 /\ \A i \in 1 .. k : f[i] = 2 * f[i - 1]
    BY <1>1
  <2>2. /\ g \in [0 .. k + 1 -> Nat] /\ g[0] = 1 /\ \A i \in 1 .. k + 1 : g[i] = 2 * g[i - 1]
    BY <1>1
  <2> HIDE DEF f, g
  <2>3. ASSUME NEW i \in 0 .. k - 1, f[i] = g[i] PROVE f[i + 1] = g[i + 1]
    <3>1. i + 1 \in 1 .. k /\ i + 1 \in 1 .. k + 1 /\ (i + 1) - 1 = i
      OBVIOUS
    <3> QED
      BY <2>1, <2>2, <2>3, <3>1
  <2>4. \A i \in 0 .. k : f[i] = g[i]
    <3>1. StayAlike(f, g, k)
      BY <2>1, <2>2, <2>3 DEF StayAlike
    <3> QED
      BY <3>1, Alike
  <2>5. k \in 0 .. k /\ k + 1 \in 1 .. k + 1 /\ (k + 1) - 1 = k
    OBVIOUS
  <2> QED
    BY <2>1, <2>2, <2>4, <2>5 DEF f, g
<1>3. e[0] = 1 /\ \A k \in Nat : e[k] \in Nat /\ e[k + 1] = 2 * e[k]
  BY <1>1, <1>2
<1>4. e = [k \in Nat |-> IF k = 0 THEN 1 ELSE 2 * e[k - 1]]
  <2>1. ASSUME NEW k \in Nat PROVE e[k] = IF k = 0 THEN 1 ELSE 2 * e[k - 1]
    <3>1. CASE k = 0
      BY <1>3, <3>1
    <3>2. CASE k # 0
      <4>1. k - 1 \in Nat /\ (k - 1) + 1 = k
        BY <3>2
      <4> HIDE DEF e
      <4> QED
        BY <1>3, <3>2, <4>1
    <3> QED
      BY <3>1, <3>2
  <2> QED
    BY <2>1
<1> HIDE DEF e
<1>5. exp2 = [k \in Nat |-> IF k = 0 THEN 1 ELSE 2 * exp2[k - 1]]
  BY <1>4 DEF exp2
<1>6. exp2[0] = 1 /\ \A k \in Nat : exp2[k + 1] = 2 * exp2[k]
  <2>1. ASSUME NEW k \in Nat PROVE exp2[k] = IF k = 0 THEN 1 ELSE 2 * exp2[k - 1]
    BY <1>5
  <2>2. ASSUME NEW k \in Nat PROVE exp2[k + 1] = 2 * exp2[k]
    <3>1. k + 1 \in Nat /\ k + 1 # 0 /\ (k + 1) - 1 = k
      OBVIOUS
    <3> QED
      BY <2>1, <3>1
  <2> QED
    BY <2>1, <2>2
<1> DEFINE G == {k \in Nat : exp2[k] \in Nat \ {0}}
<1>7. 0 \in G /\ \A k \in Nat : k \in G => k + 1 \in G
  BY <1>6
<1> HIDE DEF G
<1>8. Nat \subseteq G
  BY <1>7, Induct
<1> QED
  BY <1>6, <1>8 DEF G

(* Powers of two multiply by adding the exponents, and grow.               *)
LEMMA Exp2Sum ==
  ASSUME NEW a \in Nat, NEW b \in Nat
  PROVE  exp2[a + b] = exp2[a] * exp2[b]
<1> DEFINE G == {n \in Nat : exp2[a + n] = exp2[a] * exp2[n]}
<1>1. 0 \in G
  BY Exp2Is
<1>2. ASSUME NEW n \in Nat, n \in G PROVE n + 1 \in G
  <2>1. /\ exp2[a + n] = exp2[a] * exp2[n] /\ a + n \in Nat /\ a + (n + 1) = (a + n) + 1
    BY <1>2
  <2>2. /\ exp2[(a + n) + 1] = 2 * exp2[a + n] /\ exp2[n + 1] = 2 * exp2[n]
        /\ exp2[a] \in Nat /\ exp2[n] \in Nat
    BY <2>1, Exp2Is
  <2> QED
    BY <2>1, <2>2
<1> HIDE DEF G
<1>3. Nat \subseteq G
  BY <1>1, <1>2, Induct
<1> QED
  BY <1>3 DEF G

LEMMA Exp2Grows ==
  ASSUME NEW a \in Nat, NEW b \in Nat, a <= b
  PROVE  /\ exp2[b] = exp2[b - a] * exp2[a] /\ exp2[a] <= exp2[b]
         /\ a < b => 2 * exp2[a] <= exp2[b]
<1>1. b - a \in Nat /\ (b - a) + a = b
  OBVIOUS
<1>2. exp2[b] = exp2[b - a] * exp2[a]
  BY <1>1, Exp2Sum
<1>3. exp2[a] \in Nat \ {0} /\ exp2[b - a] \in Nat \ {0}
  BY <1>1, Exp2Is
<1>4. exp2[a] <= exp2[b]
  BY <1>2, <1>3
<1>5. ASSUME a < b PROVE 2 * exp2[a] <= exp2[b]
  <2>1. b - a - 1 \in Nat /\ (b - a - 1) + 1 = b - a
    BY <1>5
  <2>2. exp2[b - a] = 2 * exp2[b - a - 1] /\ exp2[b - a - 1] \in Nat \ {0}
    BY <2>1, Exp2Is
  <2> DEFINE p == exp2[b - a - 1]
             q == exp2[a]
  <2>3. exp2[b] = (2 * p) * q /\ p \in Nat \ {0} /\ q \in Nat \ {0}
    BY <1>2, <1>3, <2>2
  <2> HIDE DEF p, q
  <2>4. (2 * p) * q >= 2 * q
    BY <2>3
  <2> QED
    BY <2>3, <2>4 DEF q
<1> QED
  BY <1>2, <1>4, <1>5

(* Division with a remainder, and that it is unique.                       *)
LEMMA Division ==
  ASSUME NEW x \in Int, NEW d \in Nat \ {0}
  PROVE  x = (x \div d) * d + (x % d) /\ x % d \in 0 .. d - 1 /\ x \div d \in Int
         /\ (x >= 0 => x \div d \in Nat)
  OBVIOUS

LEMMA Divides ==
  ASSUME NEW x \in Int, NEW q \in Int, NEW d \in Nat \ {0}, NEW r \in 0 .. d - 1, x = q * d + r
  PROVE  x \div d = q /\ x % d = r
  OBVIOUS

(* The bits of the widest word.                                            *)
LEMMA TopIs == Top \in Nat /\ Top = 8 * Byte /\ Byte \in Nat \ {0}
  BY WordsAssumption DEF Top, Bits, W64

(* The lowest i + 1 bits of a word are bit i and the lowest i.             *)
LEMMA BitIs ==
  ASSUME NEW x \in Nat, NEW i \in Nat
  PROVE  /\ bit(x, i) \in {0, 1} /\ x % exp2[i] \in 0 .. exp2[i] - 1
         /\ x % exp2[i + 1] = (x % exp2[i]) + bit(x, i) * exp2[i]
         /\ x < exp2[i] => bit(x, i) = 0 /\ x % exp2[i] = x
<1> DEFINE p == exp2[i]
           q == x \div p
           r == x % p
           b == q % 2
           o == q \div 2
<1>1. p \in Nat \ {0} /\ exp2[i + 1] = 2 * p
  BY Exp2Is
<1>2. bit(x, i) = b
  BY DEF bit
<1> HIDE DEF p
<1>3. x = q * p + r /\ r \in 0 .. p - 1 /\ q \in Nat
  <2>1. x \in Int /\ x >= 0 /\ p \in Nat \ {0}
    BY <1>1
  <2> QED
    BY <2>1, Division
<1> HIDE DEF q, r
<1>4. q = o * 2 + b /\ b \in {0, 1} /\ o \in Nat
  BY <1>3
<1> HIDE DEF o, b
<1>5. x = o * (2 * p) + (r + b * p)
  <2>1. q * p = (o * 2 + b) * p
    BY <1>4
  <2>2. (o * 2 + b) * p = o * (2 * p) + b * p
    BY <1>1, <1>4
  <2>3. b * p \in Nat /\ o * (2 * p) \in Nat
    BY <1>1, <1>4
  <2> QED
    BY <1>1, <1>3, <2>1, <2>2, <2>3
<1>6. r + b * p \in 0 .. 2 * p - 1
  BY <1>1, <1>3, <1>4
<1>7. x % (2 * p) = r + b * p
  <2> DEFINE m == r + b * p
             dd == 2 * p
  <2>1. dd \in Nat \ {0} /\ m \in 0 .. dd - 1 /\ x = o * dd + m /\ o \in Int
    BY <1>1, <1>4, <1>5, <1>6
  <2> HIDE DEF m, dd
  <2>2. x % dd = m
    BY <2>1, Divides
  <2> QED
    BY <2>2 DEF m, dd
<1>8. ASSUME x < p PROVE b = 0 /\ r = x
  <2>1. x = 0 * p + x /\ x \in 0 .. p - 1
    BY <1>1, <1>8
  <2>2. q = 0 /\ r = x
    BY <1>1, <2>1, Divides DEF q, r
  <2> QED
    BY <2>2 DEF b
<1> QED
  BY <1>1, <1>2, <1>3, <1>4, <1>7, <1>8 DEF p, r

(* A word is found from its bits by adding them up.                        *)
Sums(b, s) ==
  s[0] = 0 /\ \A i \in 0 .. Top - 1 : s[i + 1] = s[i] + b[i] * exp2[i]

LEMMA BitSum ==
  ASSUME NEW b, NEW s, Sums(b, s)
  PROVE  FromBits(b) = s[Top]
<1> DEFINE Is(f) == f = [i \in 0 .. Top |->
                            IF i = 0 THEN 0 ELSE f[i - 1] + b[i - 1] * exp2[i - 1]]
           f == CHOOSE f : Is(f)
           g == [i \in 0 .. Top |-> s[i]]
<1>1. Top \in Nat
  BY TopIs
<1>2. Is(g)
  <2>1. ASSUME NEW i \in 0 .. Top
        PROVE  g[i] = IF i = 0 THEN 0 ELSE g[i - 1] + b[i - 1] * exp2[i - 1]
    <3>1. CASE i = 0
      BY <3>1 DEF Sums
    <3>2. CASE i # 0
      <4>1. i - 1 \in 0 .. Top - 1 /\ i - 1 \in 0 .. Top /\ (i - 1) + 1 = i
        BY <1>1, <3>2
      <4>2. s[i] = s[i - 1] + b[i - 1] * exp2[i - 1]
        BY <4>1 DEF Sums
      <4> QED
        BY <3>2, <4>1, <4>2
    <3> QED
      BY <3>1, <3>2
  <2> QED
    BY <2>1
<1>3. Is(f)
  <2> HIDE DEF Is, g
  <2> QED
    BY <1>2
<1>4. FromBits(b) = f[Top]
  BY DEF FromBits
<1> HIDE DEF f
<1>5. \A i \in 0 .. Top : f[i] = IF i = 0 THEN 0 ELSE f[i - 1] + b[i - 1] * exp2[i - 1]
  BY <1>3
<1>6. f[0] = s[0] /\ \A i \in 0 .. Top - 1 : f[i] = s[i] => f[i + 1] = s[i + 1]
  <2>1. f[0] = s[0]
    BY <1>1, <1>5 DEF Sums
  <2>2. ASSUME NEW i \in 0 .. Top - 1, f[i] = s[i] PROVE f[i + 1] = s[i + 1]
    <3>1. i + 1 \in 0 .. Top /\ i + 1 # 0 /\ (i + 1) - 1 = i
      BY <1>1
    <3> QED
      BY <1>5, <2>2, <3>1 DEF Sums
  <2> QED
    BY <2>1, <2>2
<1>7. f[Top] = s[Top]
  BY <1>1, <1>6, Alike DEF StayAlike
<1> QED
  BY <1>4, <1>7

(* Bits make a word, and the bitwise operators words of words.             *)
LEMMA FromBitsIs ==
  ASSUME NEW b, \A i \in 0 .. Top - 1 : b[i] \in {0, 1}
  PROVE  FromBits(b) \in Word(W64)
<1> DEFINE F == [i \in 1 .. Top |-> [x \in Nat |-> x + b[i - 1] * exp2[i - 1]]]
<1>1. Top \in Nat /\ Word(W64) = 0 .. exp2[Top] - 1
  BY TopIs DEF Word, Modulus, Top
<1>2. F \in [1 .. Top -> [Nat -> Nat]]
  <2>1. ASSUME NEW i \in 1 .. Top, NEW x \in Nat PROVE x + b[i - 1] * exp2[i - 1] \in Nat
    <3>1. i - 1 \in 0 .. Top - 1 /\ i - 1 \in Nat
      BY <1>1
    <3>2. b[i - 1] \in {0, 1} /\ exp2[i - 1] \in Nat
      BY <3>1, Exp2Is
    <3> QED
      BY <3>2
  <2> QED
    BY <2>1
<1>3. PICK s : Runs(Nat, 0, F, Top, s)
  <2> HIDE DEF F
  <2> QED
    BY <1>1, <1>2, RunsOnce
<1>4. /\ s \in [0 .. Top -> Nat] /\ s[0] = 0
      /\ \A i \in 1 .. Top : s[i] = F[i][s[i - 1]]
  BY <1>3 DEF Runs
<1>5. ASSUME NEW i \in 0 .. Top - 1 PROVE s[i + 1] = s[i] + b[i] * exp2[i] /\ s[i] \in Nat
  <2>1. i + 1 \in 1 .. Top /\ (i + 1) - 1 = i /\ i \in 0 .. Top
    BY <1>1
  <2>2. s[i] \in Nat /\ s[i + 1] = F[i + 1][s[i]]
    BY <1>4, <2>1
  <2>3. \A y \in Nat : F[i + 1][y] = y + b[(i + 1) - 1] * exp2[(i + 1) - 1]
    BY <2>1
  <2> HIDE DEF F
  <2> QED
    BY <2>1, <2>2, <2>3
<1>6. FromBits(b) = s[Top]
  <2>1. Sums(b, s)
    <3> HIDE DEF F
    <3> QED
      BY <1>4, <1>5 DEF Sums
  <2> HIDE DEF F
  <2> QED
    BY <1>4, <2>1, BitSum
<1> DEFINE G == {i \in Nat : i <= Top => s[i] < exp2[i]}
<1>7. 0 \in G
  BY <1>4, Exp2Is
<1>8. ASSUME NEW i \in Nat, i \in G PROVE i + 1 \in G
  <2> SUFFICES ASSUME i + 1 <= Top PROVE s[i + 1] < exp2[i + 1]
    OBVIOUS
  <2>1. i \in 0 .. Top - 1 /\ s[i] < exp2[i]
    BY <1>1, <1>8
  <2>2. s[i + 1] = s[i] + b[i] * exp2[i] /\ s[i] \in Nat /\ b[i] \in {0, 1}
        /\ exp2[i + 1] = 2 * exp2[i] /\ exp2[i] \in Nat
    BY <1>5, <2>1, Exp2Is
  <2> QED
    BY <2>1, <2>2
<1> HIDE DEF G
<1>9. Top \in G
  BY <1>1, <1>7, <1>8, Induct
<1>10. s[Top] \in Nat /\ exp2[Top] \in Nat /\ s[Top] < exp2[Top]
  <2>1. Top \in 0 .. Top
    BY <1>1
  <2>2. s[Top] \in Nat /\ s[Top] < exp2[Top]
    BY <1>1, <1>4, <1>9, <2>1 DEF G
  <2> QED
    BY <1>1, <2>2, Exp2Is
<1> QED
  BY <1>1, <1>6, <1>10

LEMMA BitwiseIs ==
  ASSUME NEW x \in Nat, NEW y \in Nat
  PROVE  x & y \in Word(W64) /\ x | y \in Word(W64) /\ x ^^ y \in Word(W64)
         /\ (x | y) = (y | x)
<1>1. \A i \in 0 .. Top - 1 : bit(x, i) \in {0, 1} /\ bit(y, i) \in {0, 1}
  BY BitIs, TopIs
<1> DEFINE a == [i \in 0 .. Top - 1 |-> bit(x, i) * bit(y, i)]
           o == [i \in 0 .. Top - 1 |-> IF bit(x, i) + bit(y, i) = 0 THEN 0 ELSE 1]
           p == [i \in 0 .. Top - 1 |-> IF bit(y, i) + bit(x, i) = 0 THEN 0 ELSE 1]
           e == [i \in 0 .. Top - 1 |-> (bit(x, i) + bit(y, i)) % 2]
<1>2. \A i \in 0 .. Top - 1 : a[i] \in {0, 1}
  BY <1>1
<1>3. \A i \in 0 .. Top - 1 : o[i] \in {0, 1}
  BY <1>1
<1>4. \A i \in 0 .. Top - 1 : e[i] \in {0, 1}
  BY <1>1
<1>5. o = p
  BY <1>1
<1>6. (x & y) = FromBits(a) /\ (x ^^ y) = FromBits(e)
      /\ (x | y) = FromBits(o) /\ (y | x) = FromBits(p)
  BY DEF &, |, ^^
<1> HIDE DEF a, o, p, e
<1>7. FromBits(a) \in Word(W64) /\ FromBits(o) \in Word(W64) /\ FromBits(e) \in Word(W64)
  BY <1>2, <1>3, <1>4, FromBitsIs
<1> QED
  BY <1>5, <1>6, <1>7

(* A mask of ones keeps the lowest bits.                                   *)
LEMMA AndMask ==
  ASSUME NEW x \in Nat, NEW k \in 0 .. Top
  PROVE  x & (exp2[k] - 1) = x % exp2[k]
<1> DEFINE m == exp2[k] - 1
           a == [i \in 0 .. Top - 1 |-> bit(x, i) * bit(m, i)]
           s == [i \in 0 .. Top |-> IF i <= k THEN x % exp2[i] ELSE x % exp2[k]]
<1>1. Top \in Nat /\ k \in Nat /\ exp2[k] \in Nat \ {0} /\ m \in Nat /\ m < exp2[k]
  <2>1. Top \in Nat
    BY TopIs
  <2>2. k \in Nat
    BY <2>1
  <2>3. exp2[k] \in Nat \ {0}
    BY <2>2, Exp2Is
  <2> QED
    BY <2>1, <2>2, <2>3
<1>2. ASSUME NEW i \in 0 .. Top - 1
      PROVE  bit(m, i) = IF i < k THEN 1 ELSE 0
  <2>1. i \in Nat /\ exp2[i] \in Nat \ {0}
    BY <1>1, Exp2Is
  <2>2. CASE i < k
    <3> DEFINE p == exp2[i]
               j == k - i - 1
               q == exp2[j]
    <3>1. j \in Nat /\ j + 1 = k - i /\ k - i \in Nat
      BY <1>1, <2>1, <2>2
    <3>2. q \in Nat \ {0} /\ exp2[k - i] = 2 * q
      BY <3>1, Exp2Is
    <3>3. exp2[k] = (2 * q) * p
      BY <1>1, <2>1, <2>2, <3>2, Exp2Grows
    <3> HIDE DEF q, p, m
    <3>4. p \in Nat \ {0}
      BY <2>1 DEF p
    <3>5. m = (2 * q - 1) * p + (p - 1) /\ p - 1 \in 0 .. p - 1 /\ 2 * q - 1 \in Int
      BY <3>2, <3>3, <3>4 DEF m
    <3>6. m \div p = 2 * q - 1
      BY <1>1, <3>4, <3>5, Divides
    <3>7. (2 * q - 1) % 2 = 1
      BY <3>2
    <3> QED
      BY <2>2, <3>6, <3>7 DEF bit, p
  <2>3. CASE ~ (i < k)
    <3>1. exp2[k] <= exp2[i]
      BY <1>1, <2>1, <2>3, Exp2Grows
    <3>2. m < exp2[i]
      BY <1>1, <2>1, <3>1
    <3> HIDE DEF m
    <3> QED
      BY <1>1, <2>1, <2>3, <3>2, BitIs
  <2> QED
    BY <2>2, <2>3
<1>3. (x & m) = FromBits(a)
  BY DEF &
<1> HIDE DEF m
<1>4. ASSUME NEW i \in 0 .. Top - 1 PROVE s[i + 1] = s[i] + a[i] * exp2[i]
  <2>1. i \in Nat /\ i \in 0 .. Top /\ i + 1 \in 0 .. Top /\ a[i] = bit(x, i) * bit(m, i)
    BY <1>1
  <2>2. /\ bit(x, i) \in {0, 1} /\ x % exp2[i] \in Int /\ exp2[i] \in Nat
        /\ x % exp2[i + 1] = (x % exp2[i]) + bit(x, i) * exp2[i]
    <3>1. exp2[i] \in Nat
      BY <2>1, Exp2Is
    <3>2. x % exp2[i] \in 0 .. exp2[i] - 1
      BY <2>1, BitIs
    <3> QED
      BY <2>1, <3>1, <3>2, BitIs
  <2>3. CASE i < k
    <3>1. a[i] = bit(x, i)
      BY <1>2, <2>1, <2>2, <2>3
    <3>2. s[i + 1] = x % exp2[i + 1] /\ s[i] = x % exp2[i]
      BY <1>1, <2>1, <2>3
    <3> QED
      BY <2>2, <3>1, <3>2
  <2>4. CASE ~ (i < k)
    <3>1. a[i] = 0
      BY <1>2, <2>1, <2>2, <2>4
    <3>2. s[i + 1] = x % exp2[k] /\ s[i] = x % exp2[k]
      BY <1>1, <2>1, <2>4
    <3>3. x % exp2[k] \in Int
      BY <1>1
    <3> QED
      BY <2>2, <3>1, <3>2, <3>3
  <2> QED
    BY <2>3, <2>4
<1>5. s[0] = 0 /\ s[Top] = x % exp2[k]
  <2>1. 0 \in 0 .. Top /\ Top \in 0 .. Top /\ x % exp2[0] = 0
    BY <1>1, Exp2Is
  <2>2. s[0] = 0
    BY <1>1, <2>1
  <2>3. s[Top] = IF Top <= k THEN x % exp2[Top] ELSE x % exp2[k]
    BY <2>1
  <2>4. Top <= k => Top = k
    BY <1>1
  <2> QED
    BY <2>2, <2>3, <2>4
<1> HIDE DEF a, s
<1>6. FromBits(a) = s[Top]
  <2>1. Sums(a, s)
    BY <1>4, <1>5 DEF Sums
  <2> QED
    BY <1>4, <1>5, <2>1, BitSum
<1> QED
  BY <1>3, <1>5, <1>6 DEF m

(* The lowest bits of a multiple of a power of two are 0.                  *)
LEMMA LowBits ==
  ASSUME NEW x \in Nat, NEW k \in Nat, x % exp2[k] = 0, NEW i \in 0 .. k
  PROVE  x % exp2[i] = 0 /\ (i < k => bit(x, i) = 0)
<1>1. ASSUME NEW j \in 0 .. k PROVE x % exp2[j] = 0
  <2> DEFINE q == x \div exp2[k]
             p == exp2[j]
             r == exp2[k - j]
  <2>1. j \in Nat /\ j <= k /\ k - j \in Nat
    OBVIOUS
  <2>2. exp2[k] = r * p /\ p \in Nat \ {0} /\ r \in Nat \ {0} /\ exp2[k] \in Nat \ {0}
    BY <2>1, Exp2Is, Exp2Grows
  <2>3. x = q * exp2[k] + 0 /\ q \in Int
    <3>1. x \in Int
      OBVIOUS
    <3> QED
      BY <2>2, <3>1, Division
  <2> HIDE DEF p, q, r
  <2> DEFINE z == q * r
  <2>4. x = z * p + 0 /\ z \in Int /\ 0 \in 0 .. p - 1 /\ x \in Int
    BY <2>2, <2>3
  <2> HIDE DEF z
  <2>5. x % p = 0
    BY <2>2, <2>4, Divides
  <2> QED
    BY <2>5 DEF p
<1>2. ASSUME i < k PROVE bit(x, i) = 0
  <2>1. i \in Nat /\ i + 1 \in 0 .. k
    BY <1>2
  <2>2. x % exp2[i] = 0 /\ x % exp2[i + 1] = 0
    BY <1>1, <2>1
  <2>3. bit(x, i) \in {0, 1} /\ exp2[i] \in Nat \ {0}
        /\ x % exp2[i + 1] = (x % exp2[i]) + bit(x, i) * exp2[i]
    BY <2>1, BitIs, Exp2Is, ZenonT(60)
  <2> QED
    BY <2>2, <2>3
<1> QED
  BY <1>1, <1>2

(* Two words that have no bits in common are added.                        *)
LEMMA OrDisjoint ==
  ASSUME NEW x \in Nat, NEW y \in Nat, NEW k \in 0 .. Top,
         x % exp2[k] = 0, x < exp2[Top], y < exp2[k]
  PROVE  (x | y) = x + y
<1> DEFINE o == [i \in 0 .. Top - 1 |-> IF bit(x, i) + bit(y, i) = 0 THEN 0 ELSE 1]
           s == [i \in 0 .. Top |-> IF i <= k THEN y % exp2[i] ELSE y + (x % exp2[i])]
<1>1. Top \in Nat /\ k \in Nat
  BY TopIs
<1>2. (x | y) = FromBits(o)
  BY DEF |
<1>3. exp2[k] \in Nat \ {0} /\ y % exp2[k] = y
  BY <1>1, Exp2Is, BitIs
<1>4. ASSUME NEW i \in 0 .. Top - 1 PROVE s[i + 1] = s[i] + o[i] * exp2[i]
  <2>1. i \in Nat /\ i \in 0 .. Top /\ i + 1 \in 0 .. Top /\ exp2[i] \in Nat
    BY <1>1, Exp2Is
  <2>2. /\ bit(x, i) \in {0, 1} /\ x % exp2[i] \in 0 .. exp2[i] - 1
        /\ x % exp2[i + 1] = (x % exp2[i]) + bit(x, i) * exp2[i]
    BY <2>1, BitIs
  <2>3. /\ bit(y, i) \in {0, 1} /\ y % exp2[i] \in 0 .. exp2[i] - 1
        /\ y % exp2[i + 1] = (y % exp2[i]) + bit(y, i) * exp2[i]
    BY <2>1, BitIs
  <2>4. o[i] = IF bit(x, i) + bit(y, i) = 0 THEN 0 ELSE 1
    OBVIOUS
  <2>5. CASE i < k
    <3>1. bit(x, i) = 0
      BY <1>1, <2>1, <2>5, LowBits
    <3>2. o[i] = bit(y, i)
      BY <2>3, <2>4, <3>1
    <3>3. s[i + 1] = y % exp2[i + 1] /\ s[i] = y % exp2[i]
      BY <1>1, <2>1, <2>5
    <3> HIDE DEF o, s
    <3> QED
      BY <2>3, <3>2, <3>3
  <2>6. CASE ~ (i < k)
    <3>1. y < exp2[i]
      <4>1. exp2[k] <= exp2[i]
        BY <1>1, <2>1, <2>6, Exp2Grows
      <4> QED
        BY <1>3, <2>1, <4>1
    <3>2. bit(y, i) = 0
      BY <2>1, <3>1, BitIs
    <3>3. o[i] = bit(x, i)
      BY <2>2, <2>4, <3>2
    <3>4. s[i + 1] = y + (x % exp2[i + 1])
      BY <1>1, <2>1, <2>6
    <3>5. s[i] = y + (x % exp2[i])
      <4>1. CASE i = k
        BY <1>3, <2>1, <4>1
      <4>2. CASE i # k
        BY <1>1, <2>1, <2>6, <4>2
      <4> QED
        BY <4>1, <4>2
    <3> HIDE DEF o, s
    <3> QED
      BY <2>1, <2>2, <3>3, <3>4, <3>5
  <2> QED
    BY <2>5, <2>6
<1>5. s[0] = 0 /\ s[Top] = x + y
  <2>1. 0 \in 0 .. Top /\ Top \in 0 .. Top /\ y % exp2[0] = 0
    BY <1>1, Exp2Is
  <2>2. s[0] = 0
    BY <1>1, <2>1
  <2>3. x % exp2[Top] = x
    BY <1>1, BitIs
  <2>4. CASE Top = k
    BY <1>1, <1>3, <2>1, <2>3, <2>4
  <2>5. CASE Top # k
    <3>1. s[Top] = y + (x % exp2[Top])
      BY <1>1, <2>1, <2>5
    <3> QED
      BY <2>2, <2>3, <3>1
  <2> QED
    BY <2>4, <2>5
<1> HIDE DEF o, s
<1>6. FromBits(o) = s[Top]
  <2>1. Sums(o, s)
    BY <1>4, <1>5 DEF Sums
  <2> QED
    BY <1>4, <1>5, <2>1, BitSum
<1> QED
  BY <1>2, <1>5, <1>6

(* Flipping the highest bit of a word that has k + 1.                      *)
LEMMA XorTop ==
  ASSUME NEW x \in Nat, NEW k \in 0 .. Top - 1, x < exp2[k + 1]
  PROVE  x ^^ exp2[k] = IF x < exp2[k] THEN x + exp2[k] ELSE x - exp2[k]
<1> DEFINE y == exp2[k]
           e == [i \in 0 .. Top - 1 |-> (bit(x, i) + bit(y, i)) % 2]
           s == [i \in 0 .. Top |-> IF i <= k THEN x % exp2[i]
                                    ELSE (x % exp2[k]) + (1 - bit(x, k)) * exp2[k]]
<1>1. Top \in Nat /\ k \in Nat /\ y \in Nat \ {0} /\ exp2[k + 1] = 2 * y
  <2>1. Top \in Nat
    BY TopIs
  <2>2. k \in Nat
    BY <2>1
  <2> QED
    BY <2>1, <2>2, Exp2Is
<1>2. x ^^ y = FromBits(e)
  BY DEF ^^
<1>3. /\ bit(x, k) \in {0, 1} /\ x % exp2[k] \in 0 .. exp2[k] - 1
      /\ x % exp2[k + 1] = (x % exp2[k]) + bit(x, k) * exp2[k]
      /\ x % exp2[k + 1] = x
  <2>1. k + 1 \in Nat
    BY <1>1
  <2> QED
    BY <1>1, <2>1, BitIs
<1>4. y \div y = 1 /\ y % y = 0
  <2>1. y = 1 * y + 0 /\ 0 \in 0 .. y - 1 /\ y \in Int
    BY <1>1
  <2> HIDE DEF y
  <2> QED
    BY <1>1, <2>1, Divides
<1>5. ASSUME NEW i \in 0 .. Top - 1
      PROVE  bit(y, i) = IF i = k THEN 1 ELSE 0
  <2>1. i \in Nat
    BY <1>1
  <2>2. CASE i < k
    BY <1>1, <1>4, <2>1, <2>2, LowBits
  <2>3. CASE i = k
    BY <1>4, <2>3 DEF bit
  <2>4. CASE i > k
    <3>1. k < i /\ k <= i /\ k \in Nat
      BY <1>1, <2>1, <2>4
    <3>2. 2 * exp2[k] <= exp2[i]
      BY <2>1, <3>1, Exp2Grows
    <3>3. y < exp2[i] /\ y \in Nat
      BY <1>1, <2>1, <3>2, Exp2Is
    <3> HIDE DEF y
    <3>4. bit(y, i) = 0
      BY <2>1, <3>3, BitIs
    <3> QED
      BY <3>1, <3>4
  <2> QED
    BY <1>1, <2>1, <2>2, <2>3, <2>4
<1> HIDE DEF y
<1>6. ASSUME NEW i \in 0 .. Top - 1 PROVE s[i + 1] = s[i] + e[i] * exp2[i]
  <2>1. i \in Nat /\ i \in 0 .. Top /\ i + 1 \in 0 .. Top /\ exp2[i] \in Nat
    BY <1>1, Exp2Is
  <2>2. /\ bit(x, i) \in {0, 1} /\ x % exp2[i] \in 0 .. exp2[i] - 1
        /\ x % exp2[i + 1] = (x % exp2[i]) + bit(x, i) * exp2[i]
    BY <2>1, BitIs
  <2>3. e[i] = (bit(x, i) + bit(y, i)) % 2
    OBVIOUS
  <2>4. CASE i < k
    <3>1. e[i] = bit(x, i)
      BY <1>1, <1>5, <2>1, <2>2, <2>3, <2>4
    <3>2. s[i + 1] = x % exp2[i + 1] /\ s[i] = x % exp2[i]
      BY <1>1, <2>1, <2>4
    <3> HIDE DEF e, s
    <3> QED
      BY <2>2, <3>1, <3>2
  <2>5. CASE i = k
    <3>1. e[i] = 1 - bit(x, k)
      BY <1>1, <1>5, <2>1, <2>2, <2>3, <2>5
    <3>2. s[i + 1] = (x % exp2[k]) + (1 - bit(x, k)) * exp2[k] /\ s[i] = x % exp2[k]
      BY <1>1, <2>1, <2>5
    <3> HIDE DEF e, s
    <3> QED
      BY <2>5, <3>1, <3>2
  <2>6. CASE i > k
    <3>1. bit(x, i) = 0
      <4>1. exp2[k + 1] <= exp2[i] /\ k + 1 \in Nat /\ exp2[k + 1] \in Nat
        BY <1>1, <2>1, <2>6, Exp2Grows, Exp2Is
      <4>2. x < exp2[i]
        BY <2>1, <4>1
      <4> QED
        BY <2>1, <4>2, BitIs
    <3>2. e[i] = 0
      BY <1>1, <1>5, <2>1, <2>3, <2>6, <3>1
    <3>3. s[i + 1] = (x % exp2[k]) + (1 - bit(x, k)) * exp2[k] /\ s[i] = s[i + 1]
      BY <1>1, <2>1, <2>6
    <3>4. s[i] \in Int
      <4>1. exp2[k] \in Nat
        BY <1>1 DEF y
      <4>2. (x % exp2[k]) + (1 - bit(x, k)) * exp2[k] \in Int
        BY <1>3, <4>1
      <4> HIDE DEF s
      <4> QED
        BY <3>3, <4>2
    <3> HIDE DEF e, s
    <3> QED
      BY <2>1, <3>2, <3>3, <3>4
  <2> QED
    BY <1>1, <2>1, <2>4, <2>5, <2>6
<1>7. s[0] = 0 /\ s[Top] = (x % exp2[k]) + (1 - bit(x, k)) * exp2[k]
  <2>1. 0 \in 0 .. Top /\ Top \in 0 .. Top /\ x % exp2[0] = 0 /\ ~ (Top <= k) /\ 0 <= k
    BY <1>1, Exp2Is
  <2> QED
    BY <2>1
<1> HIDE DEF e, s
<1>8. FromBits(e) = s[Top]
  <2>1. Sums(e, s)
    BY <1>6, <1>7 DEF Sums
  <2> QED
    BY <1>6, <1>7, <2>1, BitSum
<1>9. CASE x < exp2[k]
  <2>1. bit(x, k) = 0 /\ x % exp2[k] = x
    BY <1>1, <1>9, BitIs
  <2> QED
    BY <1>1, <1>2, <1>7, <1>8, <1>9, <2>1 DEF y
<1>10. CASE ~ (x < exp2[k])
  <2>1. bit(x, k) = 1
    BY <1>1, <1>3, <1>10 DEF y
  <2>2. x % exp2[k] = x - exp2[k]
    BY <1>1, <1>3, <2>1 DEF y
  <2> QED
    BY <1>1, <1>2, <1>7, <1>8, <1>10, <2>1, <2>2 DEF y
<1> QED
  BY <1>9, <1>10

-----------------------------------------------------------------------------
(* ----------------------------- operations ------------------------------ *)
(* The words of the three instances are the same.                          *)
LEMMA Exp2Same == Alu!exp2 = exp2 /\ Kernel!exp2 = exp2 /\ Jump!exp2 = exp2
  BY DEF exp2, Alu!exp2, Kernel!exp2, Jump!exp2

(* The instances of Words agree: sizes, bits and bitwise operators.        *)
LEMMA SizesSame ==
  /\ W32 = 4 /\ W64 = 8 /\ Alu!W8 = 1 /\ Alu!W16 = 2 /\ Alu!W32 = 4 /\ Alu!W64 = 8
  /\ Jump!W32 = 4 /\ Jump!W64 = 8
  /\ \A w : Alu!Bits(w) = Bits(w) /\ Kernel!Bits(w) = Bits(w) /\ Jump!Bits(w) = Bits(w)
  /\ \A w : Alu!Modulus(w) = Modulus(w) /\ Kernel!Modulus(w) = Modulus(w)
            /\ Kernel!M(w) = Modulus(w) /\ Jump!Modulus(w) = Modulus(w)
  /\ \A v, w : Alu!Trunc(v, w) = Trunc(v, w) /\ Jump!Trunc(v, w) = Trunc(v, w)
  /\ Alu!Top = Top /\ Kernel!Top = Top /\ Jump!Top = Top
  BY Exp2Same DEF Bits, Alu!Bits, Kernel!Bits, Jump!Bits, Modulus, Alu!Modulus, Kernel!Modulus,
     Jump!Modulus, Kernel!M, Trunc, Alu!Trunc, Jump!Trunc, Top, Alu!Top, Kernel!Top, Jump!Top,
     W32, W64, Alu!W8, Alu!W16, Alu!W32, Alu!W64, Kernel!W64, Jump!W32, Jump!W64

LEMMA BitSame ==
  /\ \A x, i : Alu!bit(x, i) = bit(x, i)
  /\ \A x, i : Kernel!bit(x, i) = bit(x, i)
  /\ \A x, i : Jump!bit(x, i) = bit(x, i)
  BY Exp2Same DEF bit, Alu!bit, Kernel!bit, Jump!bit

LEMMA FromBitsSame ==
  /\ \A b : Alu!FromBits(b) = FromBits(b)
  /\ \A b : Kernel!FromBits(b) = FromBits(b)
  /\ \A b : Jump!FromBits(b) = FromBits(b)
  BY Exp2Same, SizesSame DEF FromBits, Alu!FromBits, Kernel!FromBits, Jump!FromBits

LEMMA AndSame == \A x, y : /\ Alu!&(x, y) = (x & y) /\ Kernel!&(x, y) = (x & y)
                           /\ Jump!&(x, y) = (x & y)
  BY BitSame, FromBitsSame, SizesSame DEF &, Alu!&, Kernel!&, Jump!&

LEMMA OrSame == \A x, y : /\ Alu!|(x, y) = (x | y) /\ Kernel!|(x, y) = (x | y)
                          /\ Jump!|(x, y) = (x | y)
  BY BitSame, FromBitsSame, SizesSame DEF |, Alu!|, Kernel!|, Jump!|

LEMMA XorSame == \A x, y : /\ Alu!^^(x, y) = (x ^^ y) /\ Kernel!^^(x, y) = (x ^^ y)
                           /\ Jump!^^(x, y) = (x ^^ y)
  BY BitSame, FromBitsSame, SizesSame DEF ^^, Alu!^^, Kernel!^^, Jump!^^

(* The value of an operation on words.                                     *)
Computed(f, x, y, w) ==
  CASE f = "AddOp" -> Trunc(x + y, w)
    [] f = "SubOp" -> Trunc(x - y, w)
    [] f = "MulOp" -> Trunc(x * y, w)
    [] f = "DivOp" -> IF y = 0 THEN 0 ELSE x \div y
    [] f = "ModOp" -> IF y = 0 THEN x ELSE x % y
    [] f = "AndOp" -> x & y
    [] f = "OrOp"  -> x | y
    [] f = "XorOp" -> x ^^ y
Fs == {"AddOp", "SubOp", "MulOp", "DivOp", "ModOp", "AndOp", "OrOp", "XorOp"}

LEMMA ComputeSame ==
  ASSUME NEW f \in Fs, NEW x, NEW y, NEW w
  PROVE  Alu!Compute(f, x, y, w) = Computed(f, x, y, w)
         /\ Jump!Compute(f, x, y, w) = Computed(f, x, y, w)
<1>1. /\ Alu!Trunc(x + y, w) = Trunc(x + y, w) /\ Jump!Trunc(x + y, w) = Trunc(x + y, w)
      /\ Alu!Trunc(x - y, w) = Trunc(x - y, w) /\ Jump!Trunc(x - y, w) = Trunc(x - y, w)
      /\ Alu!Trunc(x * y, w) = Trunc(x * y, w) /\ Jump!Trunc(x * y, w) = Trunc(x * y, w)
  BY SizesSame
<1>2. /\ Alu!&(x, y) = (x & y) /\ Alu!|(x, y) = (x | y) /\ Alu!^^(x, y) = (x ^^ y)
      /\ Jump!&(x, y) = (x & y) /\ Jump!|(x, y) = (x | y) /\ Jump!^^(x, y) = (x ^^ y)
  BY AndSame, OrSame, XorSame
<1> QED
  BY <1>1, <1>2 DEF Alu!Compute, Jump!Compute, Computed, Fs

(* What truncating to a width gives.                                       *)
LEMMA WordIs ==
  ASSUME NEW w \in 0 .. 8
  PROVE  /\ Bits(w) \in 0 .. Top /\ Modulus(w) = exp2[Bits(w)] /\ Modulus(w) \in Nat \ {0}
         /\ Word(w) = 0 .. Modulus(w) - 1 /\ Word(w) \subseteq Word(8)
         /\ \A v \in Int : Trunc(v, w) \in Word(w)
         /\ \A v \in Word(w) : Trunc(v, w) = v /\ Trunc(v, 8) = v
<1>1. Byte \in Nat \ {0} /\ Top = 8 * Byte
  BY TopIs
<1>2. Bits(w) \in Nat /\ Bits(w) <= Top /\ Bits(8) = Top
  BY <1>1 DEF Bits
<1>3. Modulus(w) = exp2[Bits(w)] /\ Modulus(8) = exp2[Top]
  BY <1>2 DEF Modulus
<1>4. Modulus(w) \in Nat \ {0} /\ Modulus(8) \in Nat \ {0} /\ Modulus(w) <= Modulus(8)
  <2>1. Top \in Nat
    BY <1>1
  <2>2. exp2[Bits(w)] \in Nat \ {0} /\ exp2[Top] \in Nat \ {0}
    BY <1>2, <2>1, Exp2Is
  <2>3. exp2[Bits(w)] <= exp2[Top]
    BY <1>2, <2>1, Exp2Grows
  <2> QED
    BY <1>3, <2>2, <2>3
<1>5. Word(w) = 0 .. Modulus(w) - 1 /\ Word(8) = 0 .. Modulus(8) - 1
  BY DEF Word
<1>6. \A v \in Int : Trunc(v, w) \in Word(w)
  BY <1>4, <1>5 DEF Trunc
<1>7. ASSUME NEW v \in Word(w) PROVE Trunc(v, w) = v /\ Trunc(v, 8) = v
  <2>1. v \in Nat /\ v < Modulus(w) /\ v < Modulus(8)
    BY <1>4, <1>5
  <2>2. \A m \in Nat \ {0} : v < m => v % m = v
    BY <2>1
  <2> QED
    BY <1>4, <2>1, <2>2 DEF Trunc
<1>8. Word(w) \subseteq Word(8)
  BY <1>4, <1>5
<1>9. Bits(w) \in 0 .. Top
  BY <1>1, <1>2
<1> QED
  BY <1>3, <1>4, <1>5, <1>6, <1>7, <1>8, <1>9

(* States of the headers, and the operations that are well formed.         *)
Cells   == [w : Nat, v : Nat]
States  == [Alu!Headers -> Cells]
Consts  == [is : {"const"}, v : Int]
Held    == [is : {"hdr"}, v : Alu!Headers]
Opds    == Consts \cup Held
Widths  == {4, 8}
OpSet   == [f : Fs, w : Widths, a : Opds, b : Opds, to : Alu!Headers]
           \cup [f : {"Cast"}, w : Widths, a : Held, b : [is : {"const"}, v : Widths],
                 to : Alu!Headers]

(* What an operand is worth at a width it has.                             *)
Worth(h, a, w) == IF a.is = "const" THEN Trunc(a.v, w) ELSE h[a.v].v
Fits(h, a, w)  == a \in Consts \/ (a \in Held /\ h[a.v].w = w)

LEMMA ComputedIn ==
  ASSUME NEW f \in Fs, NEW w \in Widths, NEW x \in Nat, NEW y \in Nat
  PROVE  Computed(f, x, y, w) \in Nat
<1>1. Word(w) \subseteq Nat /\ Word(8) \subseteq Nat /\ \A v \in Int : Trunc(v, w) \in Word(w)
  <2>1. w \in 0 .. 8 /\ 8 \in 0 .. 8
    BY DEF Widths
  <2>2. Word(w) \subseteq Nat /\ Word(8) \subseteq Nat
    <3>1. /\ Word(w) = 0 .. Modulus(w) - 1 /\ Modulus(w) \in Nat \ {0}
          /\ Word(8) = 0 .. Modulus(8) - 1 /\ Modulus(8) \in Nat \ {0}
      BY <2>1, WordIs
    <3> QED
      BY <3>1
  <2>3. \A v \in Int : Trunc(v, w) \in Word(w)
    BY <2>1, WordIs
  <2> QED
    BY <2>2, <2>3
<1>2. x & y \in Nat /\ x | y \in Nat /\ x ^^ y \in Nat
  BY <1>1, BitwiseIs, SizesSame
<1>3. Trunc(x + y, w) \in Nat /\ Trunc(x - y, w) \in Nat /\ Trunc(x * y, w) \in Nat
  <2>1. x + y \in Int /\ x - y \in Int /\ x * y \in Int
    OBVIOUS
  <2> QED
    BY <1>1, <2>1
<1>4. y # 0 => x \div y \in Nat /\ x % y \in Nat
  <2>1. ASSUME y # 0 PROVE x \div y \in Nat /\ x % y \in Nat
    BY <2>1, Division
  <2> QED
    BY <2>1
<1> QED
  BY <1>2, <1>3, <1>4 DEF Computed, Fs

(* The effect of an operation on headers that have its width.              *)
LEMMA BinIs ==
  ASSUME NEW h \in States, NEW f \in Fs, NEW w \in Widths, NEW a, NEW b,
         NEW t \in Alu!Headers, Fits(h, a, w), Fits(h, b, w)
  PROVE  Alu!Effect(h, Alu!binop(f, w, a, b, t))
           = [h EXCEPT ![t] = Alu!Cell(w, Computed(f, Worth(h, a, w), Worth(h, b, w), w))]
<1> DEFINE o == Alu!binop(f, w, a, b, t)
           x == Worth(h, a, w)
           y == Worth(h, b, w)
<1>1. o.f = f /\ o.w = w /\ o.a = a /\ o.b = b /\ o.to = t /\ f # "Cast"
  BY DEF Alu!binop, Fs
<1>2. w # 0
  BY DEF Widths
<1>3. ASSUME NEW u, Fits(h, u, w) PROVE Alu!Operand(h, u, w) = Alu!Cell(w, Worth(h, u, w))
  <2>1. CASE u \in Consts
    <3>1. u.is = "const"
      BY <2>1 DEF Consts
    <3> QED
      BY <3>1, SizesSame DEF Alu!Operand, Worth
  <2>2. CASE u \in Held /\ h[u.v].w = w
    <3>1. u.is = "hdr" /\ u.v \in Alu!Headers
      BY <2>2 DEF Held
    <3>2. h[u.v] \in Cells
      BY <3>1 DEF States
    <3>3. h[u.v] = Alu!Cell(w, h[u.v].v)
      BY <2>2, <3>2 DEF Cells, Alu!Cell
    <3> QED
      BY <2>2, <3>1, <3>3 DEF Alu!Operand, Worth
  <2> QED
    BY <1>3, <2>1, <2>2 DEF Fits
<1>4. Alu!Operand(h, a, w) = Alu!Cell(w, x) /\ Alu!Operand(h, b, w) = Alu!Cell(w, y)
  BY <1>3
<1>5. \A v : Alu!Cell(w, v) # Alu!ErrorVal /\ Alu!Cell(w, v).v = v
  BY <1>2 DEF Alu!Cell, Alu!ErrorVal
<1> HIDE DEF o, x, y
<1>6. Alu!Binary(h, o) = Alu!Cell(w, Alu!Compute(f, x, y, w))
  BY <1>1, <1>4, <1>5 DEF Alu!Binary
<1>7. Alu!Effect(h, o) = [h EXCEPT ![t] = Alu!Binary(h, o)]
  BY <1>1 DEF Alu!Effect
<1> QED
  BY <1>6, <1>7, ComputeSame DEF o, x, y

(* The same for a cast, and that no operation leads out of the states.     *)
LEMMA CastIs ==
  ASSUME NEW h \in States, NEW from \in Widths, NEW w \in Widths, NEW a \in Alu!Headers,
         NEW t \in Alu!Headers, h[a].w = from
  PROVE  Alu!Effect(h, Alu!cast(from, w, Alu!hdr(a), t))
           = [h EXCEPT ![t] = Alu!Cell(w, Trunc(h[a].v, w))]
<1> DEFINE o == Alu!cast(from, w, Alu!hdr(a), t)
<1>1. o.f = "Cast" /\ o.w = w /\ o.a = Alu!hdr(a) /\ o.b.v = from /\ o.to = t
  BY DEF Alu!cast, Alu!konst
<1>2. Alu!hdr(a).is = "hdr" /\ Alu!hdr(a).v = a
  BY DEF Alu!hdr
<1>3. h[a] \in Cells /\ from # 0
  BY DEF States, Widths
<1>4. h[a] # Alu!ErrorVal
  BY <1>3 DEF Alu!ErrorVal, Alu!Cell
<1> HIDE DEF o
<1>5. Alu!Operand(h, o.a, o.b.v) = h[a]
  BY <1>1, <1>2 DEF Alu!Operand
<1>6. Alu!Cast(h, o) = Alu!Cell(w, Trunc(h[a].v, w))
  BY <1>1, <1>4, <1>5, SizesSame DEF Alu!Cast
<1>7. Alu!Effect(h, o) = [h EXCEPT ![t] = Alu!Cast(h, o)]
  BY <1>1 DEF Alu!Effect
<1> QED
  BY <1>6, <1>7 DEF o

(* Every well-formed operation leads from a state to a state.              *)
LEMMA EffectIn ==
  ASSUME NEW h \in States, NEW o \in OpSet
  PROVE  Alu!Effect(h, o) \in States
<1>0. \A w \in Widths, v \in Int : Trunc(v, w) \in Nat
  <2>1. ASSUME NEW w \in Widths, NEW v \in Int PROVE Trunc(v, w) \in Nat
    <3>1. w \in 0 .. 8
      BY DEF Widths
    <3>2. Trunc(v, w) \in Word(w) /\ Word(w) = 0 .. Modulus(w) - 1
      BY <3>1, WordIs
    <3> QED
      BY <3>2
  <2> QED
    BY <2>1
<1>1. ASSUME NEW u \in Opds, NEW w \in Widths
      PROVE  Alu!Operand(h, u, w) \in Cells
  <2>1. CASE u \in Consts
    <3>1. u.is = "const" /\ u.v \in Int /\ w \in Nat
      BY <2>1 DEF Consts, Widths
    <3>2. Trunc(u.v, w) \in Nat
      BY <1>0, <3>1
    <3> QED
      BY <3>1, <3>2, SizesSame DEF Alu!Operand, Alu!Cell, Cells
  <2>2. CASE u \in Held
    <3>1. u.is = "hdr" /\ h[u.v] \in Cells /\ Alu!ErrorVal \in Cells
      BY <2>2 DEF Held, States, Alu!ErrorVal, Alu!Cell, Cells
    <3> QED
      BY <3>1 DEF Alu!Operand
  <2> QED
    BY <2>1, <2>2 DEF Opds
<1>2. Alu!ErrorVal \in Cells
  BY DEF Alu!ErrorVal, Alu!Cell, Cells
<1>3. CASE o \in [f : Fs, w : Widths, a : Opds, b : Opds, to : Alu!Headers]
  <2>1. o.f \in Fs /\ o.w \in Widths /\ o.a \in Opds /\ o.b \in Opds /\ o.to \in Alu!Headers
        /\ o.f # "Cast"
    BY <1>3 DEF Fs
  <2> DEFINE x == Alu!Operand(h, o.a, o.w)
             y == Alu!Operand(h, o.b, o.w)
  <2>2. x \in Cells /\ y \in Cells
    BY <1>1, <2>1
  <2>3. Alu!Binary(h, o) = IF Alu!ErrorVal \in {x, y} THEN Alu!ErrorVal
                           ELSE Alu!Cell(o.w, Alu!Compute(o.f, x.v, y.v, o.w))
    BY DEF Alu!Binary
  <2> HIDE DEF x, y
  <2>4. Alu!Compute(o.f, x.v, y.v, o.w) \in Nat
    <3>1. x.v \in Nat /\ y.v \in Nat
      BY <2>2 DEF Cells
    <3>2. Computed(o.f, x.v, y.v, o.w) \in Nat
      BY <2>1, <3>1, ComputedIn
    <3> QED
      BY <2>1, <3>2, ComputeSame
  <2>5. Alu!Binary(h, o) \in Cells
    BY <1>2, <2>1, <2>3, <2>4 DEF Alu!Cell, Cells, Widths
  <2>6. Alu!Effect(h, o) = [h EXCEPT ![o.to] = Alu!Binary(h, o)]
    BY <2>1 DEF Alu!Effect
  <2> QED
    BY <2>5, <2>6 DEF States
<1>4. CASE o \in [f : {"Cast"}, w : Widths, a : Held, b : [is : {"const"}, v : Widths],
                  to : Alu!Headers]
  <2>1. o.f = "Cast" /\ o.w \in Widths /\ o.a \in Opds /\ o.b.v \in Widths /\ o.to \in Alu!Headers
    BY <1>4 DEF Opds
  <2> DEFINE x == Alu!Operand(h, o.a, o.b.v)
  <2>2. x \in Cells
    BY <1>1, <2>1
  <2>3. Alu!Cast(h, o) = IF x = Alu!ErrorVal THEN Alu!ErrorVal
                         ELSE Alu!Cell(o.w, Trunc(x.v, o.w))
    BY SizesSame DEF Alu!Cast
  <2> HIDE DEF x
  <2>4. Trunc(x.v, o.w) \in Nat /\ o.w \in Nat
    BY <1>0, <2>1, <2>2 DEF Cells, Widths
  <2>5. Alu!Cast(h, o) \in Cells
    BY <1>2, <2>3, <2>4 DEF Alu!Cell, Cells
  <2>6. Alu!Effect(h, o) = [h EXCEPT ![o.to] = Alu!Cast(h, o)]
    BY <2>1 DEF Alu!Effect
  <2> QED
    BY <2>5, <2>6 DEF States
<1> QED
  BY <1>3, <1>4 DEF OpSet

(* The states that a sequence of operations leads through.                 *)
Trail(h, s, a) ==
  a[0] = h /\ \A i \in 1 .. Len(s) : a[i] = Alu!Effect(a[i - 1], s[i])

(* The trail ends in what Exec gives, and there is one.                    *)
LEMMA TrailEnds ==
  ASSUME NEW h, NEW s \in Seq(OpSet), NEW a, Trail(h, s, a)
  PROVE  Alu!Exec(h, s) = a[Len(s)]
<1> DEFINE Is(f) == f = [i \in 0 .. Len(s) |-> IF i = 0 THEN h ELSE Alu!Effect(f[i - 1], s[i])]
           f == CHOOSE f : Is(f)
           g == [i \in 0 .. Len(s) |-> a[i]]
<1>1. Len(s) \in Nat
  OBVIOUS
<1>2. Is(g)
  <2>1. ASSUME NEW i \in 0 .. Len(s)
        PROVE  g[i] = IF i = 0 THEN h ELSE Alu!Effect(g[i - 1], s[i])
    <3>1. CASE i = 0
      BY <1>1, <3>1 DEF Trail
    <3>2. CASE i # 0
      <4>1. i - 1 \in 0 .. Len(s) /\ i \in 1 .. Len(s)
        BY <1>1, <3>2
      <4>2. a[i] = Alu!Effect(a[i - 1], s[i])
        BY <4>1 DEF Trail
      <4> QED
        BY <3>2, <4>1, <4>2
    <3> QED
      BY <3>1, <3>2
  <2> QED
    BY <2>1
<1>3. Is(f)
  <2> HIDE DEF Is, g
  <2> QED
    BY <1>2
<1>4. Alu!Exec(h, s) = f[Len(s)]
  BY DEF Alu!Exec
<1> HIDE DEF f
<1>5. \A i \in 0 .. Len(s) : f[i] = IF i = 0 THEN h ELSE Alu!Effect(f[i - 1], s[i])
  BY <1>3
<1>6. f[0] = a[0] /\ \A i \in 0 .. Len(s) - 1 : f[i] = a[i] => f[i + 1] = a[i + 1]
  <2>1. f[0] = a[0]
    BY <1>1, <1>5 DEF Trail
  <2>2. ASSUME NEW i \in 0 .. Len(s) - 1, f[i] = a[i] PROVE f[i + 1] = a[i + 1]
    <3>1. i + 1 \in 0 .. Len(s) /\ i + 1 # 0 /\ (i + 1) - 1 = i /\ i + 1 \in 1 .. Len(s)
      BY <1>1
    <3>2. f[i + 1] = Alu!Effect(f[(i + 1) - 1], s[i + 1])
      BY <1>5, <3>1
    <3>3. a[i + 1] = Alu!Effect(a[(i + 1) - 1], s[i + 1])
      BY <3>1 DEF Trail
    <3> QED
      BY <2>2, <3>1, <3>2, <3>3
  <2> QED
    BY <2>1, <2>2
<1>7. \A i \in 0 .. Len(s) : f[i] = a[i]
  BY <1>1, <1>6, Alike DEF StayAlike
<1> QED
  BY <1>1, <1>4, <1>7

LEMMA TrailIs ==
  ASSUME NEW h \in States, NEW s \in Seq(OpSet)
  PROVE  \E a \in [0 .. Len(s) -> States] : Trail(h, s, a) /\ Alu!Exec(h, s) = a[Len(s)]
<1> DEFINE F == [i \in 1 .. Len(s) |-> [g \in States |-> Alu!Effect(g, s[i])]]
<1>1. Len(s) \in Nat /\ \A i \in 1 .. Len(s) : s[i] \in OpSet
  OBVIOUS
<1>2. F \in [1 .. Len(s) -> [States -> States]]
  BY <1>1, EffectIn
<1>3. PICK a : Runs(States, h, F, Len(s), a)
  <2> HIDE DEF F
  <2> QED
    BY <1>1, <1>2, RunsOnce
<1>4. /\ a \in [0 .. Len(s) -> States] /\ a[0] = h
      /\ \A i \in 1 .. Len(s) : a[i] = F[i][a[i - 1]]
  BY <1>3 DEF Runs
<1>5. ASSUME NEW i \in 1 .. Len(s) PROVE a[i] = Alu!Effect(a[i - 1], s[i])
  <2>1. i - 1 \in 0 .. Len(s)
    BY <1>1
  <2>2. a[i - 1] \in States /\ a[i] = F[i][a[i - 1]]
    BY <1>4, <2>1
  <2>3. \A g \in States : F[i][g] = Alu!Effect(g, s[i])
    OBVIOUS
  <2> HIDE DEF F
  <2> QED
    BY <2>2, <2>3
<1>6. Trail(h, s, a)
  BY <1>4, <1>5 DEF Trail
<1>7. Alu!Exec(h, s) = a[Len(s)]
  BY <1>6, TrailEnds
<1> QED
  BY <1>4, <1>6, <1>7

(* Executing nothing, one operation, and one sequence after another.       *)
LEMMA ExecNone ==
  ASSUME NEW h \in States
  PROVE  Alu!Exec(h, << >>) = h
<1> DEFINE s == << >>
<1>1. s \in Seq(OpSet) /\ Len(s) = 0
  OBVIOUS
<1> HIDE DEF s
<1>2. PICK a \in [0 .. Len(s) -> States] : Trail(h, s, a) /\ Alu!Exec(h, s) = a[Len(s)]
  BY <1>1, TrailIs
<1> QED
  BY <1>1, <1>2 DEF Trail, s

LEMMA ExecOne ==
  ASSUME NEW h \in States, NEW o \in OpSet
  PROVE  Alu!Exec(h, << o >>) = Alu!Effect(h, o)
<1> DEFINE s == << o >>
<1>1. s \in Seq(OpSet) /\ Len(s) = 1 /\ s[1] = o
  OBVIOUS
<1> HIDE DEF s
<1>2. PICK a \in [0 .. Len(s) -> States] : Trail(h, s, a) /\ Alu!Exec(h, s) = a[Len(s)]
  BY <1>1, TrailIs
<1>3. a[1] = Alu!Effect(a[1 - 1], s[1]) /\ a[0] = h
  BY <1>1, <1>2 DEF Trail
<1> QED
  BY <1>1, <1>2, <1>3 DEF s

LEMMA ExecJoin ==
  ASSUME NEW h \in States, NEW s \in Seq(OpSet), NEW t \in Seq(OpSet)
  PROVE  /\ s \o t \in Seq(OpSet) /\ Alu!Exec(h, s) \in States
         /\ Alu!Exec(h, s \o t) = Alu!Exec(Alu!Exec(h, s), t)
<1> DEFINE st == s \o t
           g == Alu!Exec(h, s)
<1>1. PICK a \in [0 .. Len(s) -> States] : Trail(h, s, a) /\ g = a[Len(s)]
  BY TrailIs
<1>2. Len(s) \in Nat /\ Len(t) \in Nat
  OBVIOUS
<1>3. g \in States
  BY <1>1, <1>2
<1> HIDE DEF g
<1>4. PICK b \in [0 .. Len(t) -> States] : Trail(g, t, b) /\ Alu!Exec(g, t) = b[Len(t)]
  BY <1>3, TrailIs
<1>5. /\ st \in Seq(OpSet) /\ Len(st) = Len(s) + Len(t)
      /\ \A i \in 1 .. Len(s) : st[i] = s[i]
      /\ \A i \in 1 .. Len(t) : st[Len(s) + i] = t[i]
  OBVIOUS
<1> HIDE DEF st
<1> DEFINE c == [i \in 0 .. Len(st) |-> IF i <= Len(s) THEN a[i] ELSE b[i - Len(s)]]
<1>6. c[0] = h /\ c[Len(st)] = b[Len(t)]
  <2>1. c[0] = h
    BY <1>1, <1>2, <1>5 DEF Trail
  <2>2. CASE Len(t) = 0
    BY <1>1, <1>2, <1>4, <1>5, <2>1, <2>2 DEF Trail
  <2>3. CASE Len(t) # 0
    BY <1>2, <1>5, <2>1, <2>3
  <2> QED
    BY <2>2, <2>3, Zenon
<1>7. ASSUME NEW i \in 1 .. Len(st) PROVE c[i] = Alu!Effect(c[i - 1], st[i])
  <2>1. i \in 0 .. Len(st) /\ i - 1 \in 0 .. Len(st)
    BY <1>2, <1>5
  <2>2. CASE i <= Len(s)
    <3>1. i \in 1 .. Len(s) /\ i - 1 <= Len(s)
      BY <1>2, <2>2
    <3>2. a[i] = Alu!Effect(a[i - 1], s[i])
      BY <1>1, <3>1 DEF Trail
    <3>3. c[i] = a[i] /\ c[i - 1] = a[i - 1] /\ st[i] = s[i]
      BY <1>5, <2>1, <3>1
    <3> QED
      BY <3>2, <3>3
  <2>3. CASE i > Len(s)
    <3> DEFINE j == i - Len(s)
    <3>1. j \in 1 .. Len(t) /\ i = Len(s) + j /\ (i - 1) - Len(s) = j - 1
      BY <1>2, <1>5, <2>3
    <3>2. b[j] = Alu!Effect(b[j - 1], t[j])
      BY <1>4, <3>1 DEF Trail
    <3>3. c[i] = b[j]
      BY <1>2, <2>1, <2>3
    <3>4. st[i] = t[j]
      BY <1>5, <3>1
    <3>5. c[i - 1] = b[j - 1]
      <4>1. CASE j = 1
        <5>1. i - 1 = Len(s) /\ c[i - 1] = a[i - 1]
          BY <1>2, <2>1, <3>1, <4>1
        <5> QED
          BY <1>1, <1>4, <4>1, <5>1 DEF Trail
      <4>2. CASE j # 1
        <5>1. ~ (i - 1 <= Len(s))
          BY <1>2, <3>1, <4>2
        <5> QED
          BY <2>1, <3>1, <5>1
      <4> QED
        BY <4>1, <4>2
    <3> QED
      BY <3>2, <3>3, <3>4, <3>5
  <2> QED
    BY <1>2, <1>5, <2>2, <2>3
<1>8. Alu!Exec(h, st) = c[Len(st)]
  <2> HIDE DEF c
  <2> QED
    BY <1>5, <1>6, <1>7, TrailEnds DEF Trail
<1>9. Alu!Exec(h, st) = Alu!Exec(g, t)
  BY <1>4, <1>6, <1>8
<1> QED
  BY <1>3, <1>5, <1>9 DEF st, g

-----------------------------------------------------------------------------
(* ----------------------- the arithmetic instructions ------------------- *)
H(n) == Alu!H_REG(n)
T(i) == Alu!H_TMP(i)
RegNos == 0 .. NUM_BPF_REGS - 1

(* Registers and scratch headers are different headers.                    *)
LEMMA HeadersAre ==
  /\ \A n \in RegNos : H(n) \in Alu!Headers /\ H(n) \notin {T(0), T(1), T(2)}
  /\ \A n \in RegNos : \A m \in RegNos : H(n) = H(m) => n = m
  /\ T(0) \in Alu!Headers /\ T(1) \in Alu!Headers /\ T(2) \in Alu!Headers
  /\ T(0) # T(1) /\ T(0) # T(2) /\ T(1) # T(2) /\ 0 \in RegNos
  BY RegsAssumption DEF H, T, RegNos, Alu!H_REG, Alu!H_TMP, Alu!Headers, Alu!Regs

(* Registers that hold words, and operations ops that leave the width w    *)
(* and the value v in header t, and the other registers alone.             *)
RegsHold(h) ==
  h \in States /\ \A n \in RegNos : h[H(n)].w = 8 /\ h[H(n)].v \in Word(8)
SameRegs(g, h, t) == \A n \in RegNos : H(n) # t => g[H(n)] = h[H(n)]
Leaves(g, h, t, w, v) == g \in States /\ g[t] = Alu!Cell(w, v) /\ SameRegs(g, h, t)
Turns(h, ops_, t, w, v) ==
  ops_ \in Seq(OpSet) /\ Leaves(Alu!Exec(h, ops_), h, t, w, v)

LEMMA OpsIn ==
  /\ \A f \in Fs, w \in Widths, a \in Opds, b \in Opds, t \in Alu!Headers :
       Alu!binop(f, w, a, b, t) \in OpSet
  /\ \A from \in Widths, w \in Widths, a \in Alu!Headers, t \in Alu!Headers :
       Alu!cast(from, w, Alu!hdr(a), t) \in OpSet
  /\ \A k \in Int : Alu!konst(k) \in Consts
  /\ \A a \in Alu!Headers : Alu!hdr(a) \in Held
  BY DEF Alu!binop, Alu!cast, Alu!konst, Alu!hdr, OpSet, Opds, Consts, Held

(* What setting one header does.                                           *)
LEMMA SetOne ==
  ASSUME NEW h \in States, NEW t \in Alu!Headers, NEW w \in Nat, NEW v \in Nat, NEW g,
         g = [h EXCEPT ![t] = Alu!Cell(w, v)]
  PROVE  /\ Leaves(g, h, t, w, v) /\ g[t].w = w /\ g[t].v = v
         /\ \A u \in Alu!Headers : u # t => g[u] = h[u]
<1>1. Alu!Cell(w, v) \in Cells /\ Alu!Cell(w, v).w = w /\ Alu!Cell(w, v).v = v
  BY DEF Cells, Alu!Cell
<1>2. g \in States /\ g[t] = Alu!Cell(w, v) /\ \A u \in Alu!Headers : u # t => g[u] = h[u]
  BY <1>1 DEF States
<1> QED
  BY <1>1, <1>2, HeadersAre DEF Leaves, SameRegs

(* One operation whose operands have its width, and one cast.              *)
LEMMA OneOp ==
  ASSUME NEW h \in States, NEW f \in Fs, NEW w \in Widths, NEW a \in Opds, NEW b \in Opds,
         NEW t \in Alu!Headers, Fits(h, a, w), Fits(h, b, w),
         NEW x \in Nat, NEW y \in Nat, Worth(h, a, w) = x, Worth(h, b, w) = y
  PROVE  /\ Turns(h, << Alu!binop(f, w, a, b, t) >>, t, w, Computed(f, x, y, w))
         /\ Alu!Exec(h, << Alu!binop(f, w, a, b, t) >>)
              = [h EXCEPT ![t] = Alu!Cell(w, Computed(f, x, y, w))]
<1> DEFINE o == Alu!binop(f, w, a, b, t)
           g == [h EXCEPT ![t] = Alu!Cell(w, Computed(f, x, y, w))]
<1>1. o \in OpSet
  BY OpsIn
<1>2. Alu!Effect(h, o) = g
  BY BinIs
<1>3. Computed(f, x, y, w) \in Nat /\ w \in Nat
  <2>1. Computed(f, x, y, w) \in Nat
    BY ComputedIn
  <2>2. w \in Nat
    BY DEF Widths
  <2> QED
    BY <2>1, <2>2
<1>4. Leaves(g, h, t, w, Computed(f, x, y, w))
  <2> HIDE DEF g
  <2> QED
    BY <1>3, SetOne DEF g
<1> HIDE DEF o, g
<1>5. Alu!Exec(h, << o >>) = g
  BY <1>1, <1>2, ExecOne
<1>6. << o >> \in Seq(OpSet)
  BY <1>1
<1> QED
  BY <1>4, <1>5, <1>6 DEF Turns, o, g

LEMMA OneCast ==
  ASSUME NEW h \in States, NEW from \in Widths, NEW w \in Widths, NEW a \in Alu!Headers,
         NEW t \in Alu!Headers, h[a].w = from
  PROVE  /\ Turns(h, << Alu!cast(from, w, Alu!hdr(a), t) >>, t, w, Trunc(h[a].v, w))
         /\ Alu!Exec(h, << Alu!cast(from, w, Alu!hdr(a), t) >>)
              = [h EXCEPT ![t] = Alu!Cell(w, Trunc(h[a].v, w))]
         /\ Trunc(h[a].v, w) \in Word(w)
<1> DEFINE o == Alu!cast(from, w, Alu!hdr(a), t)
           v == Trunc(h[a].v, w)
           g == [h EXCEPT ![t] = Alu!Cell(w, v)]
<1>1. o \in OpSet
  BY OpsIn
<1>2. Alu!Effect(h, o) = g
  BY CastIs
<1>3. v \in Word(w) /\ v \in Nat /\ w \in Nat
  <2>1. w \in 0 .. 8 /\ h[a].v \in Int
    BY DEF Widths, States, Cells
  <2>2. v \in Word(w) /\ Word(w) = 0 .. Modulus(w) - 1 /\ Modulus(w) \in Nat
    BY <2>1, WordIs
  <2> HIDE DEF v
  <2> QED
    BY <2>1, <2>2
<1> HIDE DEF v
<1>4. Leaves(g, h, t, w, v)
  <2> HIDE DEF g
  <2> QED
    BY <1>3, SetOne DEF g
<1> HIDE DEF o, g
<1>5. Alu!Exec(h, << o >>) = g
  BY <1>1, <1>2, ExecOne
<1>6. << o >> \in Seq(OpSet)
  BY <1>1
<1> QED
  BY <1>3, <1>4, <1>5, <1>6 DEF Turns, o, g, v

(* One sequence of operations after another.                               *)
Scratch(t) == \A n \in RegNos : H(n) # t
LEMMA TurnsThen ==
  ASSUME NEW h \in States, NEW s, NEW t1, NEW w1, NEW v1, Turns(h, s, t1, w1, v1),
         NEW g, g = Alu!Exec(h, s), NEW r, NEW t2, NEW w2, NEW v2, Turns(g, r, t2, w2, v2),
         Scratch(t1) \/ t1 = t2
  PROVE  Turns(h, s \o r, t2, w2, v2)
<1>1. s \in Seq(OpSet) /\ r \in Seq(OpSet)
  BY DEF Turns
<1>2. s \o r \in Seq(OpSet) /\ Alu!Exec(h, s \o r) = Alu!Exec(g, r)
  BY <1>1, ExecJoin
<1>3. Leaves(Alu!Exec(g, r), h, t2, w2, v2)
  BY DEF Turns, Leaves, SameRegs, Scratch
<1> QED
  BY <1>2, <1>3 DEF Turns

(* Where an instruction works, at which width and from which headers.      *)
Wd(in)        == IF in.cls = "ALU64" THEN 8 ELSE 4
Work(in, d)   == IF in.cls = "ALU64" THEN d ELSE T(0)
Start(in, h, d) ==
  IF in.cls = "ALU64" THEN h ELSE [h EXCEPT ![T(0)] = Alu!Cell(4, Trunc(h[d].v, 4))]

(* What the operations of an instruction find where it works.              *)
LEMMA StartIs ==
  ASSUME NEW in, NEW h, RegsHold(h), NEW n \in RegNos
  PROVE  /\ Wd(in) \in Widths /\ Work(in, H(n)) \in Alu!Headers /\ H(n) \in Alu!Headers
         /\ Start(in, h, H(n)) \in States
         /\ Start(in, h, H(n))[Work(in, H(n))] = Alu!Cell(Wd(in), Trunc(h[H(n)].v, Wd(in)))
         /\ Trunc(h[H(n)].v, Wd(in)) \in Word(Wd(in))
         /\ \A m \in RegNos : Start(in, h, H(n))[H(m)] = h[H(m)]
<1> DEFINE d == H(n)
<1>1. d \in Alu!Headers /\ h \in States /\ h[d].w = 8 /\ h[d].v \in Word(8) /\ h[d] \in Cells
  BY HeadersAre DEF RegsHold, States
<1>2. Trunc(h[d].v, 4) \in Word(4) /\ Trunc(h[d].v, 4) \in Nat /\ Trunc(h[d].v, 8) = h[d].v
  <2>1. h[d].v \in Int
    BY <1>1 DEF Cells
  <2>2. Word(4) = 0 .. Modulus(4) - 1 /\ Modulus(4) \in Nat /\ 8 \in 0 .. 8 /\ 4 \in 0 .. 8
    BY WordIs
  <2> HIDE DEF d
  <2>3. Trunc(h[d].v, 4) \in Word(4)
    BY <2>1, <2>2, WordIs
  <2>4. Trunc(h[d].v, 8) = h[d].v
    BY <1>1, <2>2, WordIs
  <2> QED
    BY <2>2, <2>3, <2>4
<1> HIDE DEF d
<1>3. CASE in.cls = "ALU64"
  <2>1. Wd(in) = 8 /\ Work(in, d) = d /\ Start(in, h, d) = h
    BY <1>3 DEF Wd, Work, Start
  <2>2. h[d] = Alu!Cell(8, h[d].v)
    BY <1>1 DEF Cells, Alu!Cell
  <2> QED
    BY <1>1, <1>2, <2>1, <2>2 DEF Widths, d
<1>4. CASE in.cls # "ALU64"
  <2>1. Wd(in) = 4 /\ Work(in, d) = T(0)
        /\ Start(in, h, d) = [h EXCEPT ![T(0)] = Alu!Cell(4, Trunc(h[d].v, 4))]
    BY <1>4 DEF Wd, Work, Start
  <2>2. Leaves(Start(in, h, d), h, T(0), 4, Trunc(h[d].v, 4))
    BY <1>1, <1>2, <2>1, HeadersAre, SetOne
  <2> QED
    BY <1>1, <1>2, <2>1, <2>2, HeadersAre DEF Widths, d, Leaves, SameRegs
<1> QED
  BY <1>3, <1>4

(* A 32-bit operation narrows what it reads and widens what it leaves.     *)
LEMMA InPlaceIs ==
  ASSUME NEW in, NEW h, RegsHold(h), NEW n \in RegNos, NEW body, NEW v \in Word(8),
         Turns(Start(in, h, H(n)), body, Work(in, H(n)), Wd(in), v)
  PROVE  Turns(h, Alu!InPlace(in, H(n), body), H(n), 8, v)
<1> DEFINE d == H(n)
<1>1. CASE in.cls = "ALU64"
  <2>1. Alu!InPlace(in, d, body) = body
    BY <1>1 DEF Alu!InPlace, Alu!is64
  <2> QED
    BY <1>1, <2>1 DEF Start, Work, Wd
<1>2. CASE in.cls # "ALU64"
  <2> DEFINE nar == << Alu!narrow(d, T(0)) >>
             wid == << Alu!widen(T(0), d) >>
             g1 == Alu!Exec(h, nar)
             g2 == Alu!Exec(g1, body)
  <2>1. Alu!InPlace(in, d, body) = nar \o body \o wid
    BY <1>2 DEF Alu!InPlace, Alu!is64, T
  <2>2. h \in States /\ d \in Alu!Headers /\ h[d].w = 8 /\ T(0) \in Alu!Headers
        /\ 4 \in Widths /\ 8 \in Widths /\ Scratch(T(0))
    BY HeadersAre DEF RegsHold, Widths, Scratch
  <2> HIDE DEF d
  <2>3. Alu!narrow(d, T(0)) = Alu!cast(8, 4, Alu!hdr(d), T(0))
        /\ Alu!widen(T(0), d) = Alu!cast(4, 8, Alu!hdr(T(0)), d)
    BY SizesSame DEF Alu!narrow, Alu!widen
  <2>4. /\ Turns(h, nar, T(0), 4, Trunc(h[d].v, 4))
        /\ g1 = [h EXCEPT ![T(0)] = Alu!Cell(4, Trunc(h[d].v, 4))]
    BY <2>2, <2>3, OneCast
  <2> HIDE DEF g1
  <2>5. Turns(g1, body, T(0), 4, v)
    <3>1. Start(in, h, d) = g1 /\ Work(in, d) = T(0) /\ Wd(in) = 4
      BY <1>2, <2>4 DEF Start, Work, Wd
    <3> QED
      BY <3>1 DEF d
  <2>6. g1 \in States /\ Turns(h, nar \o body, T(0), 4, v)
        /\ Alu!Exec(h, nar \o body) = g2
    <3>1. g1 \in States
      BY <2>4 DEF Turns, Leaves, g1
    <3>2. g1 = Alu!Exec(h, nar)
      BY DEF g1
    <3> HIDE DEF nar, g2
    <3> DEFINE u == Trunc(h[d].v, 4)
    <3>3. Turns(h, nar, T(0), 4, u) /\ h \in States /\ (Scratch(T(0)) \/ T(0) = T(0))
      BY <2>2, <2>4
    <3> HIDE DEF u
    <3>4. Turns(h, nar \o body, T(0), 4, v)
      BY <2>5, <3>2, <3>3, TurnsThen, Zenon
    <3>5. Alu!Exec(h, nar \o body) = Alu!Exec(g1, body)
      <4>1. nar \in Seq(OpSet) /\ body \in Seq(OpSet)
        BY <2>5, <3>3 DEF Turns
      <4> QED
        BY <3>2, <3>3, <4>1, ExecJoin
    <3> QED
      BY <3>1, <3>4, <3>5 DEF g2
  <2>7. g2 \in States /\ g2[T(0)] = Alu!Cell(4, v)
    BY <2>5 DEF Turns, Leaves
  <2>8. g2[T(0)].w = 4 /\ g2[T(0)].v = v /\ Trunc(v, 8) = v
    <3>1. Trunc(v, 8) = v
      <4>1. 8 \in 0 .. 8
        OBVIOUS
      <4> QED
        BY <4>1, WordIs
    <3> HIDE DEF g2
    <3> QED
      BY <2>7, <3>1 DEF Alu!Cell
  <2>9. Turns(g2, wid, d, 8, v)
    <3> HIDE DEF g2
    <3>1. Turns(g2, << Alu!cast(4, 8, Alu!hdr(T(0)), d) >>, d, 8, Trunc(g2[T(0)].v, 8))
      BY <2>2, <2>7, <2>8, OneCast
    <3> QED
      BY <2>3, <2>8, <3>1
  <2>10. Turns(h, (nar \o body) \o wid, d, 8, v)
    <3> DEFINE s == nar \o body
    <3>1. Turns(h, s, T(0), 4, v) /\ g2 = Alu!Exec(h, s)
      BY <2>6
    <3> HIDE DEF s, g2, wid
    <3>2. Turns(h, s \o wid, d, 8, v)
      BY <2>2, <2>9, <3>1, TurnsThen
    <3> QED
      BY <3>2 DEF s
  <2> QED
    BY <2>1, <2>10 DEF d
<1> QED
  BY <1>1, <1>2

LEMMA SimpleIs ==
  /\ DOMAIN Alu!Simple = {"ADD", "SUB", "AND", "OR", "XOR", "MUL", "DIV", "MOD"}
  /\ Alu!Simple["ADD"] = "AddOp" /\ Alu!Simple["SUB"] = "SubOp" /\ Alu!Simple["AND"] = "AndOp"
  /\ Alu!Simple["OR"] = "OrOp" /\ Alu!Simple["XOR"] = "XorOp" /\ Alu!Simple["MUL"] = "MulOp"
  /\ Alu!Simple["DIV"] = "DivOp" /\ Alu!Simple["MOD"] = "ModOp"
  BY DEF Alu!Simple

(* The operation chosen for an instruction computes what it means.         *)
LEMMA SimpleMeans ==
  ASSUME NEW op \in DOMAIN Alu!Simple, NEW w \in Widths, NEW x \in Word(w), NEW y \in Word(w)
  PROVE  /\ Alu!Simple[op] \in Fs
         /\ Computed(Alu!Simple[op], x, y, w) = Kernel!Alu(op, x, y, w)
         /\ Computed(Alu!Simple[op], x, y, w) \in Word(8)
<1> DEFINE f == Alu!Simple[op]
<1>1. /\ Word(w) = 0 .. Modulus(w) - 1 /\ Modulus(w) \in Nat \ {0} /\ Word(w) \subseteq Word(8)
      /\ \A v \in Int : Trunc(v, w) \in Word(w)
  <2>1. w \in 0 .. 8
    BY DEF Widths
  <2> QED
    BY <2>1, WordIs
<1>2. x \in Nat /\ y \in Nat /\ x < Modulus(w) /\ y < Modulus(w)
  <2>1. Word(w) = 0 .. Modulus(w) - 1 /\ Modulus(w) \in Nat
    BY <1>1
  <2> QED
    BY <2>1
<1>3. Kernel!M(w) = Modulus(w) /\ (x & y) = Kernel!&(x, y) /\ (x | y) = Kernel!|(x, y)
      /\ (x ^^ y) = Kernel!^^(x, y)
  BY SizesSame, AndSame, OrSame, XorSame
<1>4. x & y \in Word(8) /\ x | y \in Word(8) /\ x ^^ y \in Word(8)
  BY <1>2, BitwiseIs, SizesSame
<1>5. /\ Trunc(x + y, w) = (x + y) % Modulus(w) /\ Trunc(x - y, w) = (x - y) % Modulus(w)
      /\ Trunc(x * y, w) = (x * y) % Modulus(w)
  BY DEF Trunc
<1>6. Trunc(x + y, w) \in Word(8) /\ Trunc(x - y, w) \in Word(8) /\ Trunc(x * y, w) \in Word(8)
  <2>1. x + y \in Int /\ x - y \in Int /\ x * y \in Int
    BY <1>2
  <2> QED
    BY <1>1, <2>1
<1>7. y # 0 => x \div y \in Word(8) /\ x % y \in Word(8)
  <2>1. ASSUME y # 0 PROVE x \div y \in 0 .. x /\ x % y \in 0 .. y - 1
    <3>1. x = (x \div y) * y + (x % y) /\ x % y \in 0 .. y - 1 /\ x \div y \in Nat
      <4>1. x \in Int /\ x >= 0 /\ y \in Nat \ {0}
        BY <1>2, <2>1
      <4> QED
        BY <4>1, Division
    <3> DEFINE q == x \div y
    <3> HIDE DEF q
    <3>2. q \in Nat /\ q * y <= x
      BY <1>2, <3>1 DEF q
    <3>3. q <= q * y
      BY <1>2, <2>1, <3>2
    <3>4. q * y \in Nat
      BY <1>2, <3>2
    <3> QED
      BY <1>2, <3>1, <3>2, <3>3, <3>4 DEF q
  <2>2. 0 .. x \subseteq Word(w) /\ 0 .. y - 1 \subseteq Word(w)
    <3>1. Word(w) = 0 .. Modulus(w) - 1 /\ Modulus(w) \in Nat
      BY <1>1
    <3> QED
      BY <1>2, <3>1
  <2> QED
    BY <1>1, <2>1, <2>2
<1>8. 0 \in Word(8) /\ x \in Word(8)
  <2>1. Word(w) = 0 .. Modulus(w) - 1 /\ Modulus(w) \in Nat \ {0}
    BY <1>1
  <2>2. 0 \in Word(w)
    BY <2>1
  <2> QED
    BY <1>1, <2>2
<1> HIDE DEF f
<1>9. CASE op = "ADD"
  BY <1>3, <1>5, <1>6, <1>9, SimpleIs DEF Computed, Kernel!Alu, f, Fs
<1>10. CASE op = "SUB"
  BY <1>3, <1>5, <1>6, <1>10, SimpleIs DEF Computed, Kernel!Alu, f, Fs
<1>11. CASE op = "MUL"
  BY <1>3, <1>5, <1>6, <1>11, SimpleIs DEF Computed, Kernel!Alu, f, Fs
<1>12. CASE op = "DIV"
  BY <1>7, <1>8, <1>12, SimpleIs DEF Computed, Kernel!Alu, f, Fs
<1>13. CASE op = "MOD"
  BY <1>7, <1>8, <1>13, SimpleIs DEF Computed, Kernel!Alu, f, Fs
<1>14. CASE op = "AND"
  BY <1>3, <1>4, <1>14, SimpleIs DEF Computed, Kernel!Alu, f, Fs
<1>15. CASE op = "OR"
  BY <1>3, <1>4, <1>15, SimpleIs DEF Computed, Kernel!Alu, f, Fs
<1>16. CASE op = "XOR"
  BY <1>3, <1>4, <1>16, SimpleIs DEF Computed, Kernel!Alu, f, Fs
<1> QED
  BY <1>9, <1>10, <1>11, <1>12, <1>13, <1>14, <1>15, <1>16, SimpleIs

(* A shift is by less than the width.                                      *)
LEMMA ModMod ==
  ASSUME NEW x \in Int, NEW d \in Nat \ {0}, NEW m \in Nat \ {0}, m % d = 0
  PROVE  (x % m) % d = x % d
<1> DEFINE c == m \div d
           q == x \div m
           r == x % m
           p == r \div d
           s == r % d
<1>1. m = c * d /\ c \in Int
  <2>1. m \in Int
    OBVIOUS
  <2> QED
    BY <2>1, Division
<1>2. x = q * m + r /\ r \in Int /\ q \in Int
  <2>1. x % m \in 0 .. m - 1 /\ x = (x \div m) * m + (x % m) /\ x \div m \in Int
    BY Division
  <2> QED
    BY <2>1
<1> HIDE DEF c, q, r
<1>3. r = p * d + s /\ p \in Int /\ s \in 0 .. d - 1
  BY <1>2, Division
<1> HIDE DEF p, s
<1> DEFINE e == q * c + p
<1>4. x = e * d + s /\ e \in Int
  <2>1. q * m = (q * c) * d
    BY <1>1, <1>2
  <2>2. q * c \in Int
    BY <1>1, <1>2
  <2> DEFINE qc == q * c
  <2> HIDE DEF qc
  <2>3. x = (qc + p) * d + s /\ qc + p \in Int
    BY <1>2, <1>3, <2>1, <2>2 DEF qc
  <2> QED
    BY <2>3 DEF qc
<1> HIDE DEF e
<1>5. x % d = s
  BY <1>3, <1>4, Divides
<1> QED
  BY <1>5 DEF s, r

(* The amount of a shift, reduced before or after the truncation.          *)
LEMMA ShiftIs ==
  ASSUME NEW in, in.imm \in Int
  PROVE  /\ Alu!ShiftBy(in) \in 0 .. Bits(Wd(in)) - 1
         /\ Alu!ShiftBy(in) = Kernel!Shift(Trunc(in.imm, Wd(in)), Wd(in))
<1> DEFINE w == Wd(in)
           b == Bits(w)
<1>1. w \in Widths /\ Alu!width(in) = w
  BY SizesSame DEF Wd, Widths, Alu!width, Alu!is64
<1>2. w \in 0 .. 8 /\ w # 0
  BY <1>1 DEF Widths
<1>3. Modulus(w) \in Nat \ {0} /\ Modulus(8) \in Nat \ {0} /\ Modulus(w) % b = 0
      /\ Modulus(8) % Bits(8) = 0
  <2>1. Modulus(w) \in Nat \ {0} /\ Modulus(8) \in Nat \ {0}
    <3>1. 8 \in 0 .. 8
      OBVIOUS
    <3> HIDE DEF w
    <3> QED
      BY <1>2, <3>1, WordIs
  <2> QED
    BY <1>1, <2>1, WordsAssumption, SizesSame DEF Widths
<1>4. b = w * Byte /\ b \in Nat \ {0} /\ Bits(8) = 8 * Byte /\ Bits(8) \in Nat \ {0}
  <2> HIDE DEF w
  <2> QED
    BY <1>2, WordsAssumption DEF Bits
<1>5. Modulus(8) % b = 0
  <2>1. CASE w = 8
    BY <1>3, <2>1
  <2>2. CASE w = 4
    <3> DEFINE m == Modulus(8)
               q == m \div Bits(8)
               z == 2 * q
    <3>0. w = 4 /\ Byte \in Nat
      BY <2>2, WordsAssumption
    <3>1. Bits(8) = 2 * b /\ m \in Int
      <4>1. m \in Int
        BY <1>3
      <4> HIDE DEF w, b
      <4>2. b = 4 * Byte
        BY <1>4, <3>0
      <4> QED
        BY <1>4, <3>0, <4>1, <4>2
    <3> HIDE DEF w
    <3>9. m % Bits(8) = 0
      BY <1>3
    <3> HIDE DEF b, m
    <3>2. m = q * Bits(8) + (m % Bits(8)) /\ q \in Int
      BY <1>4, <3>1, Division
    <3> HIDE DEF q
    <3>3. m = z * b + 0 /\ z \in Int /\ 0 \in 0 .. b - 1
      <4>1. q * (2 * b) = (2 * q) * b
        BY <1>4, <3>2
      <4>2. m = q * (2 * b)
        BY <1>4, <3>1, <3>2, <3>9
      <4> QED
        BY <1>4, <3>2, <4>1, <4>2
    <3> HIDE DEF z
    <3>4. m % b = 0
      BY <1>4, <3>1, <3>3, Divides
    <3> QED
      BY <3>4 DEF m
  <2> QED
    BY <1>1, <2>1, <2>2 DEF Widths
<1>6. Alu!ShiftBy(in) = Trunc(in.imm, 8) % b
  BY <1>1, SizesSame DEF Alu!ShiftBy
<1>7. Kernel!Shift(Trunc(in.imm, w), w) = Trunc(in.imm, w) % b
  BY <1>4 DEF Kernel!Shift
<1> HIDE DEF w, b
<1>8. Trunc(in.imm, 8) % b = in.imm % b /\ Trunc(in.imm, w) % b = in.imm % b
  BY <1>3, <1>4, <1>5, ModMod, ZenonT(60) DEF Trunc
<1>9. in.imm % b \in 0 .. b - 1
  BY <1>4, Division
<1> QED
  BY <1>6, <1>7, <1>8, <1>9 DEF w, b

(* Words are natural numbers, 0 is one.                                    *)
LEMMA ZeroIs == 0 \in Word(8) /\ Trunc(0, 8) = 0 /\ Trunc(0, 4) = 0
<1>1. 8 \in 0 .. 8 /\ 4 \in 0 .. 8
  OBVIOUS
<1>2. /\ Word(8) = 0 .. Modulus(8) - 1 /\ Modulus(8) \in Nat \ {0}
      /\ Word(4) = 0 .. Modulus(4) - 1 /\ Modulus(4) \in Nat \ {0}
  BY <1>1, WordIs
<1>3. 0 \in Word(8) /\ 0 \in Word(4)
  BY <1>2
<1> QED
  BY <1>1, <1>3, WordIs

LEMMA NatWord == \A w \in Widths : w \in 0 .. 8 /\ Word(w) \subseteq Nat /\ Word(w) \subseteq Word(8)
<1>1. ASSUME NEW w \in Widths PROVE w \in 0 .. 8 /\ Word(w) \subseteq Nat /\ Word(w) \subseteq Word(8)
  <2>1. w \in 0 .. 8
    BY DEF Widths
  <2>2. Word(w) = 0 .. Modulus(w) - 1 /\ Modulus(w) \in Nat \ {0} /\ Word(w) \subseteq Word(8)
    BY <2>1, WordIs
  <2> QED
    BY <2>1, <2>2
<1> QED
  BY <1>1

(* Setting a header to a constant and moving one to another.               *)
LEMMA SetIs ==
  ASSUME NEW h \in States, NEW t \in Alu!Headers, NEW k \in Int, NEW v, v = Trunc(k, 8)
  PROVE  /\ Turns(h, << Alu!set_(t, k) >>, t, 8, v) /\ v \in Word(8)
         /\ Alu!Exec(h, << Alu!set_(t, k) >>) = [h EXCEPT ![t] = Alu!Cell(8, v)]
<1>1. 8 \in Widths /\ "AddOp" \in Fs /\ 8 \in 0 .. 8
  BY DEF Widths, Fs
<1>2. v \in Word(8) /\ v \in Nat
  BY <1>1, WordIs, NatWord
<1> DEFINE a == Alu!konst(k)
           b == Alu!konst(0)
<1>3. a \in Opds /\ b \in Opds /\ Fits(h, a, 8) /\ Fits(h, b, 8)
  BY DEF Alu!konst, Opds, Consts, Fits
<1>4. Worth(h, a, 8) = v /\ Worth(h, b, 8) = 0
  BY ZeroIs DEF Alu!konst, Worth
<1>5. Computed("AddOp", v, 0, 8) = v
  <2>1. v + 0 = v /\ Trunc(v, 8) = v
    BY <1>1, <1>2, WordIs
  <2> QED
    BY <2>1 DEF Computed
<1>6. Alu!set_(t, k) = Alu!binop("AddOp", 8, a, b, t)
  BY SizesSame DEF Alu!set_
<1> HIDE DEF a, b
<1>7. /\ Turns(h, << Alu!binop("AddOp", 8, a, b, t) >>, t, 8, Computed("AddOp", v, 0, 8))
      /\ Alu!Exec(h, << Alu!binop("AddOp", 8, a, b, t) >>)
           = [h EXCEPT ![t] = Alu!Cell(8, Computed("AddOp", v, 0, 8))]
  <2>1. 0 \in Nat
    OBVIOUS
  <2> QED
    BY <1>1, <1>2, <1>3, <1>4, <2>1, OneOp
<1> QED
  BY <1>2, <1>5, <1>6, <1>7

LEMMA MoveIs ==
  ASSUME NEW h \in States, NEW t \in Alu!Headers, NEW s \in Alu!Headers, h[s].w = 8,
         NEW v \in Word(8), h[s].v = v
  PROVE  /\ Turns(h, << Alu!move(t, s) >>, t, 8, v)
         /\ Alu!Exec(h, << Alu!move(t, s) >>) = [h EXCEPT ![t] = Alu!Cell(8, v)]
<1>1. 8 \in Widths /\ "AddOp" \in Fs /\ 8 \in 0 .. 8
  BY DEF Widths, Fs
<1>2. v \in Nat
  BY <1>1, NatWord
<1> DEFINE a == Alu!hdr(s)
           b == Alu!konst(0)
<1>3. a \in Opds /\ b \in Opds /\ Fits(h, a, 8) /\ Fits(h, b, 8)
  BY DEF Alu!konst, Alu!hdr, Opds, Consts, Held, Fits
<1>4. Worth(h, a, 8) = v /\ Worth(h, b, 8) = 0
  BY ZeroIs DEF Alu!konst, Alu!hdr, Worth
<1>5. Computed("AddOp", v, 0, 8) = v
  <2>1. v + 0 = v /\ Trunc(v, 8) = v
    BY <1>1, <1>2, WordIs
  <2> QED
    BY <2>1 DEF Computed
<1>6. Alu!move(t, s) = Alu!binop("AddOp", 8, a, b, t)
  BY SizesSame DEF Alu!move
<1> HIDE DEF a, b
<1>7. /\ Turns(h, << Alu!binop("AddOp", 8, a, b, t) >>, t, 8, Computed("AddOp", v, 0, 8))
      /\ Alu!Exec(h, << Alu!binop("AddOp", 8, a, b, t) >>)
           = [h EXCEPT ![t] = Alu!Cell(8, Computed("AddOp", v, 0, 8))]
  <2>1. 0 \in Nat
    OBVIOUS
  <2> QED
    BY <1>1, <1>2, <1>3, <1>4, <2>1, OneOp
<1> QED
  BY <1>5, <1>6, <1>7

(* An instruction that is not refused, and the operands it has.            *)
Good(in) ==
  /\ in.cls \in {"ALU64", "ALU"} /\ in.isImm \in BOOLEAN /\ in.imm \in Int
  /\ in.dst \in RegNos /\ in.src \in RegNos
X(in, h) == Trunc(h[H(in.dst)].v, Wd(in))
Y(in, h) == Trunc(IF in.isImm THEN in.imm ELSE h[H(in.src)].v, Wd(in))

LEMMA OperandsAre ==
  ASSUME NEW in, Good(in), NEW h, RegsHold(h)
  PROVE  /\ Wd(in) \in Widths /\ Wd(in) \in 0 .. 8 /\ X(in, h) \in Word(Wd(in)) /\ Y(in, h) \in Word(Wd(in))
         /\ X(in, h) \in Nat /\ Y(in, h) \in Nat /\ X(in, h) \in Word(8) /\ Y(in, h) \in Word(8)
         /\ H(in.dst) \in Alu!Headers /\ H(in.src) \in Alu!Headers /\ h \in States
         /\ H(in.dst) # T(0) /\ H(in.src) # T(0) /\ H(in.dst) # T(1) /\ H(in.src) # T(1)
<1>1. Wd(in) \in Widths
  BY DEF Wd, Widths
<1>2. H(in.dst) \in Alu!Headers /\ H(in.src) \in Alu!Headers /\ h \in States
      /\ h[H(in.dst)].v \in Word(8) /\ h[H(in.src)].v \in Word(8)
      /\ H(in.dst) # T(0) /\ H(in.src) # T(0) /\ H(in.dst) # T(1) /\ H(in.src) # T(1)
  BY HeadersAre DEF Good, RegsHold
<1>3. 8 \in Widths
  BY DEF Widths
<1>4. h[H(in.dst)].v \in Int /\ h[H(in.src)].v \in Int /\ in.imm \in Int
  BY <1>2, <1>3, NatWord DEF Good
<1>5. X(in, h) \in Word(Wd(in)) /\ Y(in, h) \in Word(Wd(in))
  <2>1. Wd(in) \in 0 .. 8
    BY <1>1, NatWord
  <2>2. \A v \in Int : Trunc(v, Wd(in)) \in Word(Wd(in))
    BY <2>1, WordIs
  <2> QED
    BY <1>4, <2>2 DEF X, Y
<1> QED
  BY <1>1, <1>2, <1>5, NatWord

(* MOV and NEG.                                                            *)
LEMMA MovMeans ==
  ASSUME NEW in, Good(in), NEW h, RegsHold(h)
  PROVE  Turns(h, Alu!Mov(in, H(in.dst), H(in.src)), H(in.dst), 8, Y(in, h))
<1> DEFINE d == H(in.dst)
           s == H(in.src)
           y == Y(in, h)
<1>1. d \in Alu!Headers /\ s \in Alu!Headers /\ h \in States /\ y \in Word(8) /\ y \in Nat
      /\ y \in Word(Wd(in)) /\ Wd(in) \in 0 .. 8
  BY OperandsAre
<1>2. h[s].w = 8 /\ h[s].v \in Word(8) /\ in.imm \in Int
  BY DEF Good, RegsHold
<1>3. 8 \in 0 .. 8 /\ \A v \in Word(8) : Trunc(v, 8) = v
  BY WordIs
<1>4. CASE in.cls = "ALU64" /\ in.isImm
  <2>1. y = Trunc(in.imm, 8)
    BY <1>4 DEF Y, Wd
  <2>2. Alu!Mov(in, d, s) = << Alu!set_(d, in.imm) >>
    BY <1>4 DEF Alu!Mov, Alu!is64
  <2> HIDE DEF y, d
  <2>3. Turns(h, << Alu!set_(d, in.imm) >>, d, 8, y)
    BY <1>1, <1>2, <2>1, SetIs
  <2> QED
    BY <2>2, <2>3 DEF d, y
<1>5. CASE in.cls = "ALU64" /\ ~in.isImm
  <2>1. y = h[s].v
    BY <1>2, <1>3, <1>5 DEF Y, Wd
  <2>2. Alu!Mov(in, d, s) = << Alu!move(d, s) >>
    BY <1>5 DEF Alu!Mov, Alu!is64
  <2> HIDE DEF y, d, s
  <2>3. Turns(h, << Alu!move(d, s) >>, d, 8, y)
    BY <1>1, <1>2, <2>1, MoveIs
  <2> QED
    BY <2>2, <2>3 DEF d, s, y
<1>6. CASE in.cls # "ALU64" /\ in.isImm
  <2>1. y = Trunc(in.imm, 4)
    BY <1>6 DEF Y, Wd
  <2>2. Alu!Mov(in, d, s) = << Alu!set_(d, y) >>
    BY <1>6, <2>1, SizesSame DEF Alu!Mov, Alu!is64
  <2>3. Trunc(y, 8) = y /\ y \in Int
    BY <1>1, <1>3
  <2> HIDE DEF y, d
  <2>4. Turns(h, << Alu!set_(d, y) >>, d, 8, y)
    BY <1>1, <2>3, SetIs
  <2> QED
    BY <2>2, <2>4 DEF d, y
<1>7. CASE in.cls # "ALU64" /\ ~in.isImm
  <2> DEFINE nar == << Alu!cast(8, 4, Alu!hdr(s), T(0)) >>
             wid == << Alu!cast(4, 8, Alu!hdr(T(0)), d) >>
             g == Alu!Exec(h, nar)
  <2>1. y = Trunc(h[s].v, 4)
    BY <1>7 DEF Y, Wd
  <2>2. Alu!Mov(in, d, s) = nar \o wid
    <3>1. Alu!Mov(in, d, s) = << Alu!narrow(s, Alu!H_TMP(0)), Alu!widen(Alu!H_TMP(0), d) >>
      BY <1>7 DEF Alu!Mov, Alu!is64
    <3>2. Alu!Mov(in, d, s) = << Alu!narrow(s, T(0)), Alu!widen(T(0), d) >>
      BY <3>1 DEF T
    <3>3. Alu!narrow(s, T(0)) = Alu!cast(8, 4, Alu!hdr(s), T(0))
          /\ Alu!widen(T(0), d) = Alu!cast(4, 8, Alu!hdr(T(0)), d)
      BY SizesSame DEF Alu!narrow, Alu!widen
    <3> QED
      BY <3>2, <3>3
  <2>3. T(0) \in Alu!Headers /\ Scratch(T(0)) /\ 4 \in Widths /\ 8 \in Widths
    BY HeadersAre DEF Scratch, Widths
  <2> HIDE DEF y, d, s
  <2>4. Turns(h, nar, T(0), 4, y) /\ g = [h EXCEPT ![T(0)] = Alu!Cell(4, y)]
    BY <1>1, <1>2, <2>1, <2>3, OneCast
  <2> HIDE DEF g
  <2>5. g \in States /\ g[T(0)].w = 4 /\ g[T(0)].v = y
    <3>1. g \in States /\ g[T(0)] = Alu!Cell(4, y)
      BY <2>4 DEF Turns, Leaves, g
    <3> QED
      BY <3>1 DEF Alu!Cell
  <2>6. Turns(g, wid, d, 8, y)
    <3>1. Turns(g, wid, d, 8, Trunc(g[T(0)].v, 8))
      BY <1>1, <2>3, <2>5, OneCast
    <3>2. Trunc(g[T(0)].v, 8) = y
      BY <1>1, <1>3, <2>5
    <3> QED
      BY <3>1, <3>2
  <2> HIDE DEF nar, wid
  <2>7. Turns(h, nar \o wid, d, 8, y)
    <3>1. g = Alu!Exec(h, nar)
      BY DEF g
    <3> QED
      BY <1>1, <2>3, <2>4, <2>6, <3>1, TurnsThen, Zenon
  <2> QED
    BY <2>2, <2>7 DEF y, d, s
<1>8. in.isImm \in BOOLEAN
  BY DEF Good
<1> QED
  BY <1>4, <1>5, <1>6, <1>7, <1>8

(* An operation in place at the width of the instruction.                  *)
LEMMA OpInPlace ==
  ASSUME NEW in, Good(in), NEW h, RegsHold(h), NEW f \in Fs, NEW a \in Opds, NEW b \in Opds,
         NEW x \in Nat, NEW y \in Nat, NEW v \in Word(8), v = Computed(f, x, y, Wd(in)),
         NEW g, g = Start(in, h, H(in.dst)), Fits(g, a, Wd(in)), Fits(g, b, Wd(in)),
         Worth(g, a, Wd(in)) = x, Worth(g, b, Wd(in)) = y,
         NEW t, t = Work(in, H(in.dst)), NEW w, w = Wd(in)
  PROVE  Turns(h, Alu!InPlace(in, H(in.dst), << Alu!binop(f, w, a, b, t) >>), H(in.dst), 8, v)
<1>1. in.dst \in RegNos
  BY DEF Good
<1>2. g \in States /\ t \in Alu!Headers /\ w \in Widths
  BY <1>1, StartIs
<1> DEFINE body == << Alu!binop(f, w, a, b, t) >>
<1>3. Turns(g, body, t, w, v)
  BY <1>2, OneOp
<1> HIDE DEF body
<1>4. Turns(Start(in, h, H(in.dst)), body, Work(in, H(in.dst)), Wd(in), v)
  BY <1>3
<1>5. Turns(h, Alu!InPlace(in, H(in.dst), body), H(in.dst), 8, v)
  BY <1>1, <1>4, InPlaceIs
<1> QED
  BY <1>5 DEF body

LEMMA NegMeans ==
  ASSUME NEW in, Good(in), NEW h, RegsHold(h)
  PROVE  /\ Turns(h, Alu!Neg(in, H(in.dst)), H(in.dst), 8,
                  Kernel!Alu("NEG", X(in, h), Y(in, h), Wd(in)))
         /\ Kernel!Alu("NEG", X(in, h), Y(in, h), Wd(in)) \in Word(8)
<1> DEFINE d == H(in.dst)
           w == Wd(in)
           x == X(in, h)
           v == Computed("SubOp", 0, x, w)
           t == Work(in, d)
           g == Start(in, h, d)
           a == Alu!konst(0)
           b == Alu!hdr(t)
<1>1. in.dst \in RegNos /\ w \in Widths /\ w \in 0 .. 8 /\ x \in Nat /\ x \in Word(w)
  BY OperandsAre DEF Good
<1>2. g \in States /\ t \in Alu!Headers /\ g[t] = Alu!Cell(w, x)
  BY <1>1, StartIs DEF X
<1>3. v = Trunc(0 - x, w) /\ v \in Word(8)
  <2>1. v = Trunc(0 - x, w)
    BY DEF Computed
  <2>2. 0 - x \in Int
    BY <1>1
  <2>3. Trunc(0 - x, w) \in Word(w)
    BY <1>1, <2>2, WordIs
  <2> QED
    BY <1>1, <2>1, <2>3, NatWord
<1>4. v = Kernel!Alu("NEG", x, Y(in, h), w)
  <2>1. Kernel!Alu("NEG", x, Y(in, h), w) = (-x) % Modulus(w)
    BY SizesSame DEF Kernel!Alu
  <2>2. -x = 0 - x
    BY <1>1
  <2> QED
    BY <1>3, <2>1, <2>2 DEF Trunc
<1>5. Alu!Neg(in, d) = Alu!InPlace(in, d, << Alu!binop("SubOp", w, a, b, t) >>)
  <2>1. Alu!width(in) = w
    BY SizesSame DEF Alu!width, Alu!is64, Wd
  <2>2. (IF Alu!is64(in) THEN d ELSE Alu!H_TMP(0)) = t
    BY DEF Alu!is64, Work, T
  <2> QED
    BY <2>1, <2>2 DEF Alu!Neg
<1>6. a \in Opds /\ b \in Opds /\ Fits(g, a, w) /\ Fits(g, b, w)
      /\ Worth(g, a, w) = 0 /\ Worth(g, b, w) = x
  <2>1. a \in Consts /\ b \in Held /\ a.is = "const" /\ b.is = "hdr" /\ b.v = t /\ a.v = 0
    BY <1>2 DEF Alu!konst, Alu!hdr, Consts, Held
  <2>2. g[t].w = w /\ g[t].v = x
    BY <1>2 DEF Alu!Cell
  <2>3. Trunc(0, w) = 0
    BY <1>1, ZeroIs DEF Widths
  <2> HIDE DEF a, b, g, t, w
  <2> QED
    BY <2>1, <2>2, <2>3 DEF Opds, Fits, Worth
<1>7. "SubOp" \in Fs /\ 0 \in Nat
  BY DEF Fs
<1> HIDE DEF a, b, g, t, w, v, x
<1>8. Turns(h, Alu!InPlace(in, H(in.dst), << Alu!binop("SubOp", w, a, b, t) >>), H(in.dst), 8, v)
  BY <1>1, <1>3, <1>6, <1>7, OpInPlace DEF g, w, t, v
<1> QED
  BY <1>3, <1>4, <1>5, <1>8 DEF w, x

(* Where an instruction in place starts from, and the operand it works on. *)
LEMMA InPlaceStarts ==
  ASSUME NEW in, Good(in), NEW h, RegsHold(h),
         NEW g, g = Start(in, h, H(in.dst)), NEW t, t = Work(in, H(in.dst)), NEW w, w = Wd(in)
  PROVE  /\ g \in States /\ t \in Alu!Headers /\ w \in Widths
         /\ g[t] = Alu!Cell(w, X(in, h)) /\ g[t].w = w /\ g[t].v = X(in, h)
         /\ Alu!hdr(t) \in Opds /\ Fits(g, Alu!hdr(t), w) /\ Worth(g, Alu!hdr(t), w) = X(in, h)
         /\ \A m \in RegNos : g[H(m)] = h[H(m)]
<1>1. in.dst \in RegNos
  BY DEF Good
<1>2. g \in States /\ t \in Alu!Headers /\ w \in Widths /\ g[t] = Alu!Cell(w, X(in, h))
      /\ \A m \in RegNos : g[H(m)] = h[H(m)]
  BY <1>1, StartIs DEF X
<1>3. g[t].w = w /\ g[t].v = X(in, h)
  BY <1>2 DEF Alu!Cell
<1>4. Alu!hdr(t) \in Held /\ Alu!hdr(t).is = "hdr" /\ Alu!hdr(t).v = t
  BY <1>2 DEF Alu!hdr, Held
<1> QED
  BY <1>2, <1>3, <1>4 DEF Opds, Fits, Worth

(* A constant and a header as operands.                                    *)
LEMMA ConstantIs ==
  ASSUME NEW g, NEW k \in Int, NEW w
  PROVE  Alu!konst(k) \in Opds /\ Fits(g, Alu!konst(k), w) /\ Worth(g, Alu!konst(k), w) = Trunc(k, w)
<1>1. Alu!konst(k) \in Consts /\ Alu!konst(k).is = "const" /\ Alu!konst(k).v = k
  BY DEF Alu!konst, Consts
<1> QED
  BY <1>1 DEF Opds, Fits, Worth

LEMMA HeldIs ==
  ASSUME NEW g, NEW t \in Alu!Headers, NEW w, g[t].w = w
  PROVE  Alu!hdr(t) \in Opds /\ Fits(g, Alu!hdr(t), w) /\ Worth(g, Alu!hdr(t), w) = g[t].v
<1>1. Alu!hdr(t) \in Held /\ Alu!hdr(t).is = "hdr" /\ Alu!hdr(t).v = t
  BY DEF Alu!hdr, Held
<1> QED
  BY <1>1 DEF Opds, Fits, Worth

(* Two operations in a sequence.                                           *)
LEMMA Two ==
  ASSUME NEW p, NEW q
  PROVE  << p >> \o << q >> = << p, q >>
<1> DEFINE s == << p >> \o << q >>
           r == << p, q >>
<1>1. << p >> \in Seq({p, q}) /\ << q >> \in Seq({p, q}) /\ r \in Seq({p, q})
  OBVIOUS
<1>2. s \in Seq({p, q}) /\ Len(s) = 2 /\ s[1] = p /\ s[2] = q
  BY <1>1
<1>3. Len(r) = 2 /\ r[1] = p /\ r[2] = q
  OBVIOUS
<1> HIDE DEF s, r
<1>4. \A i \in 1 .. Len(s) : s[i] = r[i]
  BY <1>2, <1>3
<1>5. s = r
  BY <1>1, <1>2, <1>3, <1>4, SeqEqual
<1> QED
  BY <1>5 DEF s, r

(* The operators the IR has itself.                                        *)
LEMMA BinopMeans ==
  ASSUME NEW in, Good(in), in.op \in DOMAIN Alu!Simple, NEW h, RegsHold(h),
         NEW v, v = Kernel!Alu(in.op, X(in, h), Y(in, h), Wd(in))
  PROVE  /\ Turns(h, Alu!Binop(in, H(in.dst), H(in.src)), H(in.dst), 8, v) /\ v \in Word(8)
<1> DEFINE d == H(in.dst)
           s == H(in.src)
           w == Wd(in)
           x == X(in, h)
           y == Y(in, h)
           f == Alu!Simple[in.op]
           t == Work(in, d)
           g == Start(in, h, d)
<1>1. in.dst \in RegNos /\ w \in Widths /\ w \in 0 .. 8 /\ x \in Nat /\ x \in Word(w)
      /\ y \in Nat /\ y \in Word(w) /\ s \in Alu!Headers /\ d \in Alu!Headers /\ in.src \in RegNos
      /\ in.isImm \in BOOLEAN /\ in.imm \in Int
  BY OperandsAre DEF Good
<1>2. f \in Fs /\ v = Computed(f, x, y, w) /\ v \in Word(8)
  <2> HIDE DEF w, x, y
  <2> QED
    BY <1>1, SimpleMeans DEF w, x, y
<1>3. /\ g \in States /\ t \in Alu!Headers /\ g[t].w = w /\ g[t].v = x
      /\ Alu!hdr(t) \in Opds /\ Fits(g, Alu!hdr(t), w) /\ Worth(g, Alu!hdr(t), w) = x
      /\ \A m \in RegNos : g[H(m)] = h[H(m)]
  BY InPlaceStarts
<1>4. ASSUME NEW b \in Opds, Fits(g, b, w), Worth(g, b, w) = y
      PROVE  Turns(h, Alu!InPlace(in, d, << Alu!binop(f, w, Alu!hdr(t), b, t) >>), d, 8, v)
  <2> DEFINE a == Alu!hdr(t)
  <2> HIDE DEF f, t, g, w, x, y, a
  <2>1. Turns(h, Alu!InPlace(in, H(in.dst), << Alu!binop(f, w, a, b, t) >>), H(in.dst), 8, v)
    BY <1>1, <1>2, <1>3, <1>4, OpInPlace DEF g, w, t, a
  <2> QED
    BY <2>1 DEF a
<1>5. h[s].w = 8 /\ h[s].v \in Word(8) /\ g[s] = h[s]
  BY <1>1, <1>3 DEF RegsHold
<1>6. CASE in.cls = "ALU64"
  <2>1. w = 8 /\ t = d /\ (\A body : Alu!InPlace(in, d, body) = body) /\ 8 \in 0 .. 8
    BY <1>6 DEF Wd, Work, Alu!InPlace, Alu!is64
  <2>2. CASE in.isImm
    <3>1. y = Trunc(in.imm, w)
      BY <2>2 DEF Y
    <3>2. Alu!Binop(in, d, s) = << Alu!binop(f, w, Alu!hdr(t), Alu!konst(in.imm), t) >>
      BY <1>6, <2>1, <2>2, SizesSame DEF Alu!Binop, Alu!is64
    <3> HIDE DEF y, w, t, f, g, d
    <3>3. Turns(h, Alu!InPlace(in, d, << Alu!binop(f, w, Alu!hdr(t), Alu!konst(in.imm), t) >>), d, 8, v)
      BY <1>1, <1>4, <3>1, ConstantIs
    <3> QED
      BY <1>2, <2>1, <3>2, <3>3 DEF d
  <2>3. CASE ~in.isImm
    <3>1. y = g[s].v /\ g[s].w = w
      <4>1. y = Trunc(h[s].v, 8)
        BY <2>1, <2>3 DEF Y
      <4> HIDE DEF y, w, g, s
      <4> QED
        BY <1>5, <2>1, <4>1, WordIs
    <3>2. Alu!Binop(in, d, s) = << Alu!binop(f, w, Alu!hdr(t), Alu!hdr(s), t) >>
      BY <1>6, <2>1, <2>3, SizesSame DEF Alu!Binop, Alu!is64
    <3> HIDE DEF y, w, t, f, g, d, s
    <3>3. Turns(h, Alu!InPlace(in, d, << Alu!binop(f, w, Alu!hdr(t), Alu!hdr(s), t) >>), d, 8, v)
      BY <1>1, <1>4, <3>1, HeldIs
    <3> QED
      BY <1>2, <2>1, <3>2, <3>3 DEF d, s
  <2> QED
    BY <1>1, <2>2, <2>3
<1>7. CASE in.cls # "ALU64"
  <2>1. w = 4 /\ t = T(0) /\ 4 \in 0 .. 8 /\ 8 \in Widths /\ 4 \in Widths
    BY <1>7 DEF Wd, Work, Widths
  <2>2. CASE in.isImm
    <3> DEFINE k == Trunc(in.imm, 4)
    <3>1. y = k
      BY <2>1, <2>2 DEF Y
    <3>2. k \in Int /\ Trunc(k, w) = y
      <4> HIDE DEF y, w, k
      <4> QED
        BY <1>1, <2>1, <3>1, WordIs
    <3>3. Alu!Binop(in, d, s)
            = Alu!InPlace(in, d, << Alu!binop(f, w, Alu!hdr(t), Alu!konst(k), t) >>)
      BY <1>7, <2>1, <2>2, SizesSame DEF Alu!Binop, Alu!is64, T
    <3> HIDE DEF y, w, t, f, g, d, k
    <3>4. Turns(h, Alu!InPlace(in, d, << Alu!binop(f, w, Alu!hdr(t), Alu!konst(k), t) >>), d, 8, v)
      BY <1>1, <1>4, <3>2, ConstantIs
    <3> QED
      BY <1>2, <3>3, <3>4 DEF d
  <2>3. CASE ~in.isImm
    <3> DEFINE nar == << Alu!cast(8, 4, Alu!hdr(s), T(1)) >>
               bin == << Alu!binop(f, 4, Alu!hdr(T(0)), Alu!hdr(T(1)), T(0)) >>
               g1 == Alu!Exec(g, nar)
    <3>1. y = Trunc(h[s].v, 4)
      BY <2>1, <2>3 DEF Y
    <3>2. Alu!Binop(in, d, s) = Alu!InPlace(in, d, nar \o bin)
      <4>1. Alu!narrow(s, T(1)) = Alu!cast(8, 4, Alu!hdr(s), T(1))
        BY SizesSame DEF Alu!narrow
      <4>2. Alu!Binop(in, d, s) = Alu!InPlace(in, d, << Alu!narrow(s, T(1)), bin[1] >>)
        BY <1>7, <2>3, SizesSame DEF Alu!Binop, Alu!is64, T
      <4>3. nar \o bin = << Alu!cast(8, 4, Alu!hdr(s), T(1)), bin[1] >>
        <5> DEFINE p == Alu!cast(8, 4, Alu!hdr(s), T(1))
                   q == Alu!binop(f, 4, Alu!hdr(T(0)), Alu!hdr(T(1)), T(0))
        <5>1. nar = << p >> /\ bin = << q >>
          OBVIOUS
        <5> HIDE DEF p, q, nar, bin
        <5>2. << p >> \o << q >> = << p, q >> /\ << q >>[1] = q
          BY Two
        <5> QED
          BY <5>1, <5>2 DEF p
      <4> HIDE DEF d, s, bin, nar
      <4> QED
        BY <4>1, <4>2, <4>3
    <3>3. T(0) \in Alu!Headers /\ T(1) \in Alu!Headers /\ T(0) # T(1) /\ Scratch(T(1)) /\ s # T(1)
      BY <1>1, HeadersAre DEF Scratch
    <3> HIDE DEF y, w, t, f, g, d, s, x
    <3>4. Turns(g, nar, T(1), 4, y) /\ g1 = [g EXCEPT ![T(1)] = Alu!Cell(4, y)]
      <4>1. g[s].w = 8 /\ y = Trunc(g[s].v, 4)
        BY <1>5, <3>1
      <4> QED
        BY <1>1, <1>3, <2>1, <3>3, <4>1, OneCast, SMTT(60)
    <3>5. g1 \in States /\ g1[T(1)].w = 4 /\ g1[T(1)].v = y /\ g1[T(0)].w = 4 /\ g1[T(0)].v = x
      <4>1. g1 \in States
        BY <3>4 DEF Turns, Leaves
      <4> HIDE DEF g1
      <4>2. 4 \in Nat /\ y \in Nat
        BY <1>1
      <4>3. g1[T(1)].w = 4 /\ g1[T(1)].v = y /\ g1[T(0)] = g[T(0)]
        BY <1>3, <3>3, <3>4, <4>2, SetOne
      <4> QED
        BY <1>3, <2>1, <4>1, <4>3
    <3>6. Turns(g1, bin, T(0), 4, v)
      <4> DEFINE a == Alu!hdr(T(0))
                 b == Alu!hdr(T(1))
      <4> HIDE DEF g1
      <4>1. a \in Opds /\ b \in Opds /\ Fits(g1, a, 4) /\ Fits(g1, b, 4)
            /\ Worth(g1, a, 4) = x /\ Worth(g1, b, 4) = y
        BY <3>3, <3>5, HeldIs
      <4> HIDE DEF a, b
      <4>2. Turns(g1, << Alu!binop(f, 4, a, b, T(0)) >>, T(0), 4, Computed(f, x, y, 4))
        BY <1>1, <1>2, <2>1, <3>3, <3>5, <4>1, OneOp
      <4> QED
        BY <1>2, <2>1, <4>2 DEF a, b
    <3> HIDE DEF nar, bin
    <3>7. Turns(g, nar \o bin, T(0), 4, v)
      <4>1. g1 = Alu!Exec(g, nar)
        BY DEF g1
      <4> QED
        BY <1>3, <3>3, <3>4, <3>6, <4>1, TurnsThen, Zenon
    <3>8. Turns(Start(in, h, H(in.dst)), nar \o bin, Work(in, H(in.dst)), Wd(in), v)
      BY <2>1, <3>7 DEF g, d, t, w
    <3>9. Turns(h, Alu!InPlace(in, H(in.dst), nar \o bin), H(in.dst), 8, v)
      BY <1>1, <1>2, <3>8, InPlaceIs
    <3> QED
      BY <1>2, <3>2, <3>9 DEF d, s
  <2> QED
    BY <1>1, <2>2, <2>3
<1> QED
  BY <1>6, <1>7

(* A shift to the left or a logical one to the right, by a constant.       *)
LEMMA PowerIs ==
  ASSUME NEW w \in Widths, NEW k \in 0 .. Bits(w) - 1
  PROVE  /\ k \in Nat /\ exp2[k] \in Nat \ {0} /\ exp2[k] \in Word(w) /\ Trunc(exp2[k], w) = exp2[k]
         /\ Bits(w) \in Nat \ {0} /\ Bits(w) - k \in Nat \ {0} /\ Bits(w) <= Top
         /\ Modulus(w) = exp2[Bits(w)]
<1>1. w \in 0 .. 8
  BY NatWord
<1>2. Bits(w) \in Nat /\ Bits(w) <= Top /\ Modulus(w) = exp2[Bits(w)]
      /\ Modulus(w) \in Nat \ {0} /\ Word(w) = 0 .. Modulus(w) - 1
  <2>1. Bits(w) \in 0 .. Top /\ Top \in Nat
    BY <1>1, WordIs, TopIs
  <2>2. Bits(w) \in Nat /\ Bits(w) <= Top
    BY <2>1
  <2> QED
    BY <1>1, <2>2, WordIs
<1>3. k \in Nat /\ k < Bits(w)
  BY <1>2
<1>4. exp2[k] \in Nat \ {0}
  BY <1>3, Exp2Is
<1>5. 2 * exp2[k] <= exp2[Bits(w)]
  BY <1>2, <1>3, Exp2Grows
<1>6. exp2[k] \in Word(w)
  BY <1>2, <1>4, <1>5
<1>7. Trunc(exp2[k], w) = exp2[k]
  BY <1>1, <1>6, WordIs
<1> QED
  BY <1>2, <1>3, <1>4, <1>6, <1>7

(* LSH and RSH, by multiplying and dividing.                               *)
LEMMA ShiftMeans ==
  ASSUME NEW in, Good(in), in.op \in {"LSH", "RSH"}, in.isImm, NEW h, RegsHold(h),
         NEW v, v = Kernel!Alu(in.op, X(in, h), Y(in, h), Wd(in))
  PROVE  /\ Turns(h, Alu!Shift(in, H(in.dst)), H(in.dst), 8, v) /\ v \in Word(8)
<1> DEFINE d == H(in.dst)
           w == Wd(in)
           x == X(in, h)
           k == Alu!ShiftBy(in)
           f == IF in.op = "LSH" THEN "MulOp" ELSE "DivOp"
           t == Work(in, d)
           g == Start(in, h, d)
           p == exp2[k]
<1>1. in.dst \in RegNos /\ w \in Widths /\ w \in 0 .. 8 /\ x \in Nat /\ x \in Word(w) /\ in.imm \in Int
  BY OperandsAre DEF Good
<1>2. k \in 0 .. Bits(w) - 1 /\ Kernel!Shift(Y(in, h), w) = k
  <2>1. Y(in, h) = Trunc(in.imm, w)
    BY DEF Y
  <2> QED
    BY <1>1, <2>1, ShiftIs
<1>3. /\ g \in States /\ t \in Alu!Headers /\ g[t] = Alu!Cell(w, x)
      /\ Alu!hdr(t) \in Opds /\ Fits(g, Alu!hdr(t), w) /\ Worth(g, Alu!hdr(t), w) = x
  BY InPlaceStarts
<1>4. f \in Fs
  BY DEF Fs
<1>5. k \in Nat /\ p \in Nat \ {0} /\ p \in Word(w) /\ Trunc(p, w) = p
  <2> HIDE DEF w, k
  <2> QED
    BY <1>1, <1>2, PowerIs
<1>6. v = Computed(f, x, p, w)
  <2>1. v = IF in.op = "LSH" THEN (x * p) % Modulus(w) ELSE x \div p
    BY <1>2, SizesSame, Exp2Same DEF Kernel!Alu
  <2>2. p # 0
    BY <1>5
  <2> HIDE DEF p
  <2> QED
    BY <2>1, <2>2 DEF Computed, Trunc
<1>7. v \in Word(w) /\ v \in Word(8)
  <2>1. \A z \in Int : Trunc(z, w) \in Word(w)
    BY <1>1, WordIs
  <2>2. Word(w) = 0 .. Modulus(w) - 1 /\ Modulus(w) \in Nat
    BY <1>1, WordIs
  <2> HIDE DEF w, p, x, f
  <2>3. Trunc(x * p, w) \in Word(w)
    <3>1. x * p \in Int
      BY <1>1, <1>5
    <3> QED
      BY <2>1, <3>1
  <2>4. x \div p \in 0 .. x
    BY <1>1, <1>5
  <2>5. 0 .. x \subseteq Word(w)
    BY <1>1, <2>2
  <2>6. v \in Word(w)
    BY <1>5, <1>6, <2>3, <2>4, <2>5 DEF Computed, f
  <2> QED
    BY <1>1, <2>6, NatWord
<1>8. Alu!Shift(in, d) = Alu!InPlace(in, d, IF k = 0 THEN << >>
                                     ELSE << Alu!binop(f, w, Alu!hdr(t), Alu!konst(p), t) >>)
  <2>1. Alu!width(in) = w
    BY SizesSame DEF Alu!width, Alu!is64, Wd
  <2>2. (IF Alu!is64(in) THEN d ELSE Alu!H_TMP(0)) = t
    BY DEF Alu!is64, Work, T
  <2>3. in.op # "ARSH"
    OBVIOUS
  <2> HIDE DEF t, k, w, d
  <2> QED
    BY <2>1, <2>2, <2>3, Exp2Same DEF Alu!Shift, k
<1>9. CASE k = 0
  <2>1. p = 1
    BY <1>9, Exp2Is
  <2>2. v = x
    <3>1. x \div 1 = x /\ x * 1 = x
      BY <1>1
    <3>2. Trunc(x, w) = x
      BY <1>1, WordIs
    <3> HIDE DEF x, w, p
    <3> QED
      BY <1>6, <2>1, <3>1, <3>2 DEF Computed
  <2>3. Turns(g, << >>, t, w, v)
    <3>1. Alu!Exec(g, << >>) = g
      BY <1>3, ExecNone
    <3>2. << >> \in Seq(OpSet)
      OBVIOUS
    <3> HIDE DEF g, t, w
    <3> QED
      BY <1>3, <2>2, <3>1, <3>2 DEF Turns, Leaves, SameRegs
  <2>4. Turns(h, Alu!InPlace(in, H(in.dst), << >>), H(in.dst), 8, v)
    <3> DEFINE body == << >>
    <3> HIDE DEF body
    <3>1. Turns(Start(in, h, H(in.dst)), body, Work(in, H(in.dst)), Wd(in), v)
      BY <2>3 DEF body
    <3>2. Turns(h, Alu!InPlace(in, H(in.dst), body), H(in.dst), 8, v)
      BY <1>1, <1>7, <3>1, InPlaceIs
    <3> QED
      BY <3>2 DEF body
  <2> QED
    BY <1>7, <1>8, <1>9, <2>4
<1>10. CASE k # 0
  <2> DEFINE a == Alu!hdr(t)
             b == Alu!konst(p)
  <2>1. b \in Opds /\ Fits(g, b, w) /\ Worth(g, b, w) = p
    BY <1>5, ConstantIs
  <2> HIDE DEF a, b, f, t, g, w, x, p
  <2>2. Turns(h, Alu!InPlace(in, H(in.dst), << Alu!binop(f, w, a, b, t) >>), H(in.dst), 8, v)
    BY <1>1, <1>3, <1>4, <1>5, <1>6, <1>7, <2>1, OpInPlace DEF g, w, t, a
  <2> QED
    BY <1>7, <1>8, <1>10, <2>2 DEF a, b
<1> QED
  BY <1>9, <1>10

(* One more operation in a sequence, and four in one.                      *)
LEMMA Push ==
  ASSUME NEW S, NEW s \in Seq(S), NEW c \in S, NEW r, r = s \o << c >>
  PROVE  /\ r \in Seq(S) /\ Len(r) = Len(s) + 1 /\ r[Len(s) + 1] = c
         /\ \A i \in 1 .. Len(s) : r[i] = s[i]
<1> DEFINE e == << c >>
<1>1. e \in Seq(S) /\ Len(e) = 1 /\ e[1] = c
  OBVIOUS
<1> HIDE DEF e
<1>2. r = s \o e
  BY DEF e
<1>3. Len(s) \in Nat
  OBVIOUS
<1> QED
  BY <1>1, <1>2, <1>3

LEMMA Four ==
  ASSUME NEW a, NEW b, NEW c, NEW d
  PROVE  ((<< a >> \o << b >>) \o << c >>) \o << d >> = << a, b, c, d >>
<1> DEFINE S == {a, b, c, d}
           s1 == << a >>
           s2 == s1 \o << b >>
           s3 == s2 \o << c >>
           s == s3 \o << d >>
           r == << a, b, c, d >>
<1>1. s1 \in Seq(S) /\ r \in Seq(S) /\ Len(s1) = 1 /\ s1[1] = a
  OBVIOUS
<1>5. Len(r) = 4 /\ r[1] = a /\ r[2] = b /\ r[3] = c /\ r[4] = d
  OBVIOUS
<1>0. a \in S /\ b \in S /\ c \in S /\ d \in S
  OBVIOUS
<1> HIDE DEF S, s1, r
<1>2. s2 \in Seq(S) /\ Len(s2) = 2 /\ s2[1] = a /\ s2[2] = b
  <2> HIDE DEF s2
  <2>1. s2 = s1 \o << b >>
    BY DEF s2
  <2> QED
    BY <1>0, <1>1, <2>1, Push, SMTT(60)
<1> HIDE DEF s2
<1>3. s3 \in Seq(S) /\ Len(s3) = 3 /\ s3[1] = a /\ s3[2] = b /\ s3[3] = c
  <2> HIDE DEF s3
  <2>1. s3 = s2 \o << c >>
    BY DEF s3
  <2> QED
    BY <1>0, <1>2, <2>1, Push
<1> HIDE DEF s3
<1>4. s \in Seq(S) /\ Len(s) = 4 /\ s[1] = a /\ s[2] = b /\ s[3] = c /\ s[4] = d
  <2> HIDE DEF s
  <2>1. s = s3 \o << d >>
    BY DEF s
  <2> QED
    BY <1>0, <1>3, <2>1, Push, SMTT(60)
<1> HIDE DEF s
<1>6. \A i \in 1 .. Len(s) : s[i] = r[i]
  BY <1>4, <1>5
<1>7. s = r
  BY <1>1, <1>4, <1>5, <1>6, SeqEqual
<1> QED
  BY <1>7 DEF s, s3, s2, s1, r

(* An arithmetic shift: the sign spread over the bits a logical one leaves *)
(* empty.                                                                  *)
LEMMA Negative ==
  ASSUME NEW x \in Nat, NEW N \in Nat \ {0}, x < 2 * N
  PROVE  x \div N = IF x >= N THEN 1 ELSE 0
<1>1. CASE x >= N
  <2>1. x = 1 * N + (x - N) /\ x - N \in 0 .. N - 1
    BY <1>1
  <2> QED
    BY <1>1, <2>1, Divides
<1>2. CASE x < N
  <2>1. x = 0 * N + x /\ x \in 0 .. N - 1
    BY <1>2
  <2> QED
    BY <1>2, <2>1, Divides
<1> QED
  BY <1>1, <1>2

(* The quotient of a negative word, as the division of its word gives it.  *)
IsProduct(m, e, c) == m = e * c
SignShifts(x, e, c, m) ==
  /\ x \div e \in 0 .. c - 1 /\ (x \div e) % m = x \div e
  /\ ((x - m) \div e) % m = (x \div e) + (m - c)

LEMMA SignShift ==
  ASSUME NEW x \in Nat, NEW e \in Nat \ {0}, NEW c \in Nat \ {0}, NEW m \in Nat \ {0},
         IsProduct(m, e, c), x < m
  PROVE  SignShifts(x, e, c, m)
<1> DEFINE q == x \div e
           r == x % e
<1>0. m = e * c
  BY DEF IsProduct
<1>1. q \in Nat /\ r \in 0 .. e - 1 /\ x = q * e + r
  <2>1. x \in Int /\ x >= 0
    OBVIOUS
  <2> QED
    BY <2>1, Division
<1> HIDE DEF q, r
<1>2. q < c
  <2>1. SUFFICES ASSUME q >= c PROVE FALSE
    BY <1>1
  <2>2. q * e >= e * c
    BY <1>1, <2>1
  <2>3. q * e \in Nat /\ e * c \in Nat
    BY <1>1
  <2> QED
    BY <1>0, <1>1, <2>2, <2>3
<1>3. c <= m
  BY <1>0
<1>4. x - m = (q - c) * e + r /\ x - m \in Int /\ q - c \in Int
  <2>1. (q - c) * e = q * e - c * e
    BY <1>1
  <2>2. c * e = e * c /\ q * e \in Nat
    BY <1>1
  <2> QED
    BY <1>0, <1>1, <2>1, <2>2
<1>5. (x - m) \div e = q - c
  BY <1>1, <1>4, Divides
<1>6. q - c = (-1) * m + (q + (m - c)) /\ q + (m - c) \in 0 .. m - 1
  BY <1>1, <1>2, <1>3
<1>7. (q - c) % m = q + (m - c)
  BY <1>4, <1>6, Divides
<1>8. q = 0 * m + q /\ q \in 0 .. m - 1
  BY <1>1, <1>2, <1>3
<1>9. q % m = q
  BY <1>1, <1>8, Divides
<1> QED
  BY <1>1, <1>2, <1>5, <1>7, <1>9 DEF q, SignShifts

(* The sign of x in the k bits that a shift vacates.                       *)
Spread(x, k, w) == (x \div exp2[Bits(w) - 1]) * Alu!ArshMask(k, w)

(* The or of the two is the arithmetic shift.                              *)
LEMMA ArshValue ==
  ASSUME NEW w \in Widths, NEW k \in 0 .. Bits(w) - 1, k # 0, NEW x \in Word(w)
  PROVE  /\ Alu!ArshMask(k, w) \in Word(w) /\ Spread(x, k, w) \in Word(w)
         /\ x \div exp2[k] \in Word(w) /\ x \div exp2[Bits(w) - 1] \in Word(w)
         /\ ((x \div exp2[k]) | Spread(x, k, w)) = (Kernel!S(x, w) \div exp2[k]) % Modulus(w)
         /\ ((x \div exp2[k]) | Spread(x, k, w)) \in Word(8)
<1> DEFINE b == Bits(w)
           N == exp2[b - 1]
           m == exp2[b]
           e == exp2[k]
           c == exp2[b - k]
           z == Spread(x, k, w)
           q == x \div e
           g == x \div N
           mask == Alu!ArshMask(k, w)
<1>1. b \in Nat \ {0} /\ k \in Nat /\ b - k \in Nat \ {0} /\ b <= Top /\ Modulus(w) = m
      /\ k <= b /\ b - 1 \in Nat /\ Top \in Nat
  <2>1. k \in Nat /\ b \in Nat \ {0} /\ b - k \in Nat \ {0} /\ b <= Top /\ Modulus(w) = m
    BY PowerIs
  <2> HIDE DEF b, m
  <2> QED
    BY <2>1, TopIs
<1> HIDE DEF b
<1>2. N \in Nat \ {0} /\ m \in Nat \ {0} /\ e \in Nat \ {0} /\ c \in Nat \ {0}
  BY <1>1, Exp2Is
<1>3. m = 2 * N
  <2>1. (b - 1) + 1 = b
    BY <1>1
  <2> QED
    BY <1>1, <2>1, Exp2Is
<1>4. m = c * e
  BY <1>1, Exp2Grows
<1>5. x \in Nat /\ x < m
  <2>1. w \in 0 .. 8
    BY NatWord
  <2>2. Word(w) = 0 .. Modulus(w) - 1
    BY <2>1, WordIs
  <2> HIDE DEF m
  <2> QED
    BY <1>1, <1>2, <2>2
<1>6. mask = (e - 1) * c
  BY <1>1, Exp2Same, SizesSame DEF Alu!ArshMask, b
<1>7. z = g * mask
  BY DEF Spread, b
<1>8. Kernel!S(x, w) = IF x >= m \div 2 THEN x - m ELSE x
  BY <1>1, SizesSame DEF Kernel!S
<1>9. m <= exp2[Top]
  BY <1>1, Exp2Grows
<1>10. Word(w) = 0 .. m - 1
  BY <1>1 DEF Word
<1>11. mask % c = 0
  <2>1. e - 1 \in Int /\ mask \in Int /\ mask = (e - 1) * c + 0 /\ 0 \in 0 .. c - 1
    <3> HIDE DEF e, c, mask
    <3>1. (e - 1) * c \in Int
      BY <1>2
    <3> QED
      BY <1>2, <1>6, <3>1
  <2> HIDE DEF e, c, mask
  <2> QED
    BY <1>2, <2>1, Divides
<1> HIDE DEF N, m, e, c, z, g, mask
<1>12. m \div 2 = N
  <2>1. m = N * 2 + 0 /\ 0 \in 0 .. 2 - 1 /\ 2 \in Nat \ {0} /\ m \in Int /\ N \in Int
    BY <1>2, <1>3
  <2> QED
    BY <2>1, Divides
<1>13. mask = m - c /\ c <= m /\ mask \in Nat
  <2>1. c * e = e * c
    BY <1>2
  <2>2. c <= c * e
    BY <1>2
  <2>3. (e - 1) * c = e * c - c
    BY <1>2
  <2> QED
    BY <1>2, <1>4, <1>6, <2>1, <2>2, <2>3
<1>14. IsProduct(m, e, c)
  BY <1>2, <1>4 DEF IsProduct
<1>15. /\ q \in 0 .. c - 1 /\ q % m = q /\ ((x - m) \div e) % m = q + (m - c)
  <2>1. /\ x \div e \in 0 .. c - 1 /\ (x \div e) % m = x \div e
        /\ ((x - m) \div e) % m = (x \div e) + (m - c)
    <3> HIDE DEF q
    <3>1. SignShifts(x, e, c, m)
      BY <1>2, <1>5, <1>14, SignShift
    <3> QED
      BY <3>1 DEF SignShifts
  <2> QED
    BY <2>1
<1> HIDE DEF q
<1>16. g = IF x >= N THEN 1 ELSE 0
  BY <1>2, <1>3, <1>5, Negative DEF g
<1>17. z = IF x >= N THEN mask ELSE 0
  BY <1>7, <1>13, <1>16
<1>18. z % c = 0 /\ z \in Nat /\ z < m
  <2>1. 0 % c = 0
    BY <1>2
  <2> QED
    BY <1>2, <1>11, <1>13, <1>17, <2>1
<1>19. (z | q) = z + q
  <2>1. b - k \in 0 .. Top
    BY <1>1
  <2>2. z < exp2[Top]
    <3>1. exp2[Top] \in Nat
      BY <1>1, Exp2Is
    <3> QED
      BY <1>2, <1>9, <1>18, <3>1
  <2>3. z \in Nat /\ q \in Nat /\ z % exp2[b - k] = 0 /\ q < exp2[b - k]
    BY <1>2, <1>15, <1>18 DEF c
  <2> QED
    BY <2>1, <2>2, <2>3, OrDisjoint
<1>20. (q | z) = q + z
  <2>1. z \in Nat /\ q \in Nat
    BY <1>2, <1>15, <1>18
  <2>2. (q | z) = (z | q)
    BY <2>1, BitwiseIs
  <2> QED
    BY <1>19, <2>1, <2>2
<1>21. q + z = (Kernel!S(x, w) \div e) % m
  <2>1. CASE x >= N
    BY <1>2, <1>8, <1>12, <1>13, <1>15, <1>17, <2>1
  <2>2. CASE ~(x >= N)
    <3>1. (Kernel!S(x, w) \div e) % m = q
      BY <1>8, <1>12, <1>15, <2>2 DEF q
    <3> QED
      BY <1>2, <1>15, <1>17, <2>2, <3>1
  <2> QED
    BY <2>1, <2>2
<1>22. mask \in Word(w) /\ z \in Word(w) /\ q \in Word(w) /\ g \in Word(w)
  <2>1. mask < m
    BY <1>2, <1>13
  <2>2. q < m /\ q \in Nat
    BY <1>2, <1>13, <1>15
  <2>3. g < m /\ g \in Nat
    BY <1>2, <1>3, <1>16
  <2> QED
    BY <1>2, <1>10, <1>13, <1>18, <2>1, <2>2, <2>3
<1>23. (q | z) \in Word(8)
  <2>1. z \in Nat /\ q \in Nat
    BY <1>2, <1>15, <1>18
  <2> QED
    BY <2>1, BitwiseIs, SizesSame
<1> QED
  BY <1>1, <1>20, <1>21, <1>22, <1>23 DEF mask, z, q, g, e, N, b

(* One operation: what it leaves, and that it changes nothing else.        *)
Sets(g, h, t, w, v) ==
  /\ g \in States /\ g[t] = Alu!Cell(w, v) /\ g[t].w = w /\ g[t].v = v
  /\ \A u \in Alu!Headers : u # t => g[u] = h[u]

LEMMA SetSets ==
  ASSUME NEW h \in States, NEW t \in Alu!Headers, NEW w \in Nat, NEW v \in Nat, NEW g,
         g = [h EXCEPT ![t] = Alu!Cell(w, v)]
  PROVE  Sets(g, h, t, w, v)
<1>1. Alu!Cell(w, v) \in Cells /\ Alu!Cell(w, v).w = w /\ Alu!Cell(w, v).v = v
  BY DEF Cells, Alu!Cell
<1>2. g \in States /\ g[t] = Alu!Cell(w, v) /\ \A u \in Alu!Headers : u # t => g[u] = h[u]
  BY <1>1 DEF States
<1> QED
  BY <1>1, <1>2 DEF Sets

LEMMA OneStep ==
  ASSUME NEW h \in States, NEW f \in Fs, NEW w \in Widths, NEW a \in Opds, NEW b \in Opds,
         NEW t \in Alu!Headers, Fits(h, a, w), Fits(h, b, w),
         NEW x \in Nat, NEW y \in Nat, Worth(h, a, w) = x, Worth(h, b, w) = y,
         NEW v, v = Computed(f, x, y, w), NEW s, s = << Alu!binop(f, w, a, b, t) >>,
         NEW g, g = Alu!Exec(h, s)
  PROVE  Turns(h, s, t, w, v) /\ Sets(g, h, t, w, v)
<1>1. Turns(h, s, t, w, v) /\ g = [h EXCEPT ![t] = Alu!Cell(w, v)]
  BY OneOp
<1>2. v \in Nat /\ w \in Nat
  <2>1. v \in Nat
    BY ComputedIn
  <2> QED
    BY <2>1 DEF Widths
<1>3. Sets(g, h, t, w, v)
  BY <1>1, <1>2, SetSets
<1> QED
  BY <1>1, <1>3

(* The four operations of emit_arsh_const.                                 *)
LEMMA ArshRuns ==
  ASSUME NEW w \in Widths, NEW k \in 0 .. Bits(w) - 1, k # 0, NEW x \in Word(w),
         NEW h \in States, NEW t \in Alu!Headers, NEW p \in Alu!Headers, NEW q \in Alu!Headers,
         t # p, t # q, p # q, Scratch(p), Scratch(q), h[t].w = w, h[t].v = x,
         NEW n \in Nat, p = Alu!H_TMP(n), q = Alu!H_TMP(n + 1)
  PROVE  Turns(h, Alu!emit_arsh_const(t, k, w, n), t, w,
               (Kernel!S(x, w) \div exp2[k]) % Modulus(w))
<1> DEFINE N == exp2[Bits(w) - 1]
           e == exp2[k]
           mask == Alu!ArshMask(k, w)
           sg == x \div N
           z == Spread(x, k, w)
           y == x \div e
           v == (y | z)
           s1 == << Alu!binop("DivOp", w, Alu!hdr(t), Alu!konst(N), p) >>
           s2 == << Alu!binop("MulOp", w, Alu!hdr(p), Alu!konst(mask), q) >>
           s3 == << Alu!binop("DivOp", w, Alu!hdr(t), Alu!konst(e), t) >>
           s4 == << Alu!binop("OrOp", w, Alu!hdr(t), Alu!hdr(q), t) >>
           g1 == Alu!Exec(h, s1)
           g2 == Alu!Exec(g1, s2)
           g3 == Alu!Exec(g2, s3)
           g4 == Alu!Exec(g3, s4)
<1>1. mask \in Word(w) /\ z \in Word(w) /\ y \in Word(w) /\ sg \in Word(w)
      /\ v = (Kernel!S(x, w) \div exp2[k]) % Modulus(w)
  BY ArshValue
<1>2. w \in 0 .. 8 /\ Word(w) \subseteq Nat /\ "DivOp" \in Fs /\ "MulOp" \in Fs /\ "OrOp" \in Fs
  BY NatWord DEF Fs
<1>3. Trunc(mask, w) = mask /\ Trunc(z, w) = z
  <2> HIDE DEF mask, z
  <2> QED
    BY <1>1, <1>2, WordIs
<1>4. e \in Nat \ {0} /\ e \in Word(w) /\ Trunc(e, w) = e
  BY PowerIs
<1>5. N \in Nat \ {0} /\ N \in Word(w) /\ Trunc(N, w) = N
  <2>1. Bits(w) \in Nat \ {0}
    BY PowerIs
  <2>2. Bits(w) - 1 \in 0 .. Bits(w) - 1
    BY <2>1
  <2> QED
    BY <2>2, PowerIs
<1>6. Alu!emit_arsh_const(t, k, w, n) = ((s1 \o s2) \o s3) \o s4
  <2>1. Alu!emit_arsh_const(t, k, w, n) = << s1[1], s2[1], s3[1], s4[1] >>
    BY Exp2Same, SizesSame DEF Alu!emit_arsh_const
  <2> DEFINE o1 == s1[1]
             o2 == s2[1]
             o3 == s3[1]
             o4 == s4[1]
  <2>2. s1 = << o1 >> /\ s2 = << o2 >> /\ s3 = << o3 >> /\ s4 = << o4 >>
    OBVIOUS
  <2> HIDE DEF o1, o2, o3, o4, s1, s2, s3, s4
  <2>3. ((<< o1 >> \o << o2 >>) \o << o3 >>) \o << o4 >> = << o1, o2, o3, o4 >>
    BY Four
  <2> QED
    BY <2>1, <2>2, <2>3 DEF o1, o2, o3, o4
<1>7. z = sg * mask
  BY DEF Spread
<1>8. \A c \in Nat : c \in Int
  OBVIOUS
<1> HIDE DEF N, e, mask, sg, z, y, v, g1, g2, g3, g4
<1>9. Turns(h, s1, p, w, sg) /\ Sets(g1, h, p, w, sg)
  <2> DEFINE a == Alu!hdr(t)
             b == Alu!konst(N)
  <2>1. a \in Opds /\ Fits(h, a, w) /\ Worth(h, a, w) = x
    BY HeldIs
  <2>2. b \in Opds /\ Fits(h, b, w) /\ Worth(h, b, w) = N
    BY <1>5, ConstantIs
  <2>3. sg = Computed("DivOp", x, N, w)
    BY <1>5 DEF Computed, sg
  <2>4. s1 = << Alu!binop("DivOp", w, a, b, p) >>
    OBVIOUS
  <2> HIDE DEF a, b, s1
  <2>5. x \in Nat /\ N \in Nat /\ g1 = Alu!Exec(h, s1)
    BY <1>2, <1>5 DEF g1
  <2> QED
    BY <1>2, <2>1, <2>2, <2>3, <2>4, <2>5, OneStep
<1>10. g1 \in States /\ g1[p].w = w /\ g1[p].v = sg /\ g1[t] = h[t]
  BY <1>9 DEF Sets
<1>11. Turns(g1, s2, q, w, z) /\ Sets(g2, g1, q, w, z)
  <2> DEFINE a == Alu!hdr(p)
             b == Alu!konst(mask)
  <2>1. a \in Opds /\ Fits(g1, a, w) /\ Worth(g1, a, w) = sg
    BY <1>10, HeldIs
  <2>2. b \in Opds /\ Fits(g1, b, w) /\ Worth(g1, b, w) = mask
    BY <1>1, <1>2, <1>3, ConstantIs
  <2>3. z = Computed("MulOp", sg, mask, w)
    BY <1>3, <1>7 DEF Computed
  <2>4. s2 = << Alu!binop("MulOp", w, a, b, q) >>
    OBVIOUS
  <2> HIDE DEF a, b, s2
  <2>5. sg \in Nat /\ mask \in Nat /\ g2 = Alu!Exec(g1, s2)
    BY <1>1, <1>2 DEF g2
  <2> QED
    BY <1>2, <1>10, <2>1, <2>2, <2>3, <2>4, <2>5, OneStep
<1>12. g2 \in States /\ g2[q].w = w /\ g2[q].v = z /\ g2[t].w = w /\ g2[t].v = x
  BY <1>10, <1>11 DEF Sets
<1>13. Turns(g2, s3, t, w, y) /\ Sets(g3, g2, t, w, y)
  <2> DEFINE a == Alu!hdr(t)
             b == Alu!konst(e)
  <2>1. a \in Opds /\ Fits(g2, a, w) /\ Worth(g2, a, w) = x
    BY <1>12, HeldIs
  <2>2. b \in Opds /\ Fits(g2, b, w) /\ Worth(g2, b, w) = e
    BY <1>4, ConstantIs
  <2>3. y = Computed("DivOp", x, e, w)
    BY <1>4 DEF Computed, y
  <2>4. s3 = << Alu!binop("DivOp", w, a, b, t) >>
    OBVIOUS
  <2> HIDE DEF a, b, s3
  <2>5. x \in Nat /\ e \in Nat /\ g3 = Alu!Exec(g2, s3)
    BY <1>2, <1>4 DEF g3
  <2> QED
    BY <1>2, <1>12, <2>1, <2>2, <2>3, <2>4, <2>5, OneStep
<1>14. g3 \in States /\ g3[t].w = w /\ g3[t].v = y /\ g3[q].w = w /\ g3[q].v = z
  BY <1>12, <1>13 DEF Sets
<1>15. Turns(g3, s4, t, w, v)
  <2> DEFINE a == Alu!hdr(t)
             b == Alu!hdr(q)
  <2>1. a \in Opds /\ Fits(g3, a, w) /\ Worth(g3, a, w) = y
    BY <1>14, HeldIs
  <2>2. b \in Opds /\ Fits(g3, b, w) /\ Worth(g3, b, w) = z
    BY <1>14, HeldIs
  <2>3. v = Computed("OrOp", y, z, w)
    BY DEF Computed, v
  <2>4. s4 = << Alu!binop("OrOp", w, a, b, t) >>
    OBVIOUS
  <2> HIDE DEF a, b, s4
  <2>5. y \in Nat /\ z \in Nat /\ g4 = Alu!Exec(g3, s4)
    BY <1>1, <1>2 DEF g4
  <2> QED
    BY <1>2, <1>14, <2>1, <2>2, <2>3, <2>4, <2>5, OneStep
<1> HIDE DEF s1, s2, s3, s4
<1>16. Turns(h, s1 \o s2, q, w, z) /\ g2 = Alu!Exec(h, s1 \o s2)
  <2>1. g1 = Alu!Exec(h, s1) /\ g2 = Alu!Exec(g1, s2)
    BY DEF g1, g2
  <2>2. Turns(h, s1 \o s2, q, w, z)
    BY <1>9, <1>11, <2>1, TurnsThen, Zenon
  <2>3. s1 \in Seq(OpSet) /\ s2 \in Seq(OpSet)
    BY <1>9, <1>11 DEF Turns
  <2> QED
    BY <2>1, <2>2, <2>3, ExecJoin
<1> DEFINE r2 == s1 \o s2
<1> HIDE DEF r2
<1>17. Turns(h, r2 \o s3, t, w, y) /\ g3 = Alu!Exec(h, r2 \o s3)
  <2>1. g2 = Alu!Exec(h, r2) /\ g3 = Alu!Exec(g2, s3) /\ Turns(h, r2, q, w, z)
    BY <1>16 DEF g3, r2
  <2>2. Turns(h, r2 \o s3, t, w, y)
    BY <1>13, <2>1, TurnsThen, Zenon
  <2>3. r2 \in Seq(OpSet) /\ s3 \in Seq(OpSet)
    BY <1>13, <2>1 DEF Turns
  <2> QED
    BY <2>1, <2>2, <2>3, ExecJoin
<1> DEFINE r3 == r2 \o s3
<1> HIDE DEF r3
<1>18. Turns(h, r3 \o s4, t, w, v)
  <2>1. g3 = Alu!Exec(h, r3) /\ Turns(h, r3, t, w, y)
    BY <1>17 DEF r3
  <2> QED
    BY <1>15, <2>1, TurnsThen, Zenon
<1> QED
  BY <1>1, <1>6, <1>18 DEF r3, r2

(* ARSH at both widths.                                                    *)
LEMMA ArshMeans ==
  ASSUME NEW in, Good(in), in.op = "ARSH", in.isImm, NEW h, RegsHold(h),
         NEW v, v = Kernel!Alu(in.op, X(in, h), Y(in, h), Wd(in))
  PROVE  /\ Turns(h, Alu!Shift(in, H(in.dst)), H(in.dst), 8, v) /\ v \in Word(8)
<1> DEFINE d == H(in.dst)
           w == Wd(in)
           x == X(in, h)
           k == Alu!ShiftBy(in)
           t == Work(in, d)
           g == Start(in, h, d)
           n == IF in.cls = "ALU64" THEN 0 ELSE 1
           body == Alu!emit_arsh_const(t, k, w, n)
<1>1. in.dst \in RegNos /\ w \in Widths /\ w \in 0 .. 8 /\ x \in Nat /\ x \in Word(w) /\ in.imm \in Int
      /\ d \in Alu!Headers
  BY OperandsAre DEF Good
<1>2. k \in 0 .. Bits(w) - 1 /\ Kernel!Shift(Y(in, h), w) = k
  <2>1. Y(in, h) = Trunc(in.imm, w)
    BY DEF Y
  <2> QED
    BY <1>1, <2>1, ShiftIs
<1>3. g \in States /\ t \in Alu!Headers /\ g[t] = Alu!Cell(w, x) /\ g[t].w = w /\ g[t].v = x
  BY InPlaceStarts
<1>4. v = (Kernel!S(x, w) \div exp2[k]) % Modulus(w)
  BY <1>2, SizesSame, Exp2Same DEF Kernel!Alu
<1>5. Alu!Shift(in, d) = Alu!InPlace(in, d, body)
  <2>1. Alu!width(in) = w
    BY SizesSame DEF Alu!width, Alu!is64, Wd
  <2>2. (IF Alu!is64(in) THEN d ELSE Alu!H_TMP(0)) = t /\ (IF Alu!is64(in) THEN 0 ELSE 1) = n
    BY DEF Alu!is64, Work, T
  <2> HIDE DEF t, w, n, k, d
  <2> QED
    BY <2>1, <2>2 DEF Alu!Shift, k
<1>6. Turns(g, body, t, w, v) /\ v \in Word(8)
  <2>1. CASE k = 0
    <3>1. body = << >>
      BY <2>1 DEF Alu!emit_arsh_const
    <3>2. v = x
      <4>1. exp2[k] = 1
        BY <2>1, Exp2Is
      <4>2. Modulus(w) \in Nat \ {0} /\ Word(w) = 0 .. Modulus(w) - 1 /\ Trunc(x, w) = x
        BY <1>1, WordIs
      <4>3. Kernel!S(x, w) = IF x >= Modulus(w) \div 2 THEN x - Modulus(w) ELSE x
        BY SizesSame DEF Kernel!S
      <4> DEFINE m == Modulus(w)
                 z == Kernel!S(x, w)
      <4> HIDE DEF m, z, x, k, w
      <4>4. m \in Nat \ {0} /\ x \in 0 .. m - 1 /\ x % m = x
        BY <1>1, <4>2 DEF m, Trunc
      <4>5. z \in Int /\ z \div 1 = z
        BY <1>1, <4>3, <4>4 DEF z, m
      <4>6. (x - m) % m = x
        <5>1. x - m = (-1) * m + x
          BY <4>4
        <5> QED
          BY <4>4, <5>1, Divides
      <4>7. z % m = x
        BY <4>3, <4>4, <4>6 DEF z, m
      <4> QED
        BY <1>4, <4>1, <4>5, <4>7 DEF z, m
    <3>3. Alu!Exec(g, << >>) = g
      BY <1>3, ExecNone
    <3>4. << >> \in Seq(OpSet) /\ x \in Word(8)
      BY <1>1, NatWord
    <3> HIDE DEF g, t, w, x, body
    <3> QED
      BY <1>3, <3>1, <3>2, <3>3, <3>4 DEF Turns, Leaves, SameRegs
  <2>2. CASE k # 0
    <3> DEFINE p == T(n)
               q == T(n + 1)
    <3>1. p \in Alu!Headers /\ q \in Alu!Headers /\ t # p /\ t # q /\ p # q /\ Scratch(p) /\ Scratch(q)
          /\ n \in Nat /\ p = Alu!H_TMP(n) /\ q = Alu!H_TMP(n + 1)
      <4>1. CASE in.cls = "ALU64"
        <5>1. p = T(0) /\ q = T(1) /\ t = d /\ n = 0
          BY <4>1 DEF Work
        <5>2. p = Alu!H_TMP(n) /\ q = Alu!H_TMP(n + 1)
          BY DEF T
        <5> HIDE DEF p, q, t, d, n
        <5> QED
          BY <1>1, <5>1, <5>2, HeadersAre DEF Scratch, d
      <4>2. CASE in.cls # "ALU64"
        <5>1. p = T(1) /\ q = T(2) /\ t = T(0) /\ n = 1
          BY <4>2 DEF Work
        <5>2. p = Alu!H_TMP(n) /\ q = Alu!H_TMP(n + 1)
          BY DEF T
        <5> HIDE DEF p, q, t, d, n
        <5> QED
          BY <1>1, <5>1, <5>2, HeadersAre DEF Scratch, d
      <4> QED
        BY <4>1, <4>2
    <3> HIDE DEF g, t, w, x, n, p, q, k
    <3>2. Turns(g, body, t, w, v)
      BY <1>1, <1>2, <1>3, <1>4, <2>2, <3>1, ArshRuns
    <3>3. v \in Word(8)
      BY <1>1, <1>2, <1>4, <2>2, ArshValue
    <3> QED
      BY <3>2, <3>3
  <2> QED
    BY <2>1, <2>2
<1> HIDE DEF body
<1>7. Turns(Start(in, h, H(in.dst)), body, Work(in, H(in.dst)), Wd(in), v)
  BY <1>6
<1>8. Turns(h, Alu!InPlace(in, H(in.dst), body), H(in.dst), 8, v)
  BY <1>1, <1>6, <1>7, InPlaceIs
<1> QED
  BY <1>5, <1>6, <1>8

LEMMA TrailOf ==
  ASSUME NEW h \in States, NEW s, NEW t, NEW w, NEW v, Turns(h, s, t, w, v),
         NEW g, g = Alu!Exec(h, s), NEW r, NEW t2, NEW w2, NEW v2, Turns(g, r, t2, w2, v2)
  PROVE  Alu!Exec(h, s \o r) = Alu!Exec(g, r) /\ s \o r \in Seq(OpSet) /\ g \in States
<1>1. s \in Seq(OpSet) /\ r \in Seq(OpSet)
  BY DEF Turns
<1> QED
  BY <1>1, ExecJoin

(* The powers of two that a byte of a word is taken from and put at.       *)
LEMMA BytesAre ==
  ASSUME NEW n \in 1 .. 8, NEW i \in 0 .. n - 1
  PROVE  /\ Byte * i \in Nat /\ Byte * (n - 1 - i) \in Nat /\ Byte \in 0 .. Top
         /\ exp2[Byte * i] \in Nat \ {0} /\ exp2[Byte * i] \in Word(8) /\ exp2[Byte * i] = Kernel!M(i)
         /\ exp2[Byte] \in Nat \ {0} /\ exp2[Byte] - 1 \in Word(8) /\ exp2[Byte] = Kernel!M(1)
         /\ exp2[Byte * (n - 1 - i)] \in Nat \ {0} /\ exp2[Byte * (n - 1 - i)] \in Word(8)
         /\ Modulus(n - i) = exp2[Byte] * exp2[Byte * (n - 1 - i)]
         /\ Modulus(n - i) \in Nat \ {0} /\ Modulus(n - i) <= Modulus(8) /\ Bits(n - i) \in 0 .. Top
<1>1. Byte \in Nat \ {0} /\ Top = 8 * Byte /\ Top \in Nat
  BY TopIs
<1>2. i \in 0 .. 7 /\ n - 1 - i \in 0 .. 7 /\ n - i \in 1 .. 8
  OBVIOUS
<1>3. ASSUME NEW j \in 0 .. 7
      PROVE  /\ Byte * j \in Nat /\ exp2[Byte * j] \in Nat \ {0} /\ exp2[Byte * j] \in Word(8)
             /\ exp2[Byte * j] = Kernel!M(j) /\ Byte * j \in 0 .. Top
             /\ exp2[Byte * j] - 1 \in Word(8)
  <2>1. Byte * j \in Nat /\ Byte * j = j * Byte /\ Byte * j < Top
    BY <1>1
  <2>2. 2 * exp2[Byte * j] <= exp2[Top]
    BY <1>1, <2>1, Exp2Grows
  <2>3. exp2[Byte * j] \in Nat \ {0} /\ exp2[Top] \in Nat
    BY <1>1, <2>1, Exp2Is
  <2>4. Word(8) = 0 .. exp2[Top] - 1
    <3>1. 8 \in 0 .. 8
      OBVIOUS
    <3>2. Word(8) = 0 .. Modulus(8) - 1 /\ Modulus(8) = exp2[Bits(8)]
      BY <3>1, WordIs
    <3>3. Bits(8) = Top
      BY <1>1 DEF Bits
    <3> QED
      BY <3>2, <3>3
  <2>5. Kernel!M(j) = exp2[j * Byte]
    BY SizesSame DEF Modulus, Bits
  <2>6. exp2[Byte * j] - 1 \in Word(8) /\ exp2[Byte * j] \in Word(8)
    BY <2>2, <2>3, <2>4
  <2> QED
    BY <1>1, <2>1, <2>3, <2>5, <2>6
<1>4. Byte * 1 = Byte
  BY <1>1
<1>5. exp2[Byte] \in Nat \ {0} /\ exp2[Byte] - 1 \in Word(8) /\ exp2[Byte] = Kernel!M(1) /\ Byte \in 0 .. Top
  <2>1. 1 \in 0 .. 7
    OBVIOUS
  <2> QED
    BY <1>3, <1>4, <2>1
<1>6. n - i \in 0 .. 8
  BY <1>2
<1>7. Modulus(n - i) \in Nat \ {0} /\ Bits(n - i) \in 0 .. Top /\ Modulus(n - i) = exp2[Bits(n - i)]
  <2> DEFINE j == n - i
  <2> HIDE DEF j
  <2>1. j \in 0 .. 8
    BY <1>6 DEF j
  <2>2. Modulus(j) \in Nat \ {0} /\ Bits(j) \in 0 .. Top /\ Modulus(j) = exp2[Bits(j)]
    BY <2>1, WordIs
  <2> QED
    BY <2>2 DEF j
<1>8. Bits(n - i) = Byte + Byte * (n - 1 - i)
  <2> DEFINE j == n - 1 - i
  <2>1. n - i = j + 1 /\ j \in Nat
    BY <1>2
  <2> HIDE DEF j
  <2>2. (j + 1) * Byte = Byte + Byte * j
    BY <1>1, <2>1
  <2>3. Bits(j + 1) = (j + 1) * Byte
    BY DEF Bits
  <2> QED
    BY <2>1, <2>2, <2>3 DEF j
<1>9. Modulus(n - i) = exp2[Byte] * exp2[Byte * (n - 1 - i)]
  <2>1. Byte \in Nat /\ Byte * (n - 1 - i) \in Nat
    BY <1>1, <1>2, <1>3
  <2> QED
    BY <1>7, <1>8, <2>1, Exp2Sum
<1>10. Modulus(n - i) <= Modulus(8)
  <2>1. Modulus(8) = exp2[Top]
    BY <1>1 DEF Modulus, Bits
  <2>2. Bits(n - i) \in Nat /\ Bits(n - i) <= Top
    BY <1>1, <1>7
  <2> QED
    BY <1>1, <1>7, <2>1, <2>2, Exp2Grows
<1> QED
  BY <1>2, <1>3, <1>5, <1>7, <1>9, <1>10

Put(v, i, n) == Kernel!ByteOf(v, i) * exp2[Byte * (n - 1 - i)]

LEMMA PutIs ==
  ASSUME NEW n \in 1 .. 8, NEW i \in 0 .. n - 1, NEW v \in Nat
  PROVE  /\ Kernel!ByteOf(v, i) \in 0 .. exp2[Byte] - 1 /\ Kernel!ByteOf(v, i) \in Word(8)
         /\ Kernel!ByteOf(v, i) = (v \div exp2[Byte * i]) % exp2[Byte]
         /\ Put(v, i, n) \in 0 .. Modulus(n - i) - 1 /\ Put(v, i, n) \in Word(8)
         /\ Trunc(Put(v, i, n), 8) = Put(v, i, n)
<1> DEFINE e == exp2[Byte * i]
           c == exp2[Byte]
           u == exp2[Byte * (n - 1 - i)]
           b == Kernel!ByteOf(v, i)
           m == Modulus(n - i)
<1>1. e \in Nat \ {0} /\ c \in Nat \ {0} /\ u \in Nat \ {0} /\ m = c * u /\ m \in Nat \ {0}
      /\ m <= Modulus(8) /\ c - 1 \in Word(8)
  BY BytesAre
<1>2. b = (v \div e) % c
  BY BytesAre DEF Kernel!ByteOf
<1>3. 8 \in 0 .. 8
  OBVIOUS
<1>4. Word(8) = 0 .. Modulus(8) - 1 /\ Modulus(8) \in Nat \ {0}
  BY <1>3, WordIs
<1>5. Put(v, i, n) = b * u
  BY DEF Put
<1> HIDE DEF e, c, u, b, m
<1>6. b \in 0 .. c - 1
  <2>1. v \div e \in Int
    BY <1>1
  <2> QED
    BY <1>1, <1>2, <2>1
<1>7. b * u \in 0 .. m - 1
  <2>1. (b + 1) * u <= c * u
    BY <1>1, <1>6
  <2>2. (b + 1) * u = b * u + u
    BY <1>1, <1>6
  <2>3. b * u \in Nat
    BY <1>1, <1>6
  <2> QED
    BY <1>1, <2>1, <2>2, <2>3
<1>8. b * u \in Word(8) /\ b \in Word(8)
  BY <1>1, <1>4, <1>6, <1>7
<1>9. Trunc(b * u, 8) = b * u
  BY <1>3, <1>8, WordIs
<1> QED
  BY <1>2, <1>5, <1>6, <1>7, <1>8, <1>9 DEF b, c, e, m

(* One byte is brought down, masked, and put at its mirror place.          *)
Swapping(h, v, A) ==
  h \in States /\ h[T(0)].w = 8 /\ h[T(0)].v = v /\ h[T(1)].w = 8 /\ h[T(1)].v = A

(* One byte of a swap.                                                     *)
LEMMA SwapStep ==
  ASSUME NEW n \in 1 .. 8, NEW i \in 0 .. n - 1, NEW v \in Word(8), NEW A \in Word(8),
         NEW h, Swapping(h, v, A), NEW g, g = Alu!Exec(h, Alu!SwapByte(i, n, 0))
  PROVE  /\ Alu!SwapByte(i, n, 0) \in Seq(OpSet)
         /\ Swapping(g, v, A | Put(v, i, n)) /\ SameRegs(g, h, T(1))
<1> DEFINE e == exp2[Byte * i]
           c == exp2[Byte] - 1
           u == exp2[Byte * (n - 1 - i)]
           q == v \div e
           y == Kernel!ByteOf(v, i)
           z == Put(v, i, n)
           src == T(0)
           acc == T(1)
           b == T(2)
           s1 == << IF i = 0 THEN Alu!move(b, src)
                    ELSE Alu!binop("DivOp", 8, Alu!hdr(src), Alu!konst(e), b) >>
           s2 == << Alu!binop("AndOp", 8, Alu!hdr(b), Alu!konst(c), b) >>
           s3 == IF Byte * (n - 1 - i) = 0 THEN << >>
                 ELSE << Alu!binop("MulOp", 8, Alu!hdr(b), Alu!konst(u), b) >>
           s4 == << Alu!binop("OrOp", 8, Alu!hdr(acc), Alu!hdr(b), acc) >>
           g1 == Alu!Exec(h, s1)
           g2 == Alu!Exec(g1, s2)
           g3 == Alu!Exec(g2, s3)
           g4 == Alu!Exec(g3, s4)
<1>1. v \in Nat /\ A \in Nat /\ 8 \in Widths /\ "DivOp" \in Fs /\ "AndOp" \in Fs /\ "MulOp" \in Fs
      /\ "OrOp" \in Fs
  <2>1. 8 \in Widths
    BY DEF Widths
  <2> QED
    BY <2>1, NatWord DEF Fs
<1>2. src \in Alu!Headers /\ acc \in Alu!Headers /\ b \in Alu!Headers /\ src # acc /\ src # b /\ acc # b
      /\ Scratch(b) /\ Scratch(acc)
  BY HeadersAre DEF Scratch
<1>3. e \in Nat \ {0} /\ Trunc(e, 8) = e /\ c \in Nat /\ Trunc(c, 8) = c /\ u \in Nat \ {0} /\ Trunc(u, 8) = u
  <2>1. e \in Nat \ {0} /\ e \in Word(8) /\ c \in Word(8) /\ u \in Nat \ {0} /\ u \in Word(8)
    BY BytesAre
  <2>2. 8 \in 0 .. 8
    OBVIOUS
  <2> HIDE DEF e, c, u
  <2>3. Trunc(e, 8) = e /\ Trunc(c, 8) = c /\ Trunc(u, 8) = u
    BY <2>1, <2>2, WordIs
  <2> QED
    BY <1>1, <2>1, <2>3, NatWord
<1>4. y = q % exp2[Byte] /\ y \in Word(8) /\ z \in Word(8) /\ Trunc(z, 8) = z /\ z = y * u
  BY <1>1, PutIs DEF Put
<1>5. q \in Nat
  <2> HIDE DEF e
  <2>1. v \in Int /\ v >= 0
    BY <1>1
  <2> QED
    BY <1>3, <2>1, Division
<1>6. (q & c) = y
  <2>1. Byte \in 0 .. Top
    BY BytesAre
  <2> HIDE DEF q
  <2> QED
    BY <1>4, <1>5, <2>1, AndMask
<1>7. y \in Nat /\ z \in Nat
  BY <1>1, <1>4, NatWord
<1>8. Alu!SwapByte(i, n, 0) = ((s1 \o s2) \o s3) \o s4
  <2> DEFINE o1 == IF i = 0 THEN Alu!move(b, src)
                   ELSE Alu!binop("DivOp", 8, Alu!hdr(src), Alu!konst(e), b)
             o2 == Alu!binop("AndOp", 8, Alu!hdr(b), Alu!konst(c), b)
  <2>1. Alu!SwapByte(i, n, 0) = (<< o1, o2 >> \o s3) \o s4
    BY Exp2Same, SizesSame DEF Alu!SwapByte, T
  <2>2. << o1, o2 >> = s1 \o s2
    <3>1. s1 = << o1 >> /\ s2 = << o2 >>
      OBVIOUS
    <3> HIDE DEF o1, o2, s1, s2
    <3> QED
      BY <3>1, Two
  <2> HIDE DEF o1, o2, s1, s2, s3, s4
  <2> QED
    BY <2>1, <2>2
<1>9. h \in States /\ h[src].w = 8 /\ h[src].v = v /\ h[acc].w = 8 /\ h[acc].v = A
  BY DEF Swapping
<1> HIDE DEF e, c, u, q, y, z, src, acc, b, g1, g2, g3, g4
<1>10. Turns(h, s1, b, 8, q) /\ Sets(g1, h, b, 8, q)
  <2>1. CASE i = 0
    <3>1. q = v
      <4>1. Byte * i = 0
        BY <2>1, TopIs
      <4>2. e = 1
        BY <4>1, Exp2Is DEF e
      <4> QED
        BY <1>1, <4>2 DEF q
    <3>2. s1 = << Alu!move(b, src) >>
      BY <2>1
    <3>3. Turns(h, s1, b, 8, q) /\ g1 = [h EXCEPT ![b] = Alu!Cell(8, q)]
      BY <1>2, <1>9, <3>1, <3>2, MoveIs DEF g1
    <3>4. 8 \in Nat
      OBVIOUS
    <3> HIDE DEF s1
    <3>5. Sets(g1, h, b, 8, q)
      BY <1>2, <1>5, <1>9, <3>3, <3>4, SetSets
    <3> QED
      BY <3>3, <3>5
  <2>2. CASE i # 0
    <3> DEFINE aa == Alu!hdr(src)
               bb == Alu!konst(e)
    <3>1. aa \in Opds /\ Fits(h, aa, 8) /\ Worth(h, aa, 8) = v
      BY <1>2, <1>9, HeldIs
    <3>2. bb \in Opds /\ Fits(h, bb, 8) /\ Worth(h, bb, 8) = e
      BY <1>3, ConstantIs
    <3>3. q = Computed("DivOp", v, e, 8)
      BY <1>3 DEF Computed, q
    <3>4. s1 = << Alu!binop("DivOp", 8, aa, bb, b) >>
      BY <2>2
    <3> HIDE DEF aa, bb, s1
    <3>5. e \in Nat /\ g1 = Alu!Exec(h, s1)
      BY <1>3 DEF g1
    <3> QED
      BY <1>1, <1>2, <1>9, <3>1, <3>2, <3>3, <3>4, <3>5, OneStep
  <2> QED
    BY <2>1, <2>2
<1>11. g1 \in States /\ g1[b].w = 8 /\ g1[b].v = q /\ g1[src] = h[src] /\ g1[acc] = h[acc]
  BY <1>2, <1>10 DEF Sets
<1>12. Turns(g1, s2, b, 8, y) /\ Sets(g2, g1, b, 8, y)
  <2> DEFINE aa == Alu!hdr(b)
             bb == Alu!konst(c)
  <2>1. aa \in Opds /\ Fits(g1, aa, 8) /\ Worth(g1, aa, 8) = q
    BY <1>2, <1>11, HeldIs
  <2>2. bb \in Opds /\ Fits(g1, bb, 8) /\ Worth(g1, bb, 8) = c
    BY <1>3, ConstantIs
  <2>3. y = Computed("AndOp", q, c, 8)
    BY <1>6 DEF Computed
  <2>4. s2 = << Alu!binop("AndOp", 8, aa, bb, b) >>
    OBVIOUS
  <2> HIDE DEF aa, bb, s2
  <2>5. g2 = Alu!Exec(g1, s2)
    BY DEF g2
  <2> QED
    BY <1>1, <1>2, <1>3, <1>5, <1>11, <2>1, <2>2, <2>3, <2>4, <2>5, OneStep
<1>13. g2 \in States /\ g2[b].w = 8 /\ g2[b].v = y /\ g2[src] = h[src] /\ g2[acc] = h[acc]
  BY <1>2, <1>11, <1>12 DEF Sets
<1>14. Turns(g2, s3, b, 8, z) /\ Sets(g3, g2, b, 8, z)
  <2>1. CASE Byte * (n - 1 - i) = 0
    <3>1. s3 = << >>
      BY <2>1
    <3>2. u = 1
      BY <2>1, Exp2Is DEF u
    <3>3. z = y
      BY <1>4, <1>7, <3>2
    <3>4. g3 = g2
      BY <1>13, <3>1, ExecNone DEF g3
    <3>5. g2[b] = Alu!Cell(8, z)
      BY <1>2, <1>12, <3>3 DEF Sets
    <3>6. Sets(g3, g2, b, 8, z)
      BY <1>13, <3>3, <3>4, <3>5 DEF Sets
    <3>7. << >> \in Seq(OpSet)
      OBVIOUS
    <3>8. Leaves(g3, g2, b, 8, z)
      BY <1>13, <3>4, <3>5 DEF Leaves, SameRegs
    <3>9. Turns(g2, s3, b, 8, z)
      BY <3>1, <3>7, <3>8 DEF Turns, g3
    <3> QED
      BY <3>6, <3>9
  <2>2. CASE Byte * (n - 1 - i) # 0
    <3> DEFINE aa == Alu!hdr(b)
               bb == Alu!konst(u)
    <3>1. aa \in Opds /\ Fits(g2, aa, 8) /\ Worth(g2, aa, 8) = y
      BY <1>2, <1>13, HeldIs
    <3>2. bb \in Opds /\ Fits(g2, bb, 8) /\ Worth(g2, bb, 8) = u
      BY <1>3, ConstantIs
    <3>3. z = Computed("MulOp", y, u, 8)
      BY <1>4 DEF Computed
    <3>4. s3 = << Alu!binop("MulOp", 8, aa, bb, b) >>
      BY <2>2
    <3> HIDE DEF aa, bb, s3
    <3>5. u \in Nat /\ g3 = Alu!Exec(g2, s3)
      BY <1>3 DEF g3
    <3> QED
      BY <1>1, <1>2, <1>7, <1>13, <3>1, <3>2, <3>3, <3>4, <3>5, OneStep
  <2> QED
    BY <2>1, <2>2
<1>15. g3 \in States /\ g3[b].w = 8 /\ g3[b].v = z /\ g3[src] = h[src] /\ g3[acc] = h[acc]
  BY <1>2, <1>13, <1>14 DEF Sets
<1>16. Turns(g3, s4, acc, 8, A | z) /\ Sets(g4, g3, acc, 8, A | z)
  <2> DEFINE aa == Alu!hdr(acc)
             bb == Alu!hdr(b)
             v4 == A | z
  <2>1. aa \in Opds /\ Fits(g3, aa, 8) /\ Worth(g3, aa, 8) = A
    BY <1>2, <1>9, <1>15, HeldIs
  <2>2. bb \in Opds /\ Fits(g3, bb, 8) /\ Worth(g3, bb, 8) = z
    BY <1>2, <1>15, HeldIs
  <2>3. v4 = Computed("OrOp", A, z, 8)
    BY DEF Computed
  <2>4. s4 = << Alu!binop("OrOp", 8, aa, bb, acc) >>
    OBVIOUS
  <2> HIDE DEF aa, bb, s4, v4
  <2>5. g4 = Alu!Exec(g3, s4)
    BY DEF g4
  <2>6. Turns(g3, s4, acc, 8, v4) /\ Sets(g4, g3, acc, 8, v4)
    BY <1>1, <1>2, <1>7, <1>15, <2>1, <2>2, <2>3, <2>4, <2>5, OneStep
  <2> QED
    BY <2>6 DEF v4
<1> HIDE DEF s1, s2, s3, s4
<1>17. Alu!Exec(h, s1 \o s2) = g2 /\ s1 \o s2 \in Seq(OpSet)
  BY <1>9, <1>10, <1>12, TrailOf DEF g1, g2
<1> DEFINE r2 == s1 \o s2
<1>18. s3 \in Seq(OpSet) /\ s4 \in Seq(OpSet)
  BY <1>14, <1>16 DEF Turns
<1> HIDE DEF r2
<1>19. Alu!Exec(h, r2 \o s3) = g3 /\ r2 \o s3 \in Seq(OpSet)
  <2>1. r2 \in Seq(OpSet) /\ Alu!Exec(h, r2) = g2
    BY <1>17 DEF r2
  <2> QED
    BY <1>9, <1>18, <2>1, ExecJoin DEF g3
<1> DEFINE r3 == r2 \o s3
<1> HIDE DEF r3
<1>20. Alu!Exec(h, r3 \o s4) = g4 /\ r3 \o s4 \in Seq(OpSet)
  <2>1. r3 \in Seq(OpSet) /\ Alu!Exec(h, r3) = g3
    BY <1>19 DEF r3
  <2> QED
    BY <1>9, <1>18, <2>1, ExecJoin DEF g4
<1>21. g = g4 /\ Alu!SwapByte(i, n, 0) \in Seq(OpSet)
  BY <1>8, <1>20 DEF r3, r2
<1>22. g4 \in States /\ g4[acc].w = 8 /\ g4[acc].v = (A | z) /\ g4[src] = h[src]
  BY <1>2, <1>15, <1>16 DEF Sets
<1>23. Swapping(g, v, A | z)
  BY <1>9, <1>21, <1>22 DEF Swapping, src, acc
<1>24. SameRegs(g, h, acc)
  <2>1. ASSUME NEW m \in RegNos, H(m) # acc PROVE g4[H(m)] = h[H(m)]
    <3>1. H(m) \in Alu!Headers /\ H(m) # b
      BY HeadersAre DEF b
    <3> QED
      BY <2>1, <3>1, <1>10, <1>12, <1>14, <1>16 DEF Sets
  <2> QED
    BY <1>21, <2>1 DEF SameRegs
<1> QED
  BY <1>21, <1>23, <1>24 DEF z, acc

(* Sequences of operations put one after another.                          *)
Joins(a, n, ss) ==
  a \in [0 .. n -> Seq(OpSet)] /\ a[0] = << >> /\ \A i \in 1 .. n : a[i] = a[i - 1] \o ss[i]

(* FlattenSeq joins them.                                                  *)
LEMMA FlattenIs ==
  ASSUME NEW n \in Nat \ {0}, NEW ss \in [1 .. n -> Seq(OpSet)]
  PROVE  \E a : Joins(a, n, ss) /\ Alu!FlattenSeq(ss) = a[n]
<1> DEFINE F == [i \in 1 .. n |-> [r \in Seq(OpSet) |-> r \o ss[i]]]
           e == << >>
<1>1. e \in Seq(OpSet)
  OBVIOUS
<1>2. F \in [1 .. n -> [Seq(OpSet) -> Seq(OpSet)]]
  <2>1. ASSUME NEW i \in 1 .. n, NEW r \in Seq(OpSet) PROVE r \o ss[i] \in Seq(OpSet)
    <3>1. ss[i] \in Seq(OpSet)
      OBVIOUS
    <3> QED
      BY <3>1
  <2> QED
    BY <2>1
<1>3. PICK a : Runs(Seq(OpSet), e, F, n, a)
  <2> HIDE DEF F, e
  <2> QED
    BY <1>1, <1>2, RunsOnce
<1>4. /\ a \in [0 .. n -> Seq(OpSet)] /\ a[0] = e
      /\ \A i \in 1 .. n : a[i] = F[i][a[i - 1]]
  BY <1>3 DEF Runs
<1>5. ASSUME NEW i \in 1 .. n PROVE a[i] = a[i - 1] \o ss[i]
  <2>1. i - 1 \in 0 .. n
    OBVIOUS
  <2>2. a[i - 1] \in Seq(OpSet) /\ a[i] = F[i][a[i - 1]]
    BY <1>4, <2>1
  <2>3. \A r \in Seq(OpSet) : F[i][r] = r \o ss[i]
    OBVIOUS
  <2> HIDE DEF F
  <2> QED
    BY <2>2, <2>3
<1>6. Joins(a, n, ss)
  BY <1>4, <1>5 DEF Joins
<1>7. Len(ss) = n
  BY LenProperties
<1> DEFINE Is(f) == f = [i \in 1 .. n |-> IF i = 1 THEN ss[i] ELSE f[i - 1] \o ss[i]]
           f == CHOOSE f : Is(f)
           g == [i \in 1 .. n |-> a[i]]
<1>8. a[1] = ss[1]
  <2>1. 1 \in 1 .. n /\ ss[1] \in Seq(OpSet)
    OBVIOUS
  <2>2. a[1] = a[1 - 1] \o ss[1] /\ 1 - 1 = 0
    BY <1>5, <2>1
  <2>3. << >> \o ss[1] = ss[1]
    BY <2>1
  <2> QED
    BY <1>4, <2>2, <2>3
<1>9. Is(g)
  <2>1. ASSUME NEW i \in 1 .. n
        PROVE  g[i] = IF i = 1 THEN ss[i] ELSE g[i - 1] \o ss[i]
    <3>1. CASE i = 1
      BY <1>8, <3>1
    <3>2. CASE i # 1
      <4>1. i - 1 \in 1 .. n
        BY <3>2
      <4> QED
        BY <1>5, <3>2, <4>1
    <3> QED
      BY <3>1, <3>2
  <2> QED
    BY <2>1
<1>10. Is(f)
  <2> HIDE DEF Is, g
  <2> QED
    BY <1>9
<1>11. Alu!FlattenSeq(ss) = f[n]
  BY <1>7 DEF Alu!FlattenSeq
<1> HIDE DEF f
<1>12. \A i \in 1 .. n : f[i] = IF i = 1 THEN ss[i] ELSE f[i - 1] \o ss[i]
  BY <1>10
<1> DEFINE f0 == [i \in 0 .. n - 1 |-> f[i + 1]]
           a0 == [i \in 0 .. n - 1 |-> a[i + 1]]
<1>13. n - 1 \in Nat /\ f0[0] = a0[0]
  BY <1>8, <1>12
<1>14. \A i \in 0 .. (n - 1) - 1 : f0[i] = a0[i] => f0[i + 1] = a0[i + 1]
  <2>1. ASSUME NEW i \in 0 .. (n - 1) - 1, f0[i] = a0[i] PROVE f0[i + 1] = a0[i + 1]
    <3> DEFINE j == i + 2
    <3>1. j \in 1 .. n /\ j # 1 /\ j - 1 = i + 1 /\ i + 1 \in 0 .. n - 1 /\ i \in 0 .. n - 1
          /\ (i + 1) + 1 = j
      OBVIOUS
    <3> HIDE DEF j
    <3>2. f[j] = f[j - 1] \o ss[j] /\ a[j] = a[j - 1] \o ss[j]
      BY <1>5, <1>12, <3>1
    <3>3. f[i + 1] = a[i + 1]
      BY <2>1, <3>1
    <3> QED
      BY <3>1, <3>2, <3>3
  <2> QED
    BY <2>1
<1>15. f0[n - 1] = a0[n - 1]
  <2> HIDE DEF f0, a0
  <2> DEFINE K == n - 1
  <2>0. K \in Nat /\ f0[0] = a0[0] /\ \A i \in 0 .. K - 1 : f0[i] = a0[i] => f0[i + 1] = a0[i + 1]
    BY <1>13, <1>14
  <2> HIDE DEF K, F, e, Is, g
  <2>2. \A i \in 0 .. K : f0[i] = a0[i]
    <3>1. StayAlike(f0, a0, K)
      BY <2>0 DEF StayAlike
    <3> QED
      BY <2>0, <3>1, Alike
  <2>1. \A i \in 0 .. n - 1 : f0[i] = a0[i]
    BY <2>2 DEF K
  <2> QED
    BY <1>13, <2>1
<1>16. f[n] = a[n]
  <2>1. n - 1 \in 0 .. n - 1 /\ (n - 1) + 1 = n
    OBVIOUS
  <2> QED
    BY <1>15, <2>1
<1> QED
  BY <1>6, <1>11, <1>16

LEMMA Multiple ==
  ASSUME NEW x, NEW q \in Int, NEW d \in Nat \ {0}, IsProduct(x, q, d)
  PROVE  x % d = 0
<1>1. x = q * d + 0 /\ 0 \in 0 .. d - 1 /\ x \in Int
  BY DEF IsProduct
<1> QED
  BY <1>1, Divides

(* The bytes of a word, put together in the other order.                   *)
Turned(f, v, n) ==
  f \in [0 .. n -> Nat] /\ f[0] = 0
  /\ \A i \in 1 .. n : f[i] = f[i - 1] * exp2[Byte] + Kernel!ByteOf(v, i - 1)

(* The kernel's swap goes through such a sequence.                         *)
LEMMA SwapIs ==
  ASSUME NEW n \in 1 .. 8, NEW v \in Nat
  PROVE  \E f : Turned(f, v, n) /\ Kernel!Swap(v, n) = f[n]
<1> DEFINE c == exp2[Byte]
           F == [i \in 1 .. n |-> [x \in Nat |-> x * c + Kernel!ByteOf(v, i - 1)]]
<1>1. c \in Nat /\ c = Kernel!M(1) /\ 0 \in Nat /\ n \in Nat
  <2>1. 0 \in 0 .. n - 1
    OBVIOUS
  <2> QED
    BY <2>1, BytesAre
<1>2. ASSUME NEW i \in 1 .. n PROVE Kernel!ByteOf(v, i - 1) \in Nat
  <2>1. i - 1 \in 0 .. n - 1
    OBVIOUS
  <2>2. Kernel!ByteOf(v, i - 1) \in Word(8)
    BY <2>1, PutIs
  <2> QED
    BY <2>2, NatWord DEF Widths
<1> HIDE DEF c
<1>3. F \in [1 .. n -> [Nat -> Nat]]
  <2>1. ASSUME NEW i \in 1 .. n, NEW x \in Nat PROVE x * c + Kernel!ByteOf(v, i - 1) \in Nat
    BY <1>1, <1>2
  <2> QED
    BY <2>1
<1>4. PICK a : Runs(Nat, 0, F, n, a)
  <2> HIDE DEF F
  <2> QED
    BY <1>1, <1>3, RunsOnce
<1>5. /\ a \in [0 .. n -> Nat] /\ a[0] = 0
      /\ \A i \in 1 .. n : a[i] = F[i][a[i - 1]]
  BY <1>4 DEF Runs
<1>6. ASSUME NEW i \in 1 .. n PROVE a[i] = a[i - 1] * c + Kernel!ByteOf(v, i - 1)
  <2>1. i - 1 \in 0 .. n
    OBVIOUS
  <2>2. a[i - 1] \in Nat /\ a[i] = F[i][a[i - 1]]
    BY <1>5, <2>1
  <2>3. \A x \in Nat : F[i][x] = x * c + Kernel!ByteOf(v, i - 1)
    OBVIOUS
  <2> HIDE DEF F
  <2> QED
    BY <2>2, <2>3
<1> DEFINE Is(f) == f = [i \in 0 .. n |-> IF i = 0 THEN 0
                                          ELSE f[i - 1] * Kernel!M(1) + Kernel!ByteOf(v, i - 1)]
           f == CHOOSE f : Is(f)
<1>7. Is(a)
  BY <1>1, <1>5, <1>6
<1>8. Is(f)
  <2> HIDE DEF Is
  <2> QED
    BY <1>7
<1>9. Kernel!Swap(v, n) = f[n]
  BY DEF Kernel!Swap
<1> HIDE DEF f
<1>10. \A i \in 0 .. n : f[i] = IF i = 0 THEN 0 ELSE f[i - 1] * c + Kernel!ByteOf(v, i - 1)
  BY <1>1, <1>8
<1>11. f[0] = a[0]
  BY <1>5, <1>10
<1>12. \A i \in 0 .. n - 1 : f[i] = a[i] => f[i + 1] = a[i + 1]
  <2>1. ASSUME NEW i \in 0 .. n - 1, f[i] = a[i] PROVE f[i + 1] = a[i + 1]
    <3>1. i + 1 \in 0 .. n /\ i + 1 \in 1 .. n /\ i + 1 # 0 /\ (i + 1) - 1 = i
      OBVIOUS
    <3>2. f[i + 1] = f[(i + 1) - 1] * c + Kernel!ByteOf(v, (i + 1) - 1)
      BY <1>10, <3>1
    <3>3. a[i + 1] = a[(i + 1) - 1] * c + Kernel!ByteOf(v, (i + 1) - 1)
      BY <1>6, <3>1
    <3> QED
      BY <2>1, <3>1, <3>2, <3>3
  <2> QED
    BY <2>1
<1>13. f[n] = a[n]
  <2>1. \A i \in 0 .. n : f[i] = a[i]
    BY <1>1, <1>11, <1>12, Alike DEF StayAlike
  <2> QED
    BY <2>1
<1> QED
  BY <1>5, <1>6, <1>9, <1>13 DEF Turned, c

SwapBefore(v, i, n, F, A, G) ==
  /\ F \in Nat /\ F < Modulus(i) /\ A = F * Modulus(n - i)
  /\ G = F * exp2[Byte] + Kernel!ByteOf(v, i)
SwapAfter(v, i, n, A, G) ==
  /\ A \in Word(8) /\ (A | Put(v, i, n)) \in Word(8)
  /\ (A | Put(v, i, n)) = G * Modulus(n - (i + 1))
  /\ G \in Nat /\ G < Modulus(i + 1)

(* A byte put at its mirror place adds to what was put before.             *)
LEMMA SwapAdds ==
  ASSUME NEW n \in 1 .. 8, NEW i \in 0 .. n - 1, NEW v \in Nat, NEW F, NEW A, NEW G,
         SwapBefore(v, i, n, F, A, G)
  PROVE  SwapAfter(v, i, n, A, G)
<1> DEFINE c == exp2[Byte]
           u == Modulus(n - (i + 1))
           m == Modulus(n - i)
           b == Kernel!ByteOf(v, i)
           z == Put(v, i, n)
           p == Modulus(i)
           t == Modulus(8)
<1>1. Byte \in Nat \ {0} /\ Top = 8 * Byte /\ Top \in Nat
  BY TopIs
<1>2. ASSUME NEW j \in 0 .. 8 PROVE Modulus(j) = exp2[j * Byte] /\ j * Byte \in Nat /\ Modulus(j) \in Nat \ {0}
  <2>1. j * Byte \in Nat
    BY <1>1
  <2> QED
    BY <2>1, Exp2Is DEF Modulus, Bits
<1>3. i \in 0 .. 8 /\ n - i \in 0 .. 8 /\ n - (i + 1) \in 0 .. 8 /\ i + 1 \in 0 .. 8 /\ 8 \in 0 .. 8
  OBVIOUS
<1>4. u = exp2[Byte * (n - 1 - i)]
  <2>1. (n - (i + 1)) * Byte = Byte * (n - 1 - i)
    <3> DEFINE j == n - (i + 1)
    <3>1. n - 1 - i = j /\ j \in Nat
      BY <1>3
    <3> HIDE DEF j
    <3>2. j * Byte = Byte * j
      BY <1>1, <3>1
    <3> QED
      BY <3>1, <3>2 DEF j
  <2> QED
    BY <1>2, <1>3, <2>1
<1>5. /\ c \in Nat \ {0} /\ u \in Nat \ {0} /\ m = c * u /\ m \in Nat \ {0} /\ m <= t
      /\ Bits(n - i) \in 0 .. Top /\ m = exp2[Bits(n - i)]
  <2>1. m = exp2[Bits(n - i)]
    BY DEF Modulus
  <2> QED
    BY <1>4, <2>1, BytesAre, ZenonT(60)
<1>6. b \in 0 .. c - 1 /\ z \in 0 .. m - 1 /\ z = b * u
  BY <1>4, PutIs DEF Put
<1>7. p \in Nat \ {0} /\ t = exp2[Top] /\ t \in Nat \ {0} /\ Word(8) = 0 .. t - 1
  <2>1. t = exp2[Top]
    BY <1>1 DEF Modulus, Bits
  <2> QED
    BY <1>2, <1>3, <2>1 DEF Word
<1>8. p * m <= t
  <2> DEFINE bi == i * Byte
             bn == (n - i) * Byte
  <2>1. bi \in Nat /\ bn \in Nat /\ p = exp2[bi] /\ m = exp2[bn]
    BY <1>2, <1>3
  <2>2. bi + bn <= Top
    <3>1. bi + bn = n * Byte
      BY <1>1, <1>3
    <3>2. n * Byte <= 8 * Byte
      BY <1>1
    <3> QED
      BY <1>1, <3>1, <3>2
  <2> HIDE DEF bi, bn, p, m
  <2>3. exp2[bi + bn] = p * m
    BY <2>1, Exp2Sum
  <2>4. exp2[bi + bn] <= exp2[Top]
    <3> DEFINE bs == bi + bn
    <3>1. bs \in Nat /\ bs <= Top
      BY <2>1, <2>2
    <3> HIDE DEF bs
    <3>2. exp2[bs] <= exp2[Top]
      BY <1>1, <3>1, Exp2Grows
    <3> QED
      BY <3>2 DEF bs
  <2> QED
    BY <1>7, <2>3, <2>4
<1>9. Modulus(i + 1) = p * c
  <2>1. (i + 1) * Byte = i * Byte + Byte
    BY <1>1, <1>3
  <2>2. i * Byte \in Nat /\ Byte \in Nat
    BY <1>1, <1>2, <1>3
  <2>3. exp2[i * Byte + Byte] = exp2[i * Byte] * exp2[Byte]
    BY <2>2, Exp2Sum
  <2> QED
    BY <1>2, <1>3, <2>1, <2>3
<1>10. F < p /\ A = F * m /\ G = F * c + b /\ F \in Nat
  BY DEF SwapBefore
<1> HIDE DEF c, u, m, b, z, p, t
<1>11. A \in Nat /\ A + m <= t
  <2>1. (F + 1) * m <= p * m
    BY <1>5, <1>7, <1>10
  <2>2. (F + 1) * m = F * m + m
    BY <1>5, <1>10
  <2>3. F * m \in Nat /\ p * m \in Nat
    BY <1>5, <1>7, <1>10
  <2> DEFINE Fm == F * m
             pm == p * m
             F1 == (F + 1) * m
  <2>4. Fm \in Nat /\ pm \in Nat /\ F1 = Fm + m /\ F1 <= pm /\ pm <= t /\ A = Fm
    BY <1>8, <1>10, <2>1, <2>2, <2>3
  <2>5. t \in Nat /\ m \in Nat
    BY <1>5, <1>7
  <2> HIDE DEF Fm, pm, F1
  <2> QED
    BY <2>4, <2>5
<1>12. A % m = 0
  <2>2. IsProduct(A, F, m) /\ F \in Int /\ m \in Nat \ {0}
    BY <1>5, <1>10 DEF IsProduct
  <2> QED
    BY <2>2, Multiple
<1>13. (A | z) = A + z
  <2> DEFINE k == Bits(n - i)
  <2> HIDE DEF k
  <2>1. k \in 0 .. Top /\ A \in Nat /\ z \in Nat /\ A % exp2[k] = 0 /\ A < exp2[Top] /\ z < exp2[k]
    BY <1>5, <1>6, <1>7, <1>11, <1>12, SMTT(60) DEF k
  <2> QED
    BY <2>1, OrDisjoint
<1>14. A + z \in Word(8) /\ A \in Word(8)
  <2>1. A \in Nat /\ A + m <= t /\ z \in Nat /\ z < m /\ m \in Nat /\ t \in Nat
    BY <1>5, <1>6, <1>7, <1>11
  <2>2. A + z \in 0 .. t - 1 /\ A \in 0 .. t - 1
    BY <2>1
  <2> QED
    BY <1>7, <2>2
<1>15. A + z = G * u
  <2>1. F * (c * u) = (F * c) * u
    BY <1>5, <1>10
  <2>2. (F * c + b) * u = (F * c) * u + b * u
    BY <1>5, <1>6, <1>10
  <2> QED
    BY <1>5, <1>6, <1>10, <2>1, <2>2
<1>16. G \in Nat /\ G < p * c
  <2>1. (F + 1) * c <= p * c
    BY <1>5, <1>7, <1>10
  <2>2. (F + 1) * c = F * c + c
    BY <1>5, <1>10
  <2>3. F * c \in Nat /\ p * c \in Nat
    BY <1>5, <1>7, <1>10
  <2> QED
    BY <1>5, <1>6, <1>10, <2>1, <2>2, <2>3
<1> QED
  BY <1>9, <1>13, <1>14, <1>15, <1>16 DEF z, u, SwapAfter

(* The whole of emit_bswap.                                                *)
LEMMA SwapMeans ==
  ASSUME NEW h \in States, NEW m \in RegNos, NEW v \in Word(8), h[H(m)].w = 8, h[H(m)].v = v,
         NEW n \in 2 .. 8
  PROVE  /\ Turns(h, Alu!emit_bswap(H(m), n, H(m), 0), H(m), 8, Kernel!Swap(v, n))
         /\ Kernel!Swap(v, n) \in Word(8)
<1> DEFINE d == H(m)
           s1 == << Alu!move(T(0), d) >>
           s2 == << Alu!set_(T(1), 0) >>
           pre == s1 \o s2
           ss == [i \in 1 .. n |-> Alu!SwapByte(i - 1, n, 0)]
           post == << Alu!move(d, T(1)) >>
           h1 == Alu!Exec(h, s1)
           h2 == Alu!Exec(h1, s2)
<1>0. n \in 1 .. 8 /\ n \in Nat \ {0} /\ ~(n <= 1)
  OBVIOUS
<1>1. v \in Nat /\ d \in Alu!Headers /\ T(0) \in Alu!Headers /\ T(1) \in Alu!Headers /\ T(0) # T(1)
      /\ Scratch(T(0)) /\ Scratch(T(1)) /\ 8 \in Nat /\ 0 \in Nat /\ 0 \in Int /\ 0 \in Word(8)
  <2>1. 8 \in Widths
    BY DEF Widths
  <2> QED
    BY <2>1, NatWord, HeadersAre, ZeroIs DEF Scratch
<1>2. ASSUME NEW i \in 0 .. n - 1
      PROVE  Alu!SwapByte(i, n, 0) \in Seq(OpSet)
  <2> DEFINE c0 == [t \in Alu!Headers |-> Alu!Cell(8, 0)]
  <2>1. c0 \in States /\ c0[T(0)] = Alu!Cell(8, 0) /\ c0[T(1)] = Alu!Cell(8, 0)
    BY <1>1 DEF States, Cells, Alu!Cell
  <2>2. Swapping(c0, 0, 0)
    <3> HIDE DEF c0
    <3> QED
      BY <2>1 DEF Swapping, Alu!Cell
  <2> HIDE DEF c0
  <2> QED
    BY <1>0, <1>1, <2>2, SwapStep
<1>3. ss \in [1 .. n -> Seq(OpSet)]
  <2>1. ASSUME NEW i \in 1 .. n PROVE Alu!SwapByte(i - 1, n, 0) \in Seq(OpSet)
    <3>1. i - 1 \in 0 .. n - 1
      OBVIOUS
    <3> QED
      BY <1>2, <3>1
  <2> QED
    BY <2>1
<1>4. PICK a : Joins(a, n, ss) /\ Alu!FlattenSeq(ss) = a[n]
  <2> HIDE DEF ss
  <2> QED
    BY <1>0, <1>3, FlattenIs
<1>5. PICK f : Turned(f, v, n) /\ Kernel!Swap(v, n) = f[n]
  BY <1>0, <1>1, SwapIs
<1>6. Alu!emit_bswap(d, n, d, 0) = (pre \o a[n]) \o post
  <2> DEFINE o1 == Alu!move(T(0), d)
             o2 == Alu!set_(T(1), 0)
  <2>1. Alu!emit_bswap(d, n, d, 0) = (<< o1, o2 >> \o Alu!FlattenSeq(ss)) \o post
    <3>1. T(0) = Alu!H_TMP(0) /\ T(1) = Alu!H_TMP(0 + 1)
      BY DEF T
    <3> QED
      BY <1>0, <3>1 DEF Alu!emit_bswap
  <2>2. << o1, o2 >> = pre
    <3>1. s1 = << o1 >> /\ s2 = << o2 >>
      OBVIOUS
    <3> HIDE DEF o1, o2, s1, s2
    <3> QED
      BY <3>1, Two
  <2> HIDE DEF o1, o2, pre, ss, post
  <2> QED
    BY <1>4, <2>1, <2>2
<1> HIDE DEF h1, h2, d
<1>7. Turns(h, s1, T(0), 8, v) /\ Sets(h1, h, T(0), 8, v)
  <2>1. Turns(h, s1, T(0), 8, v) /\ h1 = [h EXCEPT ![T(0)] = Alu!Cell(8, v)]
    BY <1>1, MoveIs DEF d, h1
  <2> HIDE DEF s1
  <2> QED
    BY <1>1, <2>1, SetSets
<1>8. h1 \in States
  BY <1>7 DEF Sets
<1>9. Turns(h1, s2, T(1), 8, 0) /\ Sets(h2, h1, T(1), 8, 0)
  <2>1. Turns(h1, s2, T(1), 8, 0) /\ h2 = [h1 EXCEPT ![T(1)] = Alu!Cell(8, 0)]
    BY <1>1, <1>8, SetIs, ZeroIs DEF h2
  <2> HIDE DEF s2
  <2> QED
    BY <1>1, <1>8, <2>1, SetSets
<1> HIDE DEF s1, s2
<1>10. pre \in Seq(OpSet) /\ Alu!Exec(h, pre) = h2
  <2>1. Alu!Exec(h, s1 \o s2) = Alu!Exec(h1, s2) /\ s1 \o s2 \in Seq(OpSet)
    BY <1>7, <1>9, TrailOf DEF h1
  <2> QED
    BY <2>1 DEF h2
<1>11. Swapping(h2, v, 0) /\ SameRegs(h2, h, T(1))
  <2>1. Swapping(h2, v, 0)
    BY <1>1, <1>7, <1>9 DEF Sets, Swapping
  <2>2. SameRegs(h2, h, T(1))
    BY <1>7, <1>9, HeadersAre DEF Sets, SameRegs
  <2> QED
    BY <2>1, <2>2
<1> HIDE DEF pre, post
<1> DEFINE e(i) == Alu!Exec(h2, a[i])
           Ok(i) == /\ Swapping(e(i), v, f[i] * Modulus(n - i)) /\ f[i] < Modulus(i)
                    /\ SameRegs(e(i), h, T(1))
           G == {i \in Nat : i <= n => Ok(i)}
<1>12. /\ a \in [0 .. n -> Seq(OpSet)] /\ a[0] = << >> /\ f \in [0 .. n -> Nat] /\ f[0] = 0
  BY <1>4, <1>5 DEF Joins, Turned
<1>13. h2 \in States
  BY <1>11 DEF Swapping
<1>14. 0 \in G
  <2>1. e(0) = h2
    BY <1>12, <1>13, ExecNone
  <2>2. n - 0 \in 0 .. 8 /\ 0 \in 0 .. 8
    OBVIOUS
  <2>3. Modulus(n - 0) \in Nat \ {0} /\ Modulus(0) \in Nat \ {0}
    BY <2>2, WordIs
  <2>4. f[0] * Modulus(n - 0) = 0 /\ f[0] < Modulus(0)
    <3> DEFINE q == Modulus(n - 0)
    <3> HIDE DEF q
    <3>1. q \in Nat /\ 0 * q = 0
      BY <2>3 DEF q
    <3> QED
      BY <1>12, <2>3, <3>1 DEF q
  <2> HIDE DEF e
  <2> QED
    BY <1>11, <2>1, <2>4
<1>15. ASSUME NEW i \in Nat, i \in G PROVE i + 1 \in G
  <2> SUFFICES ASSUME i + 1 <= n PROVE Ok(i + 1)
    BY DEF G
  <2> DEFINE A == f[i] * Modulus(n - i)
             g == e(i)
  <2>1. i \in 0 .. n - 1 /\ i + 1 \in 1 .. n /\ (i + 1) - 1 = i /\ i \in 0 .. n
    OBVIOUS
  <2>2. Swapping(g, v, A) /\ f[i] < Modulus(i) /\ SameRegs(g, h, T(1)) /\ f[i] \in Nat
    BY <1>12, <1>15, <2>1
  <2>3. a[i + 1] = a[i] \o Alu!SwapByte(i, n, 0) /\ a[i] \in Seq(OpSet)
        /\ Alu!SwapByte(i, n, 0) \in Seq(OpSet)
    <3>1. a[i + 1] = a[(i + 1) - 1] \o ss[i + 1]
      BY <1>4, <2>1 DEF Joins
    <3>2. ss[i + 1] = Alu!SwapByte(i, n, 0)
      BY <2>1
    <3> HIDE DEF ss
    <3> QED
      BY <1>2, <1>12, <2>1, <3>1, <3>2
  <2>4. f[i + 1] = f[i] * exp2[Byte] + Kernel!ByteOf(v, i)
    <3>1. f[i + 1] = f[(i + 1) - 1] * exp2[Byte] + Kernel!ByteOf(v, (i + 1) - 1)
      BY <1>5, <2>1 DEF Turned
    <3> QED
      BY <2>1, <3>1
  <2>5. e(i + 1) = Alu!Exec(g, Alu!SwapByte(i, n, 0))
    BY <1>13, <2>3, ExecJoin
  <2> HIDE DEF e, g, A
  <2>6. /\ A \in Word(8) /\ (A | Put(v, i, n)) = f[i + 1] * Modulus(n - (i + 1))
        /\ f[i + 1] < Modulus(i + 1)
    <3> DEFINE F == f[i]
               F1 == f[i + 1]
    <3>1. SwapBefore(v, i, n, F, A, F1)
      BY <2>2, <2>4 DEF A, SwapBefore
    <3> HIDE DEF F, F1
    <3>2. SwapAfter(v, i, n, A, F1)
      BY <1>0, <1>1, <2>1, <3>1, SwapAdds
    <3> QED
      BY <3>2 DEF F1, SwapAfter
  <2>7. /\ Swapping(e(i + 1), v, A | Put(v, i, n)) /\ SameRegs(e(i + 1), g, T(1))
    BY <1>0, <2>1, <2>2, <2>5, <2>6, SwapStep
  <2>8. SameRegs(e(i + 1), h, T(1))
    BY <2>2, <2>7 DEF SameRegs
  <2> QED
    BY <2>6, <2>7, <2>8
<1>16. Ok(n)
  <2> HIDE DEF Ok
  <2>1. 0 \in G /\ \A i \in Nat : i \in G => i + 1 \in G
    BY <1>14, <1>15
  <2> HIDE DEF G
  <2>2. Nat \subseteq G
    BY <2>1, Induct
  <2>3. n \in G /\ n <= n
    BY <1>0, <2>2
  <2> QED
    BY <2>3 DEF G
<1>17. f[n] * Modulus(n - n) = f[n] /\ f[n] \in Word(8) /\ f[n] \in Nat
  <2>1. f[n] \in Nat /\ f[n] < Modulus(n)
    BY <1>12, <1>16
  <2>2. Modulus(n - n) = 1
    <3>1. n - n = 0 /\ 0 * Byte = 0
      BY <1>0, TopIs
    <3>2. Modulus(0) = exp2[0]
      BY <3>1 DEF Modulus, Bits
    <3> QED
      BY <3>1, <3>2, Exp2Is
  <2>3. f[n] \in Word(8)
    <3>1. n \in 0 .. 8
      OBVIOUS
    <3>2. Word(n) = 0 .. Modulus(n) - 1 /\ Modulus(n) \in Nat /\ Word(n) \subseteq Word(8)
      BY <3>1, WordIs
    <3> QED
      BY <2>1, <3>2
  <2> QED
    BY <2>1, <2>2, <2>3
<1> DEFINE g == e(n)
           R == f[n]
<1>18. Swapping(g, v, R) /\ SameRegs(g, h, T(1)) /\ R \in Word(8)
  BY <1>16, <1>17
<1>19. a[n] \in Seq(OpSet) /\ g = Alu!Exec(h2, a[n])
  BY <1>0, <1>12
<1> HIDE DEF g
<1>20. pre \o a[n] \in Seq(OpSet) /\ Alu!Exec(h, pre \o a[n]) = g
  BY <1>10, <1>19, ExecJoin
<1>21. Turns(g, post, d, 8, R)
  <2>1. g \in States /\ g[T(1)].w = 8 /\ g[T(1)].v = R
    BY <1>18 DEF Swapping
  <2> HIDE DEF R
  <2> QED
    BY <1>1, <1>18, <2>1, MoveIs DEF post
<1> DEFINE r == pre \o a[n]
<1> HIDE DEF r
<1>22. r \o post \in Seq(OpSet) /\ Alu!Exec(h, r \o post) = Alu!Exec(g, post)
  <2>1. r \in Seq(OpSet) /\ post \in Seq(OpSet) /\ Alu!Exec(h, r) = g
    BY <1>20, <1>21 DEF r, Turns
  <2> QED
    BY <2>1, ExecJoin
<1>23. Leaves(Alu!Exec(g, post), h, d, 8, R)
  BY <1>1, <1>18, <1>21 DEF Turns, Leaves, SameRegs, Scratch
<1>24. Turns(h, r \o post, d, 8, R)
  BY <1>22, <1>23 DEF Turns
<1> QED
  BY <1>5, <1>6, <1>18, <1>24 DEF r, d

(* A byte swap truncates, and swaps for the other byte order.              *)
EndValue(in, h) ==
  LET n == in.imm \div Byte
      v == h[H(in.dst)].v % Modulus(n)
  IN  IF in.cls = "ALU64" \/ ~in.isImm THEN Kernel!Swap(v, n) ELSE v

(* END.                                                                    *)
LEMMA EndMeans ==
  ASSUME NEW in, Good(in), in.imm \in {Bits(2), Bits(4), Bits(8)}, NEW h, RegsHold(h)
  PROVE  Turns(h, Alu!End(in, H(in.dst)), H(in.dst), 8, EndValue(in, h)) /\ EndValue(in, h) \in Word(8)
<1> DEFINE d == H(in.dst)
           n == in.imm \div Byte
           x == h[d].v
           v == x % Modulus(n)
           s1 == IF in.imm = Bits(8) THEN << >>
                 ELSE << Alu!binop("AndOp", 8, Alu!hdr(d), Alu!konst(exp2[in.imm] - 1), d) >>
           s2 == IF in.cls = "ALU64" \/ ~in.isImm THEN Alu!emit_bswap(d, n, d, 0) ELSE << >>
           g == Alu!Exec(h, s1)
<1>1. n \in {2, 4, 8} /\ in.imm = Bits(n) /\ (in.imm = Bits(8) <=> n = 8)
  <2>1. ASSUME NEW j \in {2, 4, 8}, in.imm = Bits(j) PROVE n = j
    <3>1. in.imm = j * Byte + 0 /\ Byte \in Nat \ {0} /\ 0 \in 0 .. Byte - 1 /\ in.imm \in Int
      BY <2>1, WordsAssumption DEF Bits
    <3>2. j \in Int
      OBVIOUS
    <3> QED
      BY <3>1, <3>2, Divides
  <2>2. PICK j \in {2, 4, 8} : in.imm = Bits(j)
    OBVIOUS
  <2>3. n = j
    BY <2>1, <2>2
  <2>4. in.imm = Bits(8) => n = 8
    BY <2>1
  <2> HIDE DEF n
  <2> QED
    BY <2>2, <2>3, <2>4
<1>2. n \in 0 .. 8 /\ 8 \in 0 .. 8 /\ n \in 2 .. 8
  BY <1>1
<1> HIDE DEF n
<1>3. in.dst \in RegNos /\ d \in Alu!Headers /\ h \in States /\ h[d].w = 8 /\ x \in Word(8)
  BY OperandsAre DEF Good, RegsHold
<1>4. x \in Nat /\ 8 \in Widths /\ "AndOp" \in Fs
  <2>1. 8 \in Widths
    BY DEF Widths
  <2> QED
    BY <1>3, <2>1, NatWord DEF Fs
<1>5. /\ Modulus(n) = exp2[in.imm] /\ in.imm \in 0 .. Top /\ Modulus(n) \in Nat \ {0}
      /\ v \in Word(8) /\ exp2[in.imm] - 1 \in Word(n) /\ Word(n) \subseteq Word(8) /\ Modulus(8) \in Nat
  <2>1. Bits(n) \in 0 .. Top /\ Modulus(n) = exp2[Bits(n)] /\ Modulus(n) \in Nat \ {0}
        /\ Word(n) = 0 .. Modulus(n) - 1 /\ Word(n) \subseteq Word(8)
        /\ \A z \in Int : Trunc(z, n) \in Word(n)
    BY <1>2, WordIs
  <2>2. v = Trunc(x, n) /\ x \in Int
    BY <1>4 DEF Trunc
  <2>3. v \in Word(n)
    BY <2>1, <2>2
  <2>4. Modulus(n) - 1 \in Word(n)
    <3>1. Modulus(n) - 1 \in 0 .. Modulus(n) - 1
      <4> DEFINE m == Modulus(n)
      <4>1. m \in Nat \ {0}
        BY <2>1
      <4> HIDE DEF m
      <4>2. m - 1 \in 0 .. m - 1
        BY <4>1
      <4> QED
        BY <4>2 DEF m
    <3> QED
      BY <2>1, <3>1
  <2>5. Modulus(8) \in Nat
    BY <1>2, WordIs
  <2> HIDE DEF v
  <2> QED
    BY <1>1, <2>1, <2>3, <2>4, <2>5
<1>6. Alu!End(in, d) = s1 \o s2
  BY SizesSame, Exp2Same DEF Alu!End, Alu!is64, n
<1> HIDE DEF x, v, d, s2, g
<1>7. Turns(h, s1, d, 8, v)
  <2>1. CASE n = 8
    <3>1. s1 = << >>
      BY <1>1, <2>1
    <3>2. v = x
      <4>1. Trunc(x, 8) = x
        BY <1>2, <1>3, WordIs
      <4> QED
        BY <2>1, <4>1 DEF Trunc, v
    <3>3. Alu!Exec(h, << >>) = h /\ << >> \in Seq(OpSet)
      BY <1>3, ExecNone
    <3>4. h[d] = Alu!Cell(8, v)
      <4>1. h[d] \in Cells
        BY <1>3 DEF States
      <4> QED
        BY <1>3, <3>2, <4>1 DEF Cells, Alu!Cell, x
    <3> HIDE DEF s1
    <3> QED
      BY <1>3, <3>1, <3>3, <3>4 DEF Turns, Leaves, SameRegs
  <2>2. CASE n # 8
    <3> DEFINE k == exp2[in.imm] - 1
               a == Alu!hdr(d)
               b == Alu!konst(k)
    <3>1. s1 = << Alu!binop("AndOp", 8, a, b, d) >>
      BY <1>1, <2>2
    <3>2. k \in Nat /\ Trunc(k, 8) = k
      <4>1. k \in Word(8)
        BY <1>5
      <4> HIDE DEF k
      <4> QED
        BY <1>2, <1>4, <4>1, WordIs, NatWord
    <3>3. (x & k) = v
      BY <1>4, <1>5, AndMask DEF v
    <3> HIDE DEF k
    <3>4. a \in Opds /\ Fits(h, a, 8) /\ Worth(h, a, 8) = x
      BY <1>3, HeldIs DEF x
    <3>5. b \in Opds /\ Fits(h, b, 8) /\ Worth(h, b, 8) = k
      BY <3>2, ConstantIs
    <3>6. v = Computed("AndOp", x, k, 8)
      BY <3>3 DEF Computed
    <3> HIDE DEF a, b, s1
    <3> QED
      BY <1>3, <1>4, <3>1, <3>2, <3>4, <3>5, <3>6, OneStep
  <2> QED
    BY <2>1, <2>2
<1> HIDE DEF s1
<1>8. g \in States /\ g[d].w = 8 /\ g[d].v = v
  <2>1. g \in States /\ g[d] = Alu!Cell(8, v)
    BY <1>7 DEF Turns, Leaves, g
  <2> QED
    BY <2>1 DEF Alu!Cell
<1>9. CASE in.cls = "ALU64" \/ ~in.isImm
  <2> DEFINE z == Kernel!Swap(v, n)
  <2>1. EndValue(in, h) = z
    BY <1>9 DEF EndValue, v, x, d, n
  <2>2. s2 = Alu!emit_bswap(d, n, d, 0)
    BY <1>9 DEF s2
  <2>3. Turns(g, s2, d, 8, z) /\ z \in Word(8)
    BY <1>2, <1>3, <1>5, <1>8, <2>2, SwapMeans DEF d
  <2> HIDE DEF z
  <2>4. Turns(h, s1 \o s2, d, 8, z)
    <3>1. g = Alu!Exec(h, s1)
      BY DEF g
    <3> QED
      BY <1>3, <1>7, <2>3, <3>1, TurnsThen, Zenon
  <2> QED
    BY <1>6, <2>1, <2>3, <2>4 DEF d
<1>10. CASE ~(in.cls = "ALU64" \/ ~in.isImm)
  <2>1. EndValue(in, h) = v
    BY <1>10 DEF EndValue, v, x, d, n
  <2>2. s1 \o s2 = s1
    <3>1. s1 \in Seq(OpSet) /\ s2 = << >>
      BY <1>7, <1>10 DEF Turns, s2
    <3> QED
      BY <3>1
  <2> QED
    BY <1>5, <1>6, <1>7, <2>1, <2>2 DEF d
<1> QED
  BY <1>9, <1>10

-----------------------------------------------------------------------------
(* ---------------- what an instruction leaves, and where ---------------- *)
Meaning(in, h) ==
  IF in.op = "END" THEN EndValue(in, h) ELSE Kernel!Alu(in.op, X(in, h), Y(in, h), Wd(in))

(* The instructions that are not refused.                                  *)
LEMMA AccessIs ==
  ASSUME NEW in \in Alu!Insns, ~Alu!Refused(in)
  PROVE  /\ Good(in) /\ in.op \in DOMAIN Alu!Simple \cup {"LSH", "RSH", "ARSH", "MOV", "NEG", "END"}
         /\ in.op \in {"LSH", "RSH", "ARSH"} => in.isImm
         /\ in.op = "END" => in.imm \in {Bits(2), Bits(4), Bits(8)}
<1>1. in.dst \in RegNos /\ in.src \in RegNos
  BY DEF Alu!Refused, Alu!Regs, RegNos
<1>2. in.cls \in {"ALU64", "ALU"} /\ in.isImm \in BOOLEAN /\ in.imm \in AluImms \cup {0} \cup Alu!EndBits
  BY DEF Alu!Insns, Alu!Classes
<1>3. Alu!EndBits \subseteq Int
  <2>1. Alu!EndBits = {Bits(1), Bits(2), Bits(4), Bits(8)}
    BY SizesSame DEF Alu!EndBits
  <2> QED
    BY <2>1, WordsAssumption DEF Bits
<1>4. in.imm \in Int
  <2>1. AluImms \subseteq Int
    BY ValuesAssumption
  <2> DEFINE E == Alu!EndBits
             k == in.imm
  <2>2. k \in AluImms \cup {0} \cup E /\ E \subseteq Int /\ 0 \in Int
    BY <1>2, <1>3
  <2> HIDE DEF E, k
  <2>3. k \in Int
    BY <2>1, <2>2
  <2> QED
    BY <2>3 DEF k
<1>5. /\ in.op \in DOMAIN Alu!Simple \cup {"LSH", "RSH", "ARSH", "MOV", "NEG", "END"}
      /\ in.op \in {"LSH", "RSH", "ARSH"} => in.isImm
  BY DEF Alu!Refused, Alu!Shifts
<1>6. in.op = "END" => in.imm \in {Bits(2), Bits(4), Bits(8)}
  BY SizesSame DEF Alu!Refused
<1> QED
  BY <1>1, <1>2, <1>4, <1>5, <1>6 DEF Good

(* The operations of every such instruction leave its meaning in its       *)
(* destination.                                                            *)
LEMMA AluMeans ==
  ASSUME NEW in \in Alu!Insns, ~Alu!Refused(in), NEW h, RegsHold(h)
  PROVE  Turns(h, Alu!Emitted(in), H(in.dst), 8, Meaning(in, h)) /\ Meaning(in, h) \in Word(8)
<1> DEFINE d == H(in.dst)
           s == H(in.src)
           v == Meaning(in, h)
<1>1. /\ Good(in) /\ in.op \in DOMAIN Alu!Simple \cup {"LSH", "RSH", "ARSH", "MOV", "NEG", "END"}
      /\ in.op \in {"LSH", "RSH", "ARSH"} => in.isImm
      /\ in.op = "END" => in.imm \in {Bits(2), Bits(4), Bits(8)}
  BY AccessIs
<1>2. d = Alu!H_REG(in.dst) /\ s = Alu!H_REG(in.src)
  BY DEF H
<1>3. in.op # "END" => v = Kernel!Alu(in.op, X(in, h), Y(in, h), Wd(in))
  BY DEF Meaning
<1> HIDE DEF d, s, v
<1>4. CASE in.op = "MOV"
  <2>1. Alu!Emitted(in) = Alu!Mov(in, d, s)
    BY <1>2, <1>4, SimpleIs DEF Alu!Emitted, Alu!Shifts
  <2>2. v = Y(in, h)
    BY <1>3, <1>4 DEF Kernel!Alu
  <2> QED
    BY <1>1, <2>1, <2>2, MovMeans, OperandsAre DEF d, s, v
<1>5. CASE in.op = "NEG"
  <2>1. Alu!Emitted(in) = Alu!Neg(in, d)
    BY <1>2, <1>5, SimpleIs DEF Alu!Emitted, Alu!Shifts
  <2> QED
    BY <1>1, <1>3, <1>5, <2>1, NegMeans DEF d, v
<1>6. CASE in.op \in {"LSH", "RSH"}
  <2>1. Alu!Emitted(in) = Alu!Shift(in, d)
    BY <1>2, <1>6, SimpleIs DEF Alu!Emitted, Alu!Shifts
  <2> QED
    BY <1>1, <1>3, <1>6, <2>1, ShiftMeans DEF d, v
<1>7. CASE in.op = "ARSH"
  <2>1. Alu!Emitted(in) = Alu!Shift(in, d)
    BY <1>2, <1>7, SimpleIs DEF Alu!Emitted, Alu!Shifts
  <2> QED
    BY <1>1, <1>3, <1>7, <2>1, ArshMeans DEF d, v
<1>8. CASE in.op = "END"
  <2>1. Alu!Emitted(in) = Alu!End(in, d)
    BY <1>2, <1>8, SimpleIs DEF Alu!Emitted, Alu!Shifts
  <2>2. v = EndValue(in, h)
    BY <1>8 DEF Meaning, v
  <2> QED
    BY <1>1, <1>8, <2>1, <2>2, EndMeans DEF d, v
<1>9. CASE in.op \in DOMAIN Alu!Simple
  <2>1. in.op \in {"ADD", "SUB", "AND", "OR", "XOR", "MUL", "DIV", "MOD"}
    BY <1>9, SimpleIs
  <2>2. Alu!Emitted(in) = Alu!Binop(in, d, s)
    BY <1>2, <1>9, <2>1 DEF Alu!Emitted, Alu!Shifts
  <2>3. v = Kernel!Alu(in.op, X(in, h), Y(in, h), Wd(in))
    BY <1>3, <2>1
  <2> QED
    BY <1>1, <1>9, <2>2, <2>3, BinopMeans DEF d, s, v
<1> QED
  BY <1>1, <1>4, <1>5, <1>6, <1>7, <1>8, <1>9

-----------------------------------------------------------------------------
(* -------------------------- conditional jumps -------------------------- *)
(* Conditions and AluOps execute the same operations.                      *)
LEMMA ExecSame == \A h, s : Jump!Exec(h, s) = Alu!Exec(h, s)
  BY DEF Jump!Exec, Alu!Exec, Jump!Effect, Alu!Effect, Jump!Cast, Alu!Cast, Jump!Binary, Alu!Binary,
     Jump!Operand, Alu!Operand, Jump!Compute, Alu!Compute, Jump!Trunc, Alu!Trunc,
     Jump!Modulus, Alu!Modulus, Jump!Bits, Alu!Bits, Jump!exp2, Alu!exp2, Jump!Cell, Alu!Cell,
     Jump!ErrorVal, Alu!ErrorVal, Jump!&, Alu!&, Jump!|, Alu!|, Jump!^^, Alu!^^,
     Jump!FromBits, Alu!FromBits, Jump!bit, Alu!bit, Jump!Top, Alu!Top, Jump!W64, Alu!W64

LEMMA JumpOpsSame ==
  /\ \A n : Jump!H_REG(n) = H(n) /\ Jump!H_TMP(n) = T(n)
  /\ \A w, v : Jump!Cell(w, v) = Alu!Cell(w, v)
  /\ Jump!ErrorVal = Alu!ErrorVal
  /\ \A f, w, a, b, t : Jump!binop(f, w, a, b, t) = Alu!binop(f, w, a, b, t)
  /\ \A f, w, a, t : Jump!cast(f, w, a, t) = Alu!cast(f, w, a, t)
  /\ \A t, h : Jump!move(t, h) = Alu!move(t, h)
  /\ \A h : Jump!hdr(h) = Alu!hdr(h)
  /\ \A k : Jump!konst(k) = Alu!konst(k)
  BY SizesSame DEF H, T, Jump!H_REG, Alu!H_REG, Jump!H_TMP, Alu!H_TMP, Jump!Cell, Alu!Cell,
     Jump!ErrorVal, Alu!ErrorVal, Jump!binop, Alu!binop, Jump!cast, Alu!cast, Jump!move, Alu!move,
     Jump!hdr, Alu!hdr, Jump!konst, Alu!konst

(* A jump that is not refused, its width and its operands.                 *)
JGood(in) ==
  /\ in.cls \in {"JMP", "JMP32"} /\ in.op \in Jump!Ops /\ in.isImm \in BOOLEAN
  /\ in.dst \in RegNos /\ in.src \in RegNos /\ in.imm \in Int
JW(in) == IF in.cls = "JMP32" THEN 4 ELSE 8
JX(in, h) == Trunc(h[H(in.dst)].v, JW(in))
JY(in, h) == Trunc(IF in.isImm THEN in.imm ELSE h[H(in.src)].v, JW(in))

LEMMA JumpIs ==
  ASSUME NEW in
  PROVE  /\ JW(in) \in Widths /\ JW(in) \in 0 .. 8 /\ Jump!width(in) = JW(in)
         /\ (Jump!is32(in) <=> in.cls = "JMP32") /\ (JW(in) = 8 <=> in.cls # "JMP32")
         /\ Jump!imm(in) = Trunc(in.imm, JW(in))
  BY SizesSame DEF JW, Widths, Jump!width, Jump!is32, Jump!imm

(* Flipping the sign turns the signed order into the unsigned one.         *)
LEMMA BiasIs ==
  ASSUME NEW w \in Widths, NEW x \in Word(w), NEW N, N = exp2[Bits(w) - 1]
  PROVE  /\ (x ^^ N) = Kernel!S(x, w) + N /\ (x ^^ N) \in Word(w) /\ N \in Word(w)
         /\ Kernel!S(x, w) \in Int /\ N \in Nat /\ Trunc(N, w) = N
<1> DEFINE b == Bits(w)
           m == exp2[b]
           k == b - 1
<1>1. b \in Nat \ {0} /\ b <= Top /\ Modulus(w) = m /\ k \in Nat /\ Top \in Nat /\ k + 1 = b /\ k \in 0 .. Top - 1
      /\ k \in 0 .. b - 1
  <2>1. w \in 0 .. 8 /\ w # 0
    BY NatWord DEF Widths
  <2>2. b \in 0 .. Top /\ Modulus(w) = m
    BY <2>1, WordIs
  <2>3. b # 0 /\ Top \in Nat
    BY <2>1, TopIs DEF Bits
  <2> HIDE DEF b, m
  <2> QED
    BY <2>2, <2>3
<1> HIDE DEF b
<1>2. N \in Nat \ {0} /\ m = 2 * N
  <2>1. N = exp2[k]
    BY DEF b
  <2> HIDE DEF k
  <2>2. exp2[k] \in Nat \ {0} /\ exp2[k + 1] = 2 * exp2[k]
    BY <1>1, Exp2Is
  <2> QED
    BY <1>1, <2>1, <2>2
<1>3. Word(w) = 0 .. m - 1 /\ x \in Nat /\ x < m
  <2>1. Word(w) = 0 .. m - 1
    BY <1>1 DEF Word
  <2> HIDE DEF m
  <2> QED
    BY <1>2, <2>1
<1>4. (x ^^ N) = IF x < N THEN x + N ELSE x - N
  <2>1. N = exp2[k] /\ x < exp2[k + 1]
    BY <1>1, <1>3 DEF b
  <2> HIDE DEF k
  <2> QED
    BY <1>1, <1>3, <2>1, XorTop
<1>5. Kernel!S(x, w) = IF x >= m \div 2 THEN x - m ELSE x
  BY <1>1, SizesSame DEF Kernel!S
<1> HIDE DEF m
<1>6. m \div 2 = N
  <2>1. m = N * 2 + 0 /\ 0 \in 0 .. 2 - 1 /\ 2 \in Nat \ {0} /\ m \in Int /\ N \in Int
    BY <1>2
  <2> QED
    BY <2>1, Divides
<1>7. (x ^^ N) = Kernel!S(x, w) + N /\ Kernel!S(x, w) \in Int /\ (x ^^ N) \in 0 .. m - 1 /\ N \in 0 .. m - 1
  BY <1>2, <1>3, <1>4, <1>5, <1>6, SMTT(60)
<1>8. Trunc(N, w) = N
  <2>1. w \in 0 .. 8 /\ N \in Word(w)
    BY <1>3, <1>7, NatWord
  <2> QED
    BY <2>1, WordIs
<1> QED
  BY <1>2, <1>3, <1>7, <1>8

(* What is compared for an operand.                                        *)
Biased(in, x) ==
  IF Jump!is_signed(in) THEN x ^^ exp2[Bits(JW(in)) - 1] ELSE x

LEMMA BiasedIn ==
  ASSUME NEW in, NEW x \in Word(JW(in))
  PROVE  Biased(in, x) \in Word(JW(in)) /\ Biased(in, x) \in Nat
<1>1. JW(in) \in Widths
  BY JumpIs
<1>2. Biased(in, x) \in Word(JW(in))
  BY <1>1, BiasIs DEF Biased
<1> QED
  BY <1>1, <1>2, NatWord

(* A side of the comparison in its scratch header.                         *)
SideOk(in, h, g, s, t, v) ==
  /\ s \in Seq(OpSet) /\ g \in States /\ g[t].w = JW(in) /\ g[t].v = v
  /\ \A u \in Alu!Headers : u # t => g[u] = h[u]

LEMMA SideIs ==
  ASSUME NEW in, JGood(in), NEW h \in States, NEW a \in Alu!Headers, h[a].w = 8, h[a].v \in Word(8),
         NEW t \in Alu!Headers, NEW s, s = Jump!Side(in, a, t), NEW g, g = Alu!Exec(h, s)
  PROVE  SideOk(in, h, g, s, t, Biased(in, Trunc(h[a].v, JW(in))))
<1> DEFINE w == JW(in)
           x == Trunc(h[a].v, w)
           N == exp2[Bits(w) - 1]
           z == Biased(in, x)
           s1 == << IF Jump!is32(in) THEN Alu!cast(8, 4, Alu!hdr(a), t) ELSE Alu!move(t, a) >>
           s2 == IF Jump!is_signed(in)
                 THEN << Alu!binop("XorOp", w, Alu!hdr(t), Alu!konst(N), t) >> ELSE << >>
           g1 == Alu!Exec(h, s1)
<1>1. w \in Widths /\ w \in 0 .. 8 /\ Jump!width(in) = w /\ (Jump!is32(in) <=> in.cls = "JMP32")
      /\ (w = 8 <=> in.cls # "JMP32") /\ 8 \in Widths /\ 4 \in Widths /\ "XorOp" \in Fs
      /\ (in.cls = "JMP32" => w = 4)
  <2>1. 8 \in Widths /\ 4 \in Widths /\ "XorOp" \in Fs /\ (in.cls = "JMP32" => w = 4)
    BY DEF Widths, Fs, JW
  <2> QED
    BY <2>1, JumpIs
<1>2. s = s1 \o s2
  <2>1. Jump!bias(w) = N
    BY SizesSame, Exp2Same DEF Jump!bias
  <2> HIDE DEF w, N
  <2> QED
    BY <1>1, <2>1, SizesSame, JumpOpsSame DEF Jump!Side
<1>3. x \in Word(w) /\ x \in Nat /\ h[a].v \in Int
  <2>1. h[a].v \in Int
    BY <1>1, NatWord
  <2>2. x \in Word(w)
    BY <1>1, <2>1, WordIs
  <2> QED
    BY <1>1, <2>1, <2>2, NatWord
<1>4. N \in Nat /\ Trunc(N, w) = N
  BY <1>1, <1>3, BiasIs
<1> HIDE DEF w, x, N, z, g1
<1>5. Turns(h, s1, t, w, x) /\ Sets(g1, h, t, w, x)
  <2>0. w \in Nat
    BY <1>1 DEF Widths
  <2>1. CASE Jump!is32(in)
    <3>1. s1 = << Alu!cast(8, 4, Alu!hdr(a), t) >> /\ w = 4 /\ x = Trunc(h[a].v, 4)
      BY <1>1, <2>1 DEF x
    <3> HIDE DEF s1
    <3>2. Turns(h, s1, t, w, x) /\ g1 = [h EXCEPT ![t] = Alu!Cell(w, x)]
      BY <1>1, <3>1, OneCast DEF g1
    <3> QED
      BY <1>3, <2>0, <3>2, SetSets
  <2>2. CASE ~Jump!is32(in)
    <3>1. s1 = << Alu!move(t, a) >> /\ w = 8 /\ x = h[a].v
      <4>1. w = 8 /\ Trunc(h[a].v, 8) = h[a].v
        BY <1>1, <2>2, WordIs
      <4> QED
        BY <2>2, <4>1 DEF x
    <3> HIDE DEF s1
    <3>2. Turns(h, s1, t, w, x) /\ g1 = [h EXCEPT ![t] = Alu!Cell(w, x)]
      BY <1>1, <3>1, MoveIs DEF g1
    <3> QED
      BY <1>3, <2>0, <3>2, SetSets
  <2> QED
    BY <2>1, <2>2
<1>6. g1 \in States /\ g1[t].w = w /\ g1[t].v = x /\ s1 \in Seq(OpSet)
      /\ \A u \in Alu!Headers : u # t => g1[u] = h[u]
  BY <1>5 DEF Sets, Turns
<1> HIDE DEF s1
<1>7. CASE ~Jump!is_signed(in)
  <2>1. s2 = << >> /\ z = x
    BY <1>7 DEF z, Biased
  <2>2. s = s1
    BY <1>2, <1>6, <2>1
  <2> QED
    BY <1>6, <2>1, <2>2 DEF SideOk, g1, w, z, x
<1>8. CASE Jump!is_signed(in)
  <2> DEFINE aa == Alu!hdr(t)
             bb == Alu!konst(N)
             g2 == Alu!Exec(g1, s2)
  <2>1. aa \in Opds /\ Fits(g1, aa, w) /\ Worth(g1, aa, w) = x
    BY <1>6, HeldIs
  <2>2. bb \in Opds /\ Fits(g1, bb, w) /\ Worth(g1, bb, w) = N
    BY <1>4, ConstantIs
  <2>3. z = Computed("XorOp", x, N, w)
    BY <1>8 DEF Computed, z, Biased, N, w
  <2>4. s2 = << Alu!binop("XorOp", w, aa, bb, t) >>
    BY <1>8
  <2> HIDE DEF aa, bb, s2
  <2>5. g2 = Alu!Exec(g1, s2)
    OBVIOUS
  <2> HIDE DEF g2
  <2>6. Turns(g1, s2, t, w, z) /\ Sets(g2, g1, t, w, z)
    BY <1>1, <1>3, <1>4, <1>6, <2>1, <2>2, <2>3, <2>4, <2>5, OneStep
  <2>7. s1 \o s2 \in Seq(OpSet) /\ Alu!Exec(h, s1 \o s2) = g2
    <3>1. s2 \in Seq(OpSet)
      BY <2>6 DEF Turns
    <3> QED
      BY <1>6, <2>5, <3>1, ExecJoin DEF g1
  <2>8. g = g2 /\ s \in Seq(OpSet)
    BY <1>2, <2>7
  <2> QED
    BY <1>6, <2>6, <2>8 DEF Sets, SideOk, w, z, x
<1> QED
  BY <1>7, <1>8

(* What an entry asks of two values of one width.                          *)
Compares(cmp, a, b) ==
  CASE cmp = "CmpEq" -> a = b [] cmp = "CmpGt" -> a > b [] cmp = "CmpLt" -> a < b
Cmps == {"CmpEq", "CmpGt", "CmpLt"}

(* What the right-hand side of an entry is worth.                          *)
Against(g, rhs, w, b) ==
  \/ rhs = Jump!match_const(b, w)
  \/ \E r \in Alu!Headers : rhs = Jump!match_header(r) /\ g[r].w = w /\ g[r].v = b

LEMMA HoldsIs ==
  ASSUME NEW g \in States, NEW l \in Alu!Headers, NEW w \in Widths, NEW a, NEW b,
         g[l].w = w, g[l].v = a, NEW rhs, Against(g, rhs, w, b), NEW cmp \in Cmps
  PROVE  Jump!Holds(g, Jump!cmp_entry(l, cmp, rhs)) <=> Compares(cmp, a, b)
<1> DEFINE e == Jump!cmp_entry(l, cmp, rhs)
<1>1. e.lhs = l /\ e.cmp = cmp /\ e.rhs = rhs
  BY DEF Jump!cmp_entry
<1>2. w # 0
  BY DEF Widths
<1>3. \A c : c.w # 0 => c # Jump!ErrorVal
  BY DEF Jump!ErrorVal, Jump!Cell
<1> DEFINE y == IF rhs.is = "const" THEN rhs.v ELSE g[rhs.v]
<1>4. y.w = w /\ y.v = b
  <2>1. CASE rhs = Jump!match_const(b, w)
    <3>1. rhs.is = "const" /\ rhs.v = Jump!Cell(w, b)
      BY <2>1 DEF Jump!match_const
    <3>2. Jump!Cell(w, b).w = w /\ Jump!Cell(w, b).v = b
      BY DEF Jump!Cell
    <3> QED
      BY <3>1, <3>2
  <2>2. ASSUME NEW r \in Alu!Headers, rhs = Jump!match_header(r), g[r].w = w, g[r].v = b
        PROVE  y.w = w /\ y.v = b
    <3>1. rhs.is = "hdr" /\ rhs.v = r
      BY <2>2 DEF Jump!match_header
    <3> QED
      BY <2>2, <3>1
  <2> QED
    BY <2>1, <2>2 DEF Against
<1> HIDE DEF e, y
<1>5. g[l] # Jump!ErrorVal /\ y # Jump!ErrorVal /\ g[l].w = y.w
  BY <1>2, <1>3, <1>4
<1>6. Jump!Holds(g, e) <=> CASE cmp = "CmpEq" -> g[l].v = y.v
                             [] cmp = "CmpGt" -> g[l].v > y.v
                             [] cmp = "CmpLt" -> g[l].v < y.v
  BY <1>1, <1>5 DEF Jump!Holds, y
<1>7. CASE cmp = "CmpEq"
  BY <1>4, <1>6, <1>7 DEF Compares, e
<1>8. CASE cmp = "CmpGt"
  BY <1>4, <1>6, <1>8 DEF Compares, e
<1>9. CASE cmp = "CmpLt"
  BY <1>4, <1>6, <1>9 DEF Compares, e
<1> QED
  BY <1>7, <1>8, <1>9 DEF Cmps

(* The entry and the swap of the arms tell when the jump is taken.         *)
LEMMA DecidesRight ==
  ASSUME NEW in, JGood(in), in.op # "JSET", NEW x \in Word(JW(in)), NEW y \in Word(JW(in))
  PROVE  /\ Jump!table[in.op] \in Cmps
         /\ (Compares(Jump!table[in.op], Biased(in, x), Biased(in, y)) # (in.op \in Jump!Swaps))
              <=> Kernel!Cmp(in.op, x, y, JW(in))
<1> DEFINE w == JW(in)
           N == exp2[Bits(w) - 1]
           a == Biased(in, x)
           b == Biased(in, y)
           sx == Kernel!S(x, w)
           sy == Kernel!S(y, w)
<1>1. w \in Widths
  BY JumpIs
<1>2. x \in Nat /\ y \in Nat
  BY <1>1, NatWord
<1>3. sx \in Int /\ sy \in Int /\ N \in Nat
      /\ (Jump!is_signed(in) => a = sx + N /\ b = sy + N)
      /\ (~Jump!is_signed(in) => a = x /\ b = y)
  <2>1. (x ^^ N) = sx + N /\ sx \in Int /\ N \in Nat
    BY <1>1, BiasIs
  <2>2. (y ^^ N) = sy + N /\ sy \in Int
    BY <1>1, BiasIs
  <2> HIDE DEF sx, sy, N
  <2> QED
    BY <2>1, <2>2 DEF Biased, N
<1> HIDE DEF w, N, a, b, sx, sy
<1>4. in.op \in {"JEQ", "JNE", "JGT", "JGE", "JLT", "JLE", "JSGT", "JSGE", "JSLT", "JSLE"}
  BY DEF JGood, Jump!Ops, Jump!SignedOps
<1>5. Kernel!Cmp(in.op, x, y, w) <=>
        CASE in.op = "JEQ"  -> x = y   [] in.op = "JNE"  -> x # y
          [] in.op = "JGT"  -> x > y   [] in.op = "JGE"  -> x >= y
          [] in.op = "JLT"  -> x < y   [] in.op = "JLE"  -> x <= y
          [] in.op = "JSGT" -> sx > sy [] in.op = "JSGE" -> sx >= sy
          [] in.op = "JSLT" -> sx < sy [] in.op = "JSLE" -> sx <= sy
  <2>1. CASE in.op = "JEQ"
    BY <2>1 DEF Kernel!Cmp
  <2>2. CASE in.op = "JNE"
    BY <2>2 DEF Kernel!Cmp
  <2>3. CASE in.op = "JGT"
    BY <2>3 DEF Kernel!Cmp
  <2>4. CASE in.op = "JGE"
    BY <2>4 DEF Kernel!Cmp
  <2>5. CASE in.op = "JLT"
    BY <2>5 DEF Kernel!Cmp
  <2>6. CASE in.op = "JLE"
    BY <2>6 DEF Kernel!Cmp
  <2>7. CASE in.op = "JSGT"
    BY <2>7 DEF Kernel!Cmp, sx, sy
  <2>8. CASE in.op = "JSGE"
    BY <2>8 DEF Kernel!Cmp, sx, sy
  <2>9. CASE in.op = "JSLT"
    BY <2>9 DEF Kernel!Cmp, sx, sy
  <2>10. CASE in.op = "JSLE"
    BY <2>10 DEF Kernel!Cmp, sx, sy
  <2> QED
    BY <1>4, <2>1, <2>2, <2>3, <2>4, <2>5, <2>6, <2>7, <2>8, <2>9, <2>10
<1> DEFINE t == Jump!table[in.op]
           P == Compares(t, a, b)
           Q == in.op \in Jump!Swaps
           K == Kernel!Cmp(in.op, x, y, w)
<1>8. ASSUME NEW cmp \in Cmps, t = cmp PROVE P \in BOOLEAN
  <2>1. P <=> Compares(cmp, a, b)
    BY <1>8
  <2>2. P = Compares(cmp, a, b)
    BY <1>8
  <2>3. CASE cmp = "CmpEq"
    BY <2>2, <2>3 DEF Compares
  <2>4. CASE cmp = "CmpGt"
    <3>1. Compares(cmp, a, b) = (a > b)
      BY <2>4 DEF Compares
    <3>2. (a > b) \in BOOLEAN
      OBVIOUS
    <3> HIDE DEF P
    <3> QED
      BY <2>2, <3>1, <3>2
  <2>5. CASE cmp = "CmpLt"
    <3>1. Compares(cmp, a, b) = (a < b)
      BY <2>5 DEF Compares
    <3>2. (a < b) \in BOOLEAN
      OBVIOUS
    <3> HIDE DEF P
    <3> QED
      BY <2>2, <3>1, <3>2
  <2> QED
    BY <2>3, <2>4, <2>5 DEF Cmps
<1>9. ASSUME NEW cmp \in Cmps, t = cmp, ~(P <=> Q) <=> K
      PROVE  t \in Cmps /\ ((P # Q) <=> K)
  <2>1. P \in BOOLEAN /\ Q \in BOOLEAN
    BY <1>8, <1>9
  <2> HIDE DEF P, Q, K, t
  <2>2. (P # Q) <=> ~(P <=> Q)
    BY <2>1
  <2> QED
    BY <1>9, <2>2
<1>10. "CmpEq" \in Cmps /\ "CmpGt" \in Cmps /\ "CmpLt" \in Cmps
  BY DEF Cmps
<1>11. (Q <=> in.op \in {"JNE", "JGE", "JSGE", "JLE", "JSLE"})
       /\ (in.op \in {"JEQ", "JNE"} => t = "CmpEq")
       /\ (in.op \in {"JGT", "JSGT", "JLE", "JSLE"} => t = "CmpGt")
       /\ (in.op \in {"JLT", "JSLT", "JGE", "JSGE"} => t = "CmpLt")
  BY <1>4 DEF Jump!table, Jump!Swaps
<1>12. /\ t = "CmpEq" => (P <=> a = b)
       /\ t = "CmpGt" => (P <=> a > b)
       /\ t = "CmpLt" => (P <=> a < b)
  <2> HIDE DEF t
  <2> QED
    BY DEF Compares
<1> HIDE DEF P, Q, K, t
<1>6. CASE in.op \in {"JEQ", "JNE", "JGT", "JGE", "JLT", "JLE"}
  <2>1. a = x /\ b = y
    BY <1>3, <1>6 DEF Jump!is_signed, Jump!SignedOps
  <2>2. ~(P <=> Q) <=> K
    <3>1. (a < b <=> ~(x >= y)) /\ (a > b <=> ~(x <= y)) /\ (a > b <=> x > y) /\ (a < b <=> x < y)
          /\ (a = b <=> x = y)
      BY <1>2, <2>1
    <3> QED
      BY <1>5, <1>6, <1>11, <1>12, <3>1 DEF K
  <2> QED
    BY <1>4, <1>9, <1>10, <1>11, <2>2 DEF a, b, w, t, P, Q, K
<1>7. CASE in.op \in {"JSGT", "JSGE", "JSLT", "JSLE"}
  <2>1. a = sx + N /\ b = sy + N
    BY <1>3, <1>7 DEF Jump!is_signed, Jump!SignedOps
  <2>2. (a > b <=> sx > sy) /\ (a < b <=> sx < sy) /\ (a < b <=> ~(sx >= sy)) /\ (a > b <=> ~(sx <= sy))
    BY <1>3, <2>1
  <2>3. ~(P <=> Q) <=> K
    <3>1. CASE in.op = "JSGT"
      BY <1>5, <1>11, <1>12, <2>2, <3>1 DEF K
    <3>2. CASE in.op = "JSGE"
      BY <1>5, <1>11, <1>12, <2>2, <3>2 DEF K
    <3>3. CASE in.op = "JSLT"
      BY <1>5, <1>11, <1>12, <2>2, <3>3 DEF K
    <3>4. CASE in.op = "JSLE"
      BY <1>5, <1>11, <1>12, <2>2, <3>4 DEF K
    <3> QED
      BY <1>7, <3>1, <3>2, <3>3, <3>4
  <2> QED
    BY <1>4, <1>9, <1>10, <1>11, <2>3 DEF a, b, w, t, P, Q, K
<1> QED
  BY <1>4, <1>6, <1>7

(* In the headers g the entry decides as the instruction does on h.        *)
Decided(in, h, g) ==
  (Jump!Holds(g, Jump!Entry(in)) # (in.op \in Jump!Swaps))
    <=> Kernel!Cmp(in.op, JX(in, h), JY(in, h), JW(in))

LEMMA JOperands ==
  ASSUME NEW in, JGood(in), NEW h, RegsHold(h)
  PROVE  /\ JX(in, h) \in Word(JW(in)) /\ JY(in, h) \in Word(JW(in))
         /\ JX(in, h) \in Nat /\ JY(in, h) \in Nat
         /\ H(in.dst) \in Alu!Headers /\ H(in.src) \in Alu!Headers /\ h \in States
         /\ h[H(in.dst)].w = 8 /\ h[H(in.dst)].v \in Word(8)
         /\ h[H(in.src)].w = 8 /\ h[H(in.src)].v \in Word(8)
<1>1. JW(in) \in Widths /\ JW(in) \in 0 .. 8 /\ 8 \in Widths
  BY JumpIs DEF Widths
<1>2. H(in.dst) \in Alu!Headers /\ H(in.src) \in Alu!Headers /\ h \in States
      /\ h[H(in.dst)].w = 8 /\ h[H(in.dst)].v \in Word(8)
      /\ h[H(in.src)].w = 8 /\ h[H(in.src)].v \in Word(8)
  BY HeadersAre DEF JGood, RegsHold
<1>3. h[H(in.dst)].v \in Int /\ h[H(in.src)].v \in Int /\ in.imm \in Int
  BY <1>1, <1>2, NatWord DEF JGood
<1>4. JX(in, h) \in Word(JW(in)) /\ JY(in, h) \in Word(JW(in))
  <2>1. \A v \in Int : Trunc(v, JW(in)) \in Word(JW(in))
    BY <1>1, WordIs
  <2> QED
    BY <1>3, <2>1 DEF JX, JY
<1> QED
  BY <1>1, <1>2, <1>4, NatWord

(* An entry on the operands as they are compared decides right.            *)
LEMMA JEntry ==
  ASSUME NEW in, JGood(in), in.op # "JSET", NEW h, RegsHold(h), NEW g \in States,
         NEW l \in Alu!Headers, g[l].w = JW(in), g[l].v = Biased(in, JX(in, h)),
         NEW rhs, Against(g, rhs, JW(in), Biased(in, JY(in, h))),
         Jump!Entry(in) = Jump!cmp_entry(l, Jump!table[in.op], rhs)
  PROVE  Decided(in, h, g)
<1> DEFINE x == JX(in, h)
           y == JY(in, h)
           w == JW(in)
           a == Biased(in, x)
           b == Biased(in, y)
           t == Jump!table[in.op]
           P == Jump!Holds(g, Jump!Entry(in))
           R == Compares(t, a, b)
           Q == in.op \in Jump!Swaps
           K == Kernel!Cmp(in.op, x, y, w)
<1>1. w \in Widths /\ x \in Word(w) /\ y \in Word(w)
  BY JumpIs, JOperands
<1>2. t \in Cmps /\ ((R # Q) <=> K)
  <2> HIDE DEF x, y
  <2> QED
    BY <1>1, DecidesRight
<1>3. P <=> R
  <2> HIDE DEF a, b, t, w
  <2>1. g[l].w = w /\ g[l].v = a /\ Against(g, rhs, w, b)
    BY DEF w, a, b
  <2>2. Jump!Holds(g, Jump!cmp_entry(l, t, rhs)) <=> Compares(t, a, b)
    BY <1>1, <1>2, <2>1, HoldsIs
  <2> QED
    BY <2>2 DEF t
<1>4. P \in BOOLEAN
  BY DEF Jump!Holds
<1>5. R \in BOOLEAN
  <2> HIDE DEF a, b, t, w, x, y
  <2>1. a \in Nat /\ b \in Nat
    <3>1. a \in Nat
      BY <1>1, BiasedIn DEF a, w
    <3>2. b \in Nat
      BY <1>1, BiasedIn DEF b, w
    <3> QED
      BY <3>1, <3>2
  <2>2. CASE t = "CmpEq"
    BY <2>2 DEF Compares
  <2>3. CASE t = "CmpGt"
    <3>1. Compares(t, a, b) = (a > b)
      BY <2>3 DEF Compares
    <3>2. (a > b) \in BOOLEAN
      BY <2>1
    <3> QED
      BY <3>1, <3>2
  <2>4. CASE t = "CmpLt"
    <3>1. Compares(t, a, b) = (a < b)
      BY <2>4 DEF Compares
    <3>2. (a < b) \in BOOLEAN
      BY <2>1
    <3> QED
      BY <3>1, <3>2
  <2> QED
    BY <1>2, <2>2, <2>3, <2>4 DEF Cmps
<1> HIDE DEF P, R, Q, K
<1>6. P = R
  BY <1>3, <1>4, <1>5
<1>7. (P # Q) <=> K
  BY <1>2, <1>6
<1> QED
  BY <1>7 DEF Decided, P, Q, K, x, y, w

(* What the operations of a jump do: the registers stay as they are, and   *)
(* the entry decides right.                                                *)
Untouched(g, h) == g \in States /\ \A n \in RegNos : g[H(n)] = h[H(n)]
JumpsRight(in, h, g, s) == s \in Seq(OpSet) /\ Untouched(g, h) /\ Decided(in, h, g)

LEMMA ConstantBiased ==
  ASSUME NEW in
  PROVE  Jump!Constant(in) = Biased(in, Trunc(in.imm, JW(in)))
<1>1. Jump!imm(in) = Trunc(in.imm, JW(in)) /\ Jump!width(in) = JW(in)
  BY JumpIs
<1>2. Jump!bias(JW(in)) = exp2[Bits(JW(in)) - 1]
  BY SizesSame, Exp2Same DEF Jump!bias
<1> QED
  BY <1>1, <1>2, XorSame DEF Jump!Constant, Biased

(* 64-bit, unsigned: the registers are compared as they are.               *)
LEMMA PlainDecides ==
  ASSUME NEW in, JGood(in), in.op # "JSET", ~Jump!Rewritten(in), NEW h, RegsHold(h),
         NEW s, s = Jump!Emitted(in), NEW g, g = Alu!Exec(h, s)
  PROVE  JumpsRight(in, h, g, s)
<1> DEFINE l == H(in.dst)
           x == JX(in, h)
           y == JY(in, h)
           rhs == IF in.isImm THEN Jump!match_const(Jump!Constant(in), Jump!width(in))
                  ELSE Jump!match_header(H(in.src))
<1>1. h \in States /\ l \in Alu!Headers /\ h[l].w = 8 /\ h[l].v \in Word(8)
      /\ H(in.src) \in Alu!Headers /\ h[H(in.src)].w = 8 /\ h[H(in.src)].v \in Word(8)
  BY JOperands
<1>2. s = << >> /\ s \in Seq(OpSet) /\ g = h
  <2>1. s = << >> /\ s \in Seq(OpSet)
    BY DEF Jump!Emitted
  <2> QED
    BY <1>1, <2>1, ExecNone
<1>3. JW(in) = 8 /\ ~Jump!is_signed(in) /\ Jump!width(in) = 8
  BY JumpIs DEF Jump!Rewritten
<1>5. x = h[l].v
  <2>1. 8 \in 0 .. 8
    OBVIOUS
  <2>2. \A v \in Word(8) : Trunc(v, 8) = v
    BY <2>1, WordIs
  <2> QED
    BY <1>1, <1>3, <2>2 DEF JX
<1>6. Biased(in, x) = x /\ Biased(in, y) = y
  BY <1>3 DEF Biased
<1>7. Against(g, rhs, 8, y)
  <2>1. CASE in.isImm
    <3>1. Jump!Constant(in) = y
      <4>1. y = Trunc(in.imm, JW(in))
        BY <2>1 DEF JY
      <4> QED
        BY <1>6, <4>1, ConstantBiased
    <3> HIDE DEF y
    <3> QED
      BY <1>3, <2>1, <3>1 DEF Against
  <2>2. CASE ~in.isImm
    <3>1. y = h[H(in.src)].v
      <4>1. 8 \in 0 .. 8
        OBVIOUS
      <4>2. \A v \in Word(8) : Trunc(v, 8) = v
        BY <4>1, WordIs
      <4> QED
        BY <1>1, <1>3, <2>2, <4>2 DEF JY
    <3> HIDE DEF y
    <3>2. rhs = Jump!match_header(H(in.src)) /\ h[H(in.src)].w = 8 /\ h[H(in.src)].v = y
          /\ H(in.src) \in Alu!Headers
      BY <1>1, <2>2, <3>1
    <3> HIDE DEF rhs
    <3> QED
      BY <1>2, <3>2 DEF Against
  <2> QED
    BY <2>1, <2>2
<1>8. Jump!Entry(in) = Jump!cmp_entry(l, Jump!table[in.op], rhs)
  BY JumpOpsSame DEF Jump!Entry
<1> HIDE DEF x, y, rhs, l
<1>9. g \in States /\ g[l].w = JW(in) /\ g[l].v = Biased(in, x)
      /\ Against(g, rhs, JW(in), Biased(in, y))
  BY <1>1, <1>2, <1>3, <1>5, <1>6, <1>7
<1>10. Decided(in, h, g)
  <2>1. g[l].v = Biased(in, JX(in, h)) /\ Against(g, rhs, JW(in), Biased(in, JY(in, h)))
    BY <1>9 DEF x, y
  <2> QED
    BY <1>1, <1>8, <1>9, <2>1, JEntry
<1> QED
  BY <1>1, <1>2, <1>10 DEF JumpsRight, Untouched

(* Narrowed or biased: the sides are compared in scratch headers.          *)
LEMMA RewrittenDecides ==
  ASSUME NEW in, JGood(in), in.op # "JSET", Jump!Rewritten(in), NEW h, RegsHold(h),
         NEW s, s = Jump!Emitted(in), NEW g, g = Alu!Exec(h, s)
  PROVE  JumpsRight(in, h, g, s)
<1> DEFINE w == JW(in)
           x == JX(in, h)
           y == JY(in, h)
           a == Biased(in, x)
           b == Biased(in, y)
           d == H(in.dst)
           r == H(in.src)
           s1 == Jump!Side(in, d, T(0))
           s2 == Jump!Side(in, r, T(1))
           g1 == Alu!Exec(h, s1)
           g2 == Alu!Exec(g1, s2)
           rhs == IF in.isImm THEN Jump!match_const(Jump!Constant(in), Jump!width(in))
                  ELSE Jump!match_header(T(1))
<1>1. h \in States /\ d \in Alu!Headers /\ h[d].w = 8 /\ h[d].v \in Word(8)
      /\ r \in Alu!Headers /\ h[r].w = 8 /\ h[r].v \in Word(8)
  BY JOperands
<1>2. in.dst \in RegNos /\ in.src \in RegNos
  BY DEF JGood
<1>3. T(0) \in Alu!Headers /\ T(1) \in Alu!Headers /\ T(0) # T(1) /\ d # T(0) /\ d # T(1)
      /\ r # T(0) /\ r # T(1)
      /\ \A n \in RegNos : H(n) \in Alu!Headers /\ H(n) # T(0) /\ H(n) # T(1)
  BY <1>2, HeadersAre
<1>4. x = Trunc(h[d].v, w) /\ (~in.isImm => y = Trunc(h[r].v, w))
      /\ (in.isImm => y = Trunc(in.imm, w))
  BY DEF JX, JY
<1>5. Jump!width(in) = w
  BY JumpIs
<1>6. s = s1 \o (IF in.isImm THEN << >> ELSE s2)
  BY JumpOpsSame DEF Jump!Emitted
<1>7. Jump!Entry(in) = Jump!cmp_entry(T(0), Jump!table[in.op], rhs)
  BY JumpOpsSame DEF Jump!Entry
<1> HIDE DEF w, x, y, d, r, s1, s2, g1, g2
<1>8. SideOk(in, h, g1, s1, T(0), a)
  BY <1>1, <1>3, <1>4, SideIs DEF s1, g1, w
<1>9. s1 \in Seq(OpSet) /\ g1 \in States /\ g1[T(0)].w = w /\ g1[T(0)].v = a
      /\ \A u \in Alu!Headers : u # T(0) => g1[u] = h[u]
  BY <1>8 DEF SideOk, w
<1> HIDE DEF a, b
<1>10. ASSUME g \in States, g[T(0)].w = w, g[T(0)].v = a, Against(g, rhs, w, b),
              s \in Seq(OpSet), \A n \in RegNos : g[H(n)] = h[H(n)]
       PROVE  JumpsRight(in, h, g, s)
  <2> HIDE DEF rhs
  <2>1. g[T(0)].w = JW(in) /\ g[T(0)].v = Biased(in, JX(in, h))
        /\ Against(g, rhs, JW(in), Biased(in, JY(in, h)))
    BY <1>10 DEF w, a, b, x, y
  <2>2. Decided(in, h, g)
    BY <1>3, <1>7, <1>10, <2>1, JEntry
  <2> QED
    BY <1>10, <2>2 DEF JumpsRight, Untouched
<1>11. CASE in.isImm
  <2>1. s = s1 /\ g = g1
    <3>1. s = s1
      BY <1>6, <1>9, <1>11
    <3> QED
      BY <3>1 DEF g1
  <2>2. Jump!Constant(in) = b
    BY <1>4, <1>11, ConstantBiased DEF b, w
  <2>3. Against(g, rhs, w, b)
    BY <1>5, <1>11, <2>2 DEF Against
  <2>4. \A n \in RegNos : g[H(n)] = h[H(n)]
    BY <1>3, <1>9, <2>1
  <2> HIDE DEF rhs
  <2> QED
    BY <1>9, <1>10, <2>1, <2>3, <2>4
<1>12. CASE ~in.isImm
  <2>1. s = s1 \o s2
    BY <1>6, <1>12
  <2>2. g1[r] = h[r]
    BY <1>1, <1>3, <1>9
  <2>3. SideOk(in, g1, g2, s2, T(1), b)
    <3>1. g1[r].w = 8 /\ g1[r].v \in Word(8)
      BY <1>1, <2>2
    <3>2. SideOk(in, g1, g2, s2, T(1), Biased(in, Trunc(g1[r].v, JW(in))))
      BY <1>1, <1>3, <1>9, <3>1, SideIs DEF s2, g2
    <3> QED
      BY <1>4, <1>12, <2>2, <3>2 DEF b, w
  <2>4. s2 \in Seq(OpSet) /\ g2 \in States /\ g2[T(1)].w = w /\ g2[T(1)].v = b
        /\ \A u \in Alu!Headers : u # T(1) => g2[u] = g1[u]
    BY <2>3 DEF SideOk, w
  <2>5. s \in Seq(OpSet) /\ g = g2
    BY <1>1, <1>9, <2>1, <2>4, ExecJoin DEF g1, g2
  <2>6. g[T(0)].w = w /\ g[T(0)].v = a
    <3>1. g2[T(0)] = g1[T(0)]
      BY <1>3, <2>4
    <3> QED
      BY <1>9, <2>5, <3>1
  <2>7. Against(g, rhs, w, b)
    <3>1. rhs = Jump!match_header(T(1)) /\ T(1) \in Alu!Headers
      BY <1>3, <1>12
    <3> HIDE DEF rhs
    <3> QED
      BY <2>4, <2>5, <3>1 DEF Against
  <2>8. \A n \in RegNos : g[H(n)] = h[H(n)]
    BY <1>3, <1>9, <2>4, <2>5
  <2> HIDE DEF rhs
  <2> QED
    BY <1>10, <2>4, <2>5, <2>6, <2>7, <2>8
<1> QED
  BY <1>11, <1>12

(* JSET compares the masked value with zero, with the arms swapped.        *)
LEMMA MaskDecides ==
  ASSUME NEW in, JGood(in), in.op = "JSET", NEW h, NEW g \in States,
         g[T(0)].w = JW(in), g[T(0)].v = (JX(in, h) & JY(in, h))
  PROVE  Decided(in, h, g)
<1> DEFINE w == JW(in)
           v == JX(in, h) & JY(in, h)
           rhs == Jump!match_const(0, w)
           P == Jump!Holds(g, Jump!Entry(in))
           Q == in.op \in Jump!Swaps
           K == Kernel!Cmp(in.op, JX(in, h), JY(in, h), w)
<1>1. Jump!Entry(in) = Jump!cmp_entry(T(0), "CmpEq", rhs) /\ w \in Widths
  BY JumpIs, JumpOpsSame DEF Jump!Entry
<1>2. Against(g, rhs, w, 0) /\ "CmpEq" \in Cmps
  BY DEF Against, Cmps
<1>3. P <=> v = 0
  <2> HIDE DEF v, rhs, w
  <2>1. g[T(0)].w = w /\ g[T(0)].v = v /\ T(0) \in Alu!Headers
    BY HeadersAre DEF v, w
  <2>2. Jump!Holds(g, Jump!cmp_entry(T(0), "CmpEq", rhs)) <=> Compares("CmpEq", v, 0)
    BY <1>1, <1>2, <2>1, HoldsIs
  <2> QED
    BY <1>1, <2>2 DEF Compares
<1>4. K <=> v # 0
  BY AndSame DEF Kernel!Cmp
<1>5. P \in BOOLEAN /\ Q = TRUE
  BY DEF Jump!Holds, Jump!Swaps
<1> HIDE DEF P, Q, K, v
<1>6. (P # Q) <=> K
  BY <1>3, <1>4, <1>5
<1> QED
  BY <1>6 DEF Decided, P, Q, K, w

(* One mask.                                                               *)
LEMMA AndStep ==
  ASSUME NEW h \in States, NEW w \in Widths, NEW a \in Opds, NEW b \in Opds,
         Fits(h, a, w), Fits(h, b, w), NEW x \in Nat, NEW y \in Nat,
         Worth(h, a, w) = x, Worth(h, b, w) = y,
         NEW s, s = << Alu!binop("AndOp", w, a, b, T(0)) >>, NEW g, g = Alu!Exec(h, s)
  PROVE  s \in Seq(OpSet) /\ Sets(g, h, T(0), w, x & y)
<1>1. "AndOp" \in Fs /\ T(0) \in Alu!Headers /\ (x & y) = Computed("AndOp", x, y, w)
  BY HeadersAre DEF Fs, Computed
<1>2. Turns(h, s, T(0), w, x & y) /\ Sets(g, h, T(0), w, x & y)
  BY <1>1, OneStep
<1> QED
  BY <1>2 DEF Turns

(* A narrowed copy of a register.                                          *)
LEMMA NarrowStep ==
  ASSUME NEW h \in States, NEW a \in Alu!Headers, h[a].w = 8, NEW t \in Alu!Headers,
         NEW s, s = << Alu!cast(8, 4, Alu!hdr(a), t) >>, NEW g, g = Alu!Exec(h, s)
  PROVE  s \in Seq(OpSet) /\ Sets(g, h, t, 4, Trunc(h[a].v, 4))
<1>1. 8 \in Widths /\ 4 \in Widths
  BY DEF Widths
<1>2. Turns(h, s, t, 4, Trunc(h[a].v, 4)) /\ g = [h EXCEPT ![t] = Alu!Cell(4, Trunc(h[a].v, 4))]
      /\ Trunc(h[a].v, 4) \in Word(4)
  BY <1>1, OneCast
<1>3. Trunc(h[a].v, 4) \in Nat
  BY <1>1, <1>2, NatWord
<1>4. Sets(g, h, t, 4, Trunc(h[a].v, 4))
  BY <1>2, <1>3, SetSets
<1> QED
  BY <1>2, <1>4 DEF Turns

(* JSET at both widths.                                                    *)
LEMMA MaskedDecides ==
  ASSUME NEW in, JGood(in), in.op = "JSET", NEW h, RegsHold(h),
         NEW s, s = Jump!Emitted(in), NEW g, g = Alu!Exec(h, s)
  PROVE  JumpsRight(in, h, g, s)
<1> DEFINE w == JW(in)
           x == JX(in, h)
           y == JY(in, h)
           d == H(in.dst)
           r == H(in.src)
<1>1. h \in States /\ d \in Alu!Headers /\ h[d].w = 8 /\ h[d].v \in Word(8)
      /\ r \in Alu!Headers /\ h[r].w = 8 /\ h[r].v \in Word(8)
      /\ x \in Nat /\ y \in Nat /\ x \in Word(w) /\ y \in Word(w)
  BY JOperands
<1>2. in.dst \in RegNos /\ in.src \in RegNos /\ in.imm \in Int
  BY DEF JGood
<1>3. T(0) \in Alu!Headers /\ T(1) \in Alu!Headers /\ T(2) \in Alu!Headers
      /\ T(0) # T(1) /\ T(0) # T(2) /\ T(1) # T(2)
      /\ d # T(1) /\ r # T(1) /\ d # T(2) /\ r # T(2)
      /\ \A n \in RegNos : H(n) \in Alu!Headers /\ H(n) # T(0) /\ H(n) # T(1) /\ H(n) # T(2)
  BY <1>2, HeadersAre
<1>4. x = Trunc(h[d].v, w) /\ (~in.isImm => y = Trunc(h[r].v, w))
      /\ (in.isImm => y = Trunc(in.imm, w))
  BY DEF JX, JY
<1>5. Jump!imm(in) = Trunc(in.imm, w) /\ w \in Widths /\ w \in 0 .. 8
      /\ (Jump!is32(in) <=> w = 4) /\ (~Jump!is32(in) <=> w = 8)
  BY JumpIs DEF JW, Widths
<1>6. s = Jump!Masked(in)
  BY DEF Jump!Emitted
<1> HIDE DEF w, x, y, d, r
<1>7. in.isImm => Trunc(y, w) = y /\ Trunc(y, w) = Trunc(Jump!imm(in), w) /\ Jump!imm(in) = y
  <2>1. Trunc(y, w) = y
    BY <1>1, <1>5, WordIs
  <2> QED
    BY <1>4, <1>5, <2>1
<1>8. ASSUME s \in Seq(OpSet), NEW g0, Sets(g, g0, T(0), w, x & y),
             \A n \in RegNos : g0[H(n)] = h[H(n)]
      PROVE  JumpsRight(in, h, g, s)
  <2>1. g \in States /\ g[T(0)].w = w /\ g[T(0)].v = (x & y)
        /\ \A n \in RegNos : g[H(n)] = h[H(n)]
    BY <1>3, <1>8 DEF Sets
  <2>2. Decided(in, h, g)
    <3>1. g[T(0)].w = JW(in) /\ g[T(0)].v = (JX(in, h) & JY(in, h))
      BY <2>1 DEF w, x, y
    <3> QED
      BY <2>1, <3>1, MaskDecides
  <2> QED
    BY <1>8, <2>1, <2>2 DEF JumpsRight, Untouched
<1>9. CASE ~Jump!is32(in)
  <2> DEFINE a == Alu!hdr(d)
             b == IF in.isImm THEN Alu!konst(y) ELSE Alu!hdr(r)
  <2>0. w = 8 /\ x = h[d].v /\ (~in.isImm => y = h[r].v)
    <3>1. w = 8
      BY <1>5, <1>9
    <3>2. \A v \in Word(8) : Trunc(v, 8) = v
      BY <1>5, <3>1, WordIs
    <3> QED
      BY <1>1, <1>4, <3>1, <3>2
  <2>1. s = << Alu!binop("AndOp", w, a, b, T(0)) >>
    <3>1. s = << Jump!binop("AndOp", Jump!W64, Jump!hdr(Jump!H_REG(in.dst)),
                            IF in.isImm THEN Jump!konst(Jump!imm(in)) ELSE Jump!hdr(Jump!H_REG(in.src)),
                            Jump!H_TMP(0)) >>
      BY <1>6, <1>9 DEF Jump!Masked
    <3>2. (IF in.isImm THEN Jump!konst(Jump!imm(in)) ELSE Jump!hdr(Jump!H_REG(in.src))) = b
      BY <1>7, JumpOpsSame DEF r
    <3> HIDE DEF b
    <3> QED
      BY <2>0, <3>1, <3>2, JumpOpsSame, SizesSame DEF d
  <2>2. a \in Opds /\ Fits(h, a, w) /\ Worth(h, a, w) = x
    BY <1>1, <2>0, HeldIs
  <2>3. b \in Opds /\ Fits(h, b, w) /\ Worth(h, b, w) = y
    <3>1. CASE in.isImm
      <4>1. b = Alu!konst(y) /\ y \in Int /\ Trunc(y, w) = y
        BY <1>1, <1>7, <3>1
      <4> QED
        BY <4>1, ConstantIs
    <3>2. CASE ~in.isImm
      <4>1. b = Alu!hdr(r)
        BY <3>2
      <4> QED
        BY <1>1, <2>0, <3>2, <4>1, HeldIs
    <3> QED
      BY <3>1, <3>2
  <2> HIDE DEF a, b
  <2>4. s \in Seq(OpSet) /\ Sets(g, h, T(0), w, x & y)
    BY <1>1, <1>5, <2>1, <2>2, <2>3, AndStep
  <2> QED
    BY <1>8, <2>4
<1>10. CASE Jump!is32(in)
  <2> DEFINE s1 == << Alu!cast(8, 4, Alu!hdr(d), T(1)) >>
             g1 == Alu!Exec(h, s1)
  <2>1. w = 4
    BY <1>5, <1>10
  <2>2. s1 \in Seq(OpSet) /\ Sets(g1, h, T(1), 4, x)
    <3>1. x = Trunc(h[d].v, 4)
      BY <1>4, <2>1
    <3> HIDE DEF s1
    <3> QED
      BY <1>1, <1>3, <3>1, NarrowStep DEF s1
  <2>3. g1 \in States /\ g1[T(1)].w = 4 /\ g1[T(1)].v = x
        /\ \A u \in Alu!Headers : u # T(1) => g1[u] = h[u]
    BY <2>2 DEF Sets
  <2> HIDE DEF s1, g1
  <2>4. CASE in.isImm
    <3> DEFINE a == Alu!hdr(T(1))
               b == Alu!konst(y)
               s2 == << Alu!binop("AndOp", w, a, b, T(0)) >>
               g2 == Alu!Exec(g1, s2)
    <3>1. s = s1 \o s2
      BY <1>6, <1>7, <1>10, <2>1, <2>4, JumpOpsSame, SizesSame DEF Jump!Masked, s1, d
    <3>2. a \in Opds /\ Fits(g1, a, w) /\ Worth(g1, a, w) = x
      BY <1>3, <2>1, <2>3, HeldIs
    <3>3. b \in Opds /\ Fits(g1, b, w) /\ Worth(g1, b, w) = y
      BY <1>1, <1>7, <2>4, ConstantIs
    <3> HIDE DEF a, b
    <3>4. s2 \in Seq(OpSet) /\ Sets(g2, g1, T(0), w, x & y)
      BY <1>1, <1>5, <2>3, <3>2, <3>3, AndStep
    <3>5. s \in Seq(OpSet) /\ g = g2
      <4> HIDE DEF s2
      <4> QED
        BY <1>1, <2>2, <3>1, <3>4, ExecJoin DEF g1
    <3>6. \A n \in RegNos : g1[H(n)] = h[H(n)]
      BY <1>3, <2>3
    <3> HIDE DEF s2, g2
    <3> QED
      BY <1>8, <3>4, <3>5, <3>6
  <2>5. CASE ~in.isImm
    <3> DEFINE a == Alu!hdr(T(1))
               b == Alu!hdr(T(2))
               s2 == << Alu!cast(8, 4, Alu!hdr(r), T(2)) >>
               g2 == Alu!Exec(g1, s2)
               s3 == << Alu!binop("AndOp", w, a, b, T(0)) >>
               g3 == Alu!Exec(g2, s3)
    <3>1. s = s1 \o (s2 \o s3)
      <4>1. s = s1 \o << Alu!cast(8, 4, Alu!hdr(r), T(2)), Alu!binop("AndOp", w, a, b, T(0)) >>
        BY <1>6, <1>10, <2>1, <2>5, JumpOpsSame, SizesSame DEF Jump!Masked, s1, d, r
      <4> QED
        BY <4>1, Two
    <3>2. g1[r] = h[r]
      BY <1>1, <1>3, <2>3
    <3>3. s2 \in Seq(OpSet) /\ Sets(g2, g1, T(2), 4, y)
      <4>1. g1[r].w = 8 /\ y = Trunc(g1[r].v, 4)
        BY <1>1, <1>4, <2>1, <2>5, <3>2
      <4> HIDE DEF s2
      <4> QED
        BY <1>1, <1>3, <2>3, <4>1, NarrowStep DEF s2
    <3>4. g2 \in States /\ g2[T(2)].w = 4 /\ g2[T(2)].v = y
          /\ \A u \in Alu!Headers : u # T(2) => g2[u] = g1[u]
      BY <3>3 DEF Sets
    <3> HIDE DEF s2, g2
    <3>5. g2[T(1)].w = 4 /\ g2[T(1)].v = x
      BY <1>3, <2>3, <3>4
    <3>6. a \in Opds /\ Fits(g2, a, w) /\ Worth(g2, a, w) = x
      BY <1>3, <2>1, <3>5, HeldIs
    <3>7. b \in Opds /\ Fits(g2, b, w) /\ Worth(g2, b, w) = y
      BY <1>3, <2>1, <3>4, HeldIs
    <3> HIDE DEF a, b
    <3>8. s3 \in Seq(OpSet) /\ Sets(g3, g2, T(0), w, x & y)
      BY <1>1, <1>5, <3>4, <3>6, <3>7, AndStep
    <3> HIDE DEF s3, g3
    <3>9. s2 \o s3 \in Seq(OpSet) /\ Alu!Exec(g1, s2 \o s3) = g3
      BY <2>3, <3>3, <3>8, ExecJoin DEF g2, g3
    <3>10. s \in Seq(OpSet) /\ g = g3
      <4> DEFINE s4 == s2 \o s3
      <4>1. s4 \in Seq(OpSet) /\ Alu!Exec(g1, s4) = g3 /\ s = s1 \o s4
        BY <3>1, <3>9
      <4> HIDE DEF s4
      <4> QED
        BY <1>1, <2>2, <4>1, ExecJoin DEF g1
    <3>11. \A n \in RegNos : g2[H(n)] = h[H(n)]
      BY <1>3, <2>3, <3>4
    <3> QED
      BY <1>8, <3>8, <3>10, <3>11
  <2> QED
    BY <2>4, <2>5
<1> QED
  BY <1>9, <1>10

(* The operations emitted for a jump and the entry that is tested.         *)
LEMMA JumpMeans ==
  ASSUME NEW in, JGood(in), NEW h, RegsHold(h),
         NEW s, s = Jump!Emitted(in), NEW g, g = Alu!Exec(h, s)
  PROVE  JumpsRight(in, h, g, s)
<1>1. CASE in.op = "JSET"
  BY <1>1, MaskedDecides
<1>2. CASE in.op # "JSET" /\ Jump!Rewritten(in)
  BY <1>2, RewrittenDecides
<1>3. CASE in.op # "JSET" /\ ~Jump!Rewritten(in)
  BY <1>3, PlainDecides
<1> QED
  BY <1>1, <1>2, <1>3

-----------------------------------------------------------------------------
(* ------------------------ the inductive invariant ---------------------- *)
(* An arithmetic instruction, a jump and a call.  After its operations ran *)
(* a jump's entry decides right.                                           *)
AluPart ==
  /\ insn \in Alu!Insns /\ phase \in {"read", "refused", "emitted", "ran"} /\ jumps = "none"
  /\ phase = "emitted" => ~Alu!Refused(insn) /\ ops = Alu!Emitted(insn)

JumpPart ==
  /\ insn \in Jump!Insns /\ phase \in {"read", "refused", "emitted", "computed", "decided"}
  /\ phase # "decided" => jumps = "none"
  /\ phase \in {"emitted", "computed"} =>
       /\ insn.op \in Jump!Ops
       /\ ops = Jump!Emitted(insn) /\ entry = Jump!Entry(insn) /\ swap = (insn.op \in Jump!Swaps)
  /\ phase = "computed" => Decided(insn, hs, hs)

CallPart == insn = [cls |-> "CALL"] /\ phase = "read" /\ jumps = "none"

CodeInv == RegsHold(hs) /\ (AluPart \/ JumpPart \/ CallPart)

(* The classes tell the instructions apart.                                *)
LEMMA ClassesAre ==
  /\ \A in \in Alu!Insns : in.cls \in {"ALU", "ALU64"}
  /\ \A in \in Jump!Insns : in.cls \in {"JMP", "JMP32"} /\ (in.op \in Jump!Ops => JGood(in))
<1>1. \A in \in Alu!Insns : in.cls \in {"ALU", "ALU64"}
  BY DEF Alu!Insns, Alu!Classes
<1>2. ASSUME NEW in \in Jump!Insns
      PROVE  in.cls \in {"JMP", "JMP32"} /\ (in.op \in Jump!Ops => JGood(in))
  <2>1. in.cls \in {"JMP", "JMP32"} /\ in.isImm \in BOOLEAN /\ in.dst \in RegNos
        /\ in.src \in RegNos \cup {0} /\ in.imm \in JumpImms \cup {0}
    BY DEF Jump!Insns, Jump!Regs, RegNos
  <2>2. in.src \in RegNos
    BY <2>1, HeadersAre
  <2>3. in.imm \in Int
    <3>1. JumpImms \subseteq Int /\ 0 \in Int
      BY ValuesAssumption
    <3> QED
      BY <2>1, <3>1
  <2> QED
    BY <2>1, <2>2, <2>3 DEF JGood
<1> QED
  BY <1>1, <1>2

(* Headers whose registers start with words.                               *)
Starting(h, val, j) ==
  h = [a \in Alu!Headers |-> IF a \in {H(n) : n \in RegNos} THEN Alu!Cell(8, val[a]) ELSE j]

LEMMA StartingHolds ==
  ASSUME NEW h, NEW val, NEW j \in Cells, Starting(h, val, j),
         \A n \in RegNos : val[H(n)] \in Word(8)
  PROVE  RegsHold(h)
<1>1. Word(8) \subseteq Nat
  <2>1. 8 \in Widths
    BY DEF Widths
  <2> QED
    BY <2>1, NatWord
<1>2. ASSUME NEW n \in RegNos
      PROVE  h[H(n)] = Alu!Cell(8, val[H(n)]) /\ val[H(n)] \in Word(8) /\ H(n) \in Alu!Headers
  BY HeadersAre DEF Starting
<1>3. \A v \in Nat : Alu!Cell(8, v) \in Cells /\ Alu!Cell(8, v).w = 8 /\ Alu!Cell(8, v).v = v
  BY DEF Cells, Alu!Cell
<1>4. h \in States
  <2>1. ASSUME NEW a \in Alu!Headers PROVE h[a] \in Cells
    <3>1. CASE a \in {H(n) : n \in RegNos}
      <4>1. PICK n \in RegNos : a = H(n)
        BY <3>1
      <4> QED
        BY <1>1, <1>2, <1>3, <4>1
    <3>2. CASE a \notin {H(n) : n \in RegNos}
      BY <3>2 DEF Starting
    <3> QED
      BY <3>1, <3>2
  <2>2. h = [a \in Alu!Headers |-> h[a]]
    BY DEF Starting
  <2> QED
    BY <2>1, <2>2 DEF States
<1>5. ASSUME NEW n \in RegNos PROVE h[H(n)].w = 8 /\ h[H(n)].v \in Word(8)
  BY <1>1, <1>2, <1>3
<1> QED
  BY <1>4, <1>5 DEF RegsHold

(* All three kinds of initial states.                                      *)
LEMMA AluStarts == Alu!Init => RegsHold(hs)
<1> SUFFICES ASSUME Alu!Init PROVE RegsHold(hs)
  OBVIOUS
<1>1. PICK v \in AluValues, u \in (IF insn.isImm THEN {0} ELSE AluOperands), j \in Junk :
        hs = [h \in Alu!Headers |-> IF h = Alu!H_REG(0) THEN Alu!Cell(Alu!W64, v)
                                    ELSE IF h \in {Alu!H_REG(n) : n \in Alu!Regs}
                                    THEN Alu!Cell(Alu!W64, u) ELSE j]
  BY DEF Alu!Init
<1> DEFINE val == [a \in Alu!Headers |-> IF a = H(0) THEN v ELSE u]
<1>2. v \in Word(8) /\ u \in Word(8) /\ j \in Cells
  <2>1. Word(W64) = Word(8)
    BY DEF W64
  <2>2. v \in Word(8) /\ u \in Word(8)
    BY <2>1, ValuesAssumption, ZeroIs
  <2>3. j \in Cells
    BY ValuesAssumption DEF Cells
  <2> QED
    BY <2>2, <2>3
<1>3. H(0) \in {H(n) : n \in RegNos}
  BY HeadersAre
<1>4. Starting(hs, val, j)
  <2>1. Alu!Regs = RegNos /\ Alu!W64 = 8 /\ {Alu!H_REG(n) : n \in Alu!Regs} = {H(n) : n \in RegNos}
        /\ Alu!H_REG(0) = H(0)
    BY SizesSame DEF Alu!Regs, RegNos, H
  <2> DEFINE S == {H(n) : n \in RegNos}
  <2>2. hs = [h \in Alu!Headers |-> IF h = H(0) THEN Alu!Cell(8, v)
                                    ELSE IF h \in S THEN Alu!Cell(8, u) ELSE j]
    <3> HIDE DEF S
    <3> QED
      BY <1>1, <2>1 DEF S
  <2> HIDE DEF S
  <2>3. H(0) \in S
    BY <1>3 DEF S
  <2>4. \A h \in Alu!Headers :
          (IF h = H(0) THEN Alu!Cell(8, v) ELSE IF h \in S THEN Alu!Cell(8, u) ELSE j)
            = IF h \in S THEN Alu!Cell(8, val[h]) ELSE j
    BY <2>3
  <2> HIDE DEF val
  <2>5. hs = [h \in Alu!Headers |-> IF h \in S THEN Alu!Cell(8, val[h]) ELSE j]
    BY <2>2, <2>4
  <2> QED
    BY <2>5 DEF Starting, S
<1>5. \A n \in RegNos : val[H(n)] \in Word(8)
  BY <1>2, HeadersAre
<1> HIDE DEF val
<1> QED
  BY <1>2, <1>4, <1>5, StartingHolds

LEMMA JumpStarts == Jump!Init => RegsHold(hs)
<1> SUFFICES ASSUME Jump!Init PROVE RegsHold(hs)
  OBVIOUS
<1>1. PICK r \in [Jump!Regs -> JumpValues], j \in Junk :
        hs = [h \in Jump!Headers |-> IF h \in {Jump!H_REG(n) : n \in Jump!Regs}
                                     THEN Jump!Cell(Jump!W64, r[h - Jump!H_REG(0)]) ELSE j]
  BY DEF Jump!Init
<1> DEFINE val == [a \in Alu!Headers |-> r[a - H(0)]]
           S == {H(n) : n \in RegNos}
<1>2. Jump!Regs = RegNos /\ Jump!Headers = Alu!Headers /\ Jump!W64 = 8
      /\ {Jump!H_REG(n) : n \in Jump!Regs} = S
  BY SizesSame, JumpOpsSame
     DEF Jump!Regs, RegNos, H, Jump!Headers, Alu!Headers, Alu!Regs, Jump!H_REG, Alu!H_REG, Jump!H_TMP, Alu!H_TMP
<1>3. j \in Cells
  BY ValuesAssumption DEF Cells
<1>4. ASSUME NEW n \in RegNos PROVE val[H(n)] \in Word(8)
  <2>1. H(n) - H(0) = n
    BY DEF H, Alu!H_REG, RegNos
  <2>2. r[n] \in JumpValues
    BY <1>2
  <2>3. JumpValues \subseteq Word(8)
    BY ValuesAssumption DEF W64
  <2>4. val[H(n)] = r[n]
    BY <2>1, HeadersAre
  <2> QED
    BY <2>2, <2>3, <2>4
<1>5. Starting(hs, val, j)
  <2>1. hs = [h \in Alu!Headers |-> IF h \in S THEN Alu!Cell(8, r[h - H(0)]) ELSE j]
    <3> HIDE DEF S
    <3> QED
      BY <1>1, <1>2, JumpOpsSame
  <2>2. \A h \in Alu!Headers : val[h] = r[h - H(0)]
    OBVIOUS
  <2> HIDE DEF val, S
  <2>3. hs = [h \in Alu!Headers |-> IF h \in S THEN Alu!Cell(8, val[h]) ELSE j]
    BY <2>1, <2>2
  <2> QED
    BY <2>3 DEF Starting, S
<1> HIDE DEF val
<1> QED
  BY <1>3, <1>4, <1>5, StartingHolds

LEMMA CallStarts == NoInsn => RegsHold(hs)
<1> SUFFICES ASSUME NoInsn PROVE RegsHold(hs)
  OBVIOUS
<1> DEFINE val == [a \in Alu!Headers |-> 0]
           j == Alu!Cell(8, 0)
<1>1. hs = [h \in Alu!Headers |-> j]
  BY SizesSame DEF NoInsn
<1>2. Starting(hs, val, j)
  BY <1>1 DEF Starting
<1>3. j \in Cells
  BY DEF Cells, Alu!Cell
<1>4. \A n \in RegNos : val[H(n)] \in Word(8)
  BY HeadersAre, ZeroIs
<1> HIDE DEF val, j
<1> QED
  BY <1>2, <1>3, <1>4, StartingHolds

(* The invariant holds in the beginning and is kept by every step.         *)
LEMMA CodeInit == Init => CodeInv
<1> SUFFICES ASSUME Init PROVE CodeInv
  OBVIOUS
<1>1. CASE Alu!Init /\ NoJump
  <2>1. AluPart
    BY <1>1 DEF Alu!Init, NoJump, AluPart
  <2> QED
    BY <1>1, <2>1, AluStarts DEF CodeInv
<1>2. CASE Jump!Init
  <2>1. JumpPart
    BY <1>2 DEF Jump!Init, JumpPart
  <2> QED
    BY <1>2, <2>1, JumpStarts DEF CodeInv
<1>3. CASE NoInsn /\ NoJump
  <2>1. CallPart
    BY <1>3 DEF NoInsn, NoJump, CallPart
  <2> QED
    BY <1>3, <2>1, CallStarts DEF CodeInv
<1> QED
  BY <1>1, <1>2, <1>3 DEF Init

(* What a step does: the actions of an arithmetic instruction and of a     *)
(* jump that execute something.                                            *)
LEMMA AluRunIs ==
  ASSUME AluPart, RegsHold(hs), Alu!Run
  PROVE  Leaves(hs', hs, H(insn.dst), 8, Meaning(insn, hs)) /\ Meaning(insn, hs) \in Word(8)
         /\ RegsHold(hs') /\ insn \in Alu!Insns /\ ~Alu!Refused(insn)
<1>1. insn \in Alu!Insns /\ ~Alu!Refused(insn) /\ hs' = Alu!Exec(hs, Alu!Emitted(insn))
  BY DEF AluPart, Alu!Run
<1> DEFINE in == insn
           h == hs
           g == hs'
           v == Meaning(in, h)
<1> HIDE DEF in, h, g
<1>2. in \in Alu!Insns /\ ~Alu!Refused(in) /\ RegsHold(h) /\ g = Alu!Exec(h, Alu!Emitted(in))
  BY <1>1 DEF in, h, g
<1>3. Turns(h, Alu!Emitted(in), H(in.dst), 8, v) /\ v \in Word(8)
  BY <1>2, AluMeans
<1> HIDE DEF v
<1>4. Leaves(g, h, H(in.dst), 8, v)
  BY <1>2, <1>3 DEF Turns
<1>5. RegsHold(g)
  <2>1. g \in States /\ g[H(in.dst)].w = 8 /\ g[H(in.dst)].v = v
    BY <1>4 DEF Leaves, Alu!Cell
  <2>2. ASSUME NEW n \in RegNos PROVE g[H(n)].w = 8 /\ g[H(n)].v \in Word(8)
    <3>1. CASE H(n) = H(in.dst)
      BY <1>3, <2>1, <3>1
    <3>2. CASE H(n) # H(in.dst)
      <4>1. g[H(n)] = h[H(n)]
        BY <1>4, <3>2 DEF Leaves, SameRegs
      <4> QED
        BY <1>2, <4>1 DEF RegsHold
    <3> QED
      BY <3>1, <3>2
  <2> QED
    BY <2>1, <2>2 DEF RegsHold
<1> QED
  BY <1>2, <1>3, <1>4, <1>5 DEF in, h, g, v

LEMMA JumpRunIs ==
  ASSUME JumpPart, RegsHold(hs), Jump!Run
  PROVE  RegsHold(hs') /\ Untouched(hs', hs) /\ Decided(insn, hs', hs')
<1>1. insn \in Jump!Insns /\ insn.op \in Jump!Ops /\ hs' = Jump!Exec(hs, Jump!Emitted(insn))
  BY DEF JumpPart, Jump!Run
<1> DEFINE in == insn
           h == hs
           g == hs'
           s == Jump!Emitted(in)
<1> HIDE DEF in, h, g, s
<1>2. JGood(in) /\ RegsHold(h) /\ g = Alu!Exec(h, s)
  BY <1>1, ClassesAre, ExecSame DEF in, h, g, s
<1>3. JumpsRight(in, h, g, s)
  BY <1>2, JumpMeans DEF s
<1>4. Untouched(g, h) /\ Decided(in, h, g)
  BY <1>3 DEF JumpsRight
<1>5. RegsHold(g)
  BY <1>2, <1>4 DEF RegsHold, Untouched
<1>6. JX(in, g) = JX(in, h) /\ JY(in, g) = JY(in, h)
  <2>1. in.dst \in RegNos /\ in.src \in RegNos
    BY <1>2 DEF JGood
  <2> QED
    BY <1>4, <2>1 DEF JX, JY, Untouched
<1>7. Decided(in, g, g)
  BY <1>4, <1>6 DEF Decided
<1> QED
  BY <1>4, <1>5, <1>7 DEF in, h, g

LEMMA CodeNext == CodeInv /\ [Next]_vars => CodeInv'
<1> SUFFICES ASSUME CodeInv, [Next]_vars PROVE CodeInv'
  OBVIOUS
<1>1. RegsHold(hs) /\ (insn.cls \in {"ALU", "ALU64"} => AluPart)
      /\ (insn.cls \in {"JMP", "JMP32"} => JumpPart) /\ (insn.cls = "CALL" => CallPart)
  BY ClassesAre DEF CodeInv, AluPart, JumpPart, CallPart
<1>2. CASE TranslateAlu
  <2>1. AluPart /\ insn \in Alu!Insns /\ jumps' = jumps /\ jumps = "none"
    BY <1>1, <1>2 DEF TranslateAlu, jumpVars, AluPart
  <2>2. CASE Alu!Refuse
    <3>1. AluPart' /\ hs' = hs
      BY <2>1, <2>2 DEF AluPart, Alu!Refuse
    <3> QED
      BY <1>1, <3>1 DEF CodeInv
  <2>3. CASE Alu!Translate
    <3>1. AluPart' /\ hs' = hs
      BY <2>1, <2>3 DEF AluPart, Alu!Translate
    <3> QED
      BY <1>1, <3>1 DEF CodeInv
  <2>4. CASE Alu!Run
    <3>1. AluPart'
      BY <2>1, <2>4 DEF AluPart, Alu!Run
    <3>2. RegsHold(hs')
      BY <1>1, <2>1, <2>4, AluRunIs
    <3> QED
      BY <3>1, <3>2 DEF CodeInv
  <2> QED
    BY <1>2, <2>2, <2>3, <2>4 DEF TranslateAlu, Alu!Next
<1>3. CASE TranslateJump
  <2>1. JumpPart
    BY <1>1, <1>3 DEF TranslateJump
  <2>2. CASE Jump!Refuse
    <3>1. JumpPart' /\ hs' = hs
      BY <2>1, <2>2 DEF JumpPart, Jump!Refuse
    <3> QED
      BY <1>1, <3>1 DEF CodeInv
  <2>3. CASE Jump!EmitCondition
    <3>1. JumpPart' /\ hs' = hs
      BY <2>1, <2>3 DEF JumpPart, Jump!EmitCondition
    <3> QED
      BY <1>1, <3>1 DEF CodeInv
  <2>4. CASE Jump!Run
    <3>1. RegsHold(hs') /\ Decided(insn, hs', hs')
      BY <1>1, <2>1, <2>4, JumpRunIs
    <3>2. JumpPart'
      BY <2>1, <2>4, <3>1 DEF JumpPart, Jump!Run
    <3> QED
      BY <3>1, <3>2 DEF CodeInv
  <2>5. CASE Jump!Decide
    <3>1. JumpPart' /\ hs' = hs
      BY <2>1, <2>5 DEF JumpPart, Jump!Decide
    <3> QED
      BY <1>1, <3>1 DEF CodeInv
  <2> QED
    BY <1>3, <2>2, <2>3, <2>4, <2>5 DEF TranslateJump, Jump!Next
<1>4. CASE TranslateCall
  <2>1. UNCHANGED <<insn, phase, hs, jumps>> /\ CallPart
    BY <1>1, <1>4 DEF TranslateCall, aluVars, jumpVars
  <2> QED
    BY <1>1, <2>1 DEF CodeInv, CallPart
<1>5. CASE UNCHANGED vars
  <2>1. UNCHANGED <<insn, phase, ops, hs, entry, swap, jumps>>
    BY <1>5 DEF vars, aluVars, jumpVars
  <2> QED
    BY <2>1 DEF CodeInv, CallPart, AluPart, JumpPart
<1> QED
  BY <1>2, <1>3, <1>4, <1>5 DEF Next

(* A register holds a 64-bit word after every instruction, for all values, *)
(* immediates and scratch headers: translate_alu widens what a 32-bit      *)
(* operation leaves, and emit_condition writes to scratch headers alone.   *)
THEOREM InstructionTypes == Spec => []TypeOK
<1>1. CodeInv => TypeOK
  <2> SUFFICES ASSUME CodeInv PROVE TypeOK
    OBVIOUS
  <2>1. phase \in {"read", "refused", "emitted", "ran", "computed", "decided"} /\ RegsHold(hs)
    BY DEF CodeInv, AluPart, JumpPart, CallPart
  <2>2. ASSUME NEW n \in RegNos PROVE hs[Alu!H_REG(n)] \in [w : {W64}, v : Word(W64)]
    <3>1. hs[H(n)] \in Cells /\ hs[H(n)].w = 8 /\ hs[H(n)].v \in Word(8)
      BY <2>1, HeadersAre DEF RegsHold, States
    <3> QED
      BY <3>1 DEF Cells, H, W64
  <2> QED
    BY <2>1, <2>2 DEF TypeOK, RegNos
<1> QED
  BY <1>1, CodeInit, CodeNext, PTL DEF Spec

-----------------------------------------------------------------------------
(* ------------------- the refinement of the instruction ----------------- *)
Reg(h) == [n \in RegNos |-> h[H(n)].v]

(* What the kernel computes for an instruction without an off field.       *)
LEMMA ResultIs ==
  ASSUME insn \in Alu!Insns, ~Alu!Refused(insn), insn.off = 0
  PROVE  Kernel!Result(insn) = Meaning(insn, hs) /\ Kernel!Defined(insn) /\ Kernel!IsAlu(insn)
<1>1. Good(insn)
      /\ insn.op \in DOMAIN Alu!Simple \cup {"LSH", "RSH", "ARSH", "MOV", "NEG", "END"}
      /\ (insn.op = "END" => insn.imm \in {Bits(2), Bits(4), Bits(8)})
  BY AccessIs
<1>2. Kernel!IsAlu(insn)
  BY <1>1 DEF Kernel!IsAlu, Good
<1>3. insn.op # "0xe0"
  BY <1>1, SimpleIs
<1>4. Kernel!Defined(insn)
  BY <1>1, <1>3 DEF Kernel!Defined, Good, RegNos, Bits
<1>5. insn.dst \in RegNos /\ insn.src \in RegNos
  BY <1>1 DEF Good
<1> DEFINE R == [n \in 0 .. NUM_BPF_REGS - 1 |-> hs[Alu!H_REG(n)].v]
<1>6. R[insn.dst] = hs[H(insn.dst)].v /\ R[insn.src] = hs[H(insn.src)].v
  BY <1>5 DEF H, RegNos
<1>7. Kernel!Width(insn) = Wd(insn)
  BY <1>1 DEF Kernel!Width, Wd, Good
<1>8. CASE insn.op = "END"
  <2>1. Kernel!Result(insn) = Kernel!End(insn)
    BY <1>8 DEF Kernel!Result
  <2>2. Kernel!End(insn) = EndValue(insn, hs)
    <3>1. Kernel!M(insn.imm \div Byte) = Modulus(insn.imm \div Byte)
      BY SizesSame
    <3> QED
      BY <1>6, <3>1 DEF Kernel!End, EndValue
  <2> QED
    BY <1>2, <1>4, <1>8, <2>1, <2>2 DEF Meaning
<1>9. CASE insn.op # "END"
  <2>1. Kernel!Source(insn) = Y(insn, hs)
    <3>1. Kernel!M(Wd(insn)) = Modulus(Wd(insn))
      BY SizesSame
    <3> QED
      BY <1>6, <1>7, <3>1 DEF Kernel!Source, Y, Trunc
  <2>2. R[insn.dst] % Kernel!M(Wd(insn)) = X(insn, hs)
    BY <1>6, SizesSame DEF X, Trunc
  <2>3. Kernel!Result(insn) = Kernel!Alu(insn.op, X(insn, hs), Y(insn, hs), Wd(insn))
    BY <1>7, <1>9, <2>1, <2>2 DEF Kernel!Result
  <2> QED
    BY <1>2, <1>4, <1>9, <2>3 DEF Meaning
<1> QED
  BY <1>8, <1>9

(* Running the operations of an arithmetic instruction calculates.         *)
LEMMA RunCalculates ==
  ASSUME AluPart, RegsHold(hs), insn.off = 0, Alu!Run, jumps' = jumps
  PROVE  Kernel!Calculate
<1> DEFINE d == insn.dst
           v == Meaning(insn, hs)
           R == [n \in 0 .. NUM_BPF_REGS - 1 |-> hs[Alu!H_REG(n)].v]
<1>1. insn \in Alu!Insns /\ ~Alu!Refused(insn) /\ Leaves(hs', hs, H(d), 8, v)
  BY AluRunIs
<1>2. Kernel!Result(insn) = v /\ Kernel!Defined(insn) /\ Kernel!IsAlu(insn)
  BY <1>1, ResultIs
<1>3. d \in RegNos
  BY <1>1, AccessIs DEF Good
<1>4. ~(phase \in {"ran", "decided"}) /\ (phase \in {"ran", "decided"})' = TRUE /\ insn' = insn
  BY DEF Alu!Run
<1> HIDE DEF v, d
<1>5. [n \in RegNos |-> hs'[H(n)].v] = [[n \in RegNos |-> hs[H(n)].v] EXCEPT ![d] = v]
  <2>1. ASSUME NEW n \in RegNos
        PROVE  hs'[H(n)].v = IF n = d THEN v ELSE hs[H(n)].v
    <3>1. CASE n = d
      <4>1. hs'[H(d)] = Alu!Cell(8, v)
        BY <1>1 DEF Leaves
      <4> QED
        BY <3>1, <4>1 DEF Alu!Cell
    <3>2. CASE n # d
      <4>1. H(n) # H(d)
        BY <1>3, <3>2, HeadersAre
      <4>2. hs'[H(n)] = hs[H(n)]
        BY <1>1, <4>1 DEF Leaves, SameRegs
      <4> QED
        BY <3>2, <4>2
    <3> QED
      BY <3>1, <3>2
  <2> QED
    BY <1>3, <2>1
<1>6. [n \in 0 .. NUM_BPF_REGS - 1 |-> hs[Alu!H_REG(n)].v]' = [R EXCEPT ![d] = v]
  BY <1>5 DEF H, RegNos
<1> QED
  BY <1>2, <1>4, <1>6 DEF Kernel!Calculate, d

(* The decision transformer branches.                                      *)
LEMMA DecideBranches ==
  ASSUME JumpPart, RegsHold(hs), Jump!Decide
  PROVE  Kernel!Branch
<1>1. insn \in Jump!Insns /\ insn.op \in Jump!Ops /\ Decided(insn, hs, hs)
      /\ entry = Jump!Entry(insn) /\ swap = (insn.op \in Jump!Swaps)
  BY DEF JumpPart, Jump!Decide
<1>2. JGood(insn)
  BY <1>1, ClassesAre
<1>3. insn.dst \in RegNos /\ insn.src \in RegNos
  BY <1>2 DEF JGood
<1>4. Kernel!IsJump(insn) /\ ~Kernel!IsAlu(insn) /\ Kernel!Width(insn) = JW(insn)
  BY <1>2 DEF JGood, Kernel!IsJump, Kernel!IsAlu, Kernel!Width, JW
<1>5. Kernel!Defined(insn)
  BY <1>1, <1>3, <1>4 DEF Kernel!Defined, RegNos, Jump!Ops, Jump!SignedOps
<1> DEFINE R == [n \in 0 .. NUM_BPF_REGS - 1 |-> hs[Alu!H_REG(n)].v]
<1>6. R[insn.dst] = hs[H(insn.dst)].v /\ R[insn.src] = hs[H(insn.src)].v
  BY <1>3 DEF H, RegNos
<1>7. Kernel!M(JW(insn)) = Modulus(JW(insn))
  BY SizesSame
<1>8. Kernel!Source(insn) = JY(insn, hs)
  BY <1>4, <1>6, <1>7 DEF Kernel!Source, JY, Trunc
<1>9. R[insn.dst] % Kernel!M(Kernel!Width(insn)) = JX(insn, hs)
  BY <1>4, <1>6, <1>7 DEF JX, Trunc
<1>10. ~(phase \in {"ran", "decided"}) /\ (phase \in {"ran", "decided"})' = TRUE
       /\ insn' = insn /\ hs' = hs
       /\ jumps' = IF Jump!Holds(hs, entry) # swap THEN "yes" ELSE "no"
  BY DEF Jump!Decide
<1>11. jumps' = IF Kernel!Cmp(insn.op, JX(insn, hs), JY(insn, hs), JW(insn)) THEN "yes" ELSE "no"
  BY <1>1, <1>10 DEF Decided
<1>12. [n \in 0 .. NUM_BPF_REGS - 1 |-> hs[Alu!H_REG(n)].v]' = R
  BY <1>10
<1> HIDE DEF R
<1> QED
  BY <1>4, <1>5, <1>8, <1>9, <1>10, <1>11, <1>12 DEF Kernel!Branch, R

(* The instruction has no off field, as all have but the signed forms.     *)
NoOff == insn.cls \in {"ALU", "ALU64"} => insn.off = 0

LEMMA NoOffStays == NoOff /\ [Next]_vars => NoOff'
<1> SUFFICES ASSUME NoOff, [Next]_vars PROVE NoOff'
  OBVIOUS
<1>1. insn' = insn
  BY DEF Next, TranslateAlu, TranslateJump, TranslateCall, vars, aluVars, Alu!Next, Alu!Refuse,
     Alu!Translate, Alu!Run, Jump!Next, Jump!Refuse, Jump!EmitCondition, Jump!Run, Jump!Decide
<1> QED
  BY <1>1 DEF NoOff

(* Initial states map to initial states, steps to steps or to nothing.     *)
LEMMA KernelInit == CodeInv /\ Init => Kernel!Init
<1> SUFFICES ASSUME CodeInv, Init PROVE Kernel!Init
  OBVIOUS
<1>1. phase = "read" /\ jumps = "none"
  BY DEF Init, Alu!Init, Jump!Init, NoInsn, NoJump
<1>2. [n \in 0 .. NUM_BPF_REGS - 1 |-> hs[Alu!H_REG(n)].v]
        \in [0 .. NUM_BPF_REGS - 1 -> 0 .. Kernel!M(8) - 1]
  <2>1. Word(8) = 0 .. Kernel!M(8) - 1
    BY SizesSame DEF Word
  <2>2. \A n \in 0 .. NUM_BPF_REGS - 1 : hs[Alu!H_REG(n)].v \in Word(8)
    BY DEF CodeInv, RegsHold, RegNos, H
  <2> QED
    BY <2>1, <2>2
<1> QED
  BY <1>1, <1>2 DEF Kernel!Init

LEMMA KernelNext == CodeInv /\ NoOff /\ [Next]_vars => [Kernel!Next]_Kernel!isaVars
<1> SUFFICES ASSUME CodeInv, NoOff, [Next]_vars PROVE [Kernel!Next]_Kernel!isaVars
  OBVIOUS
<1>1. RegsHold(hs) /\ (insn.cls \in {"ALU", "ALU64"} => AluPart)
      /\ (insn.cls \in {"JMP", "JMP32"} => JumpPart) /\ (insn.cls = "CALL" => CallPart)
  BY ClassesAre DEF CodeInv, AluPart, JumpPart, CallPart
<1>2. ASSUME insn' = insn, hs' = hs, jumps' = jumps,
             (phase \in {"ran", "decided"})' = (phase \in {"ran", "decided"})
      PROVE  UNCHANGED Kernel!isaVars
  BY <1>2 DEF Kernel!isaVars
<1>3. CASE TranslateAlu
  <2>1. AluPart /\ insn.off = 0 /\ jumps' = jumps
    BY <1>1, <1>3 DEF TranslateAlu, jumpVars, NoOff
  <2>2. CASE Alu!Refuse
    BY <1>2, <2>1, <2>2 DEF Alu!Refuse
  <2>3. CASE Alu!Translate
    BY <1>2, <2>1, <2>3 DEF Alu!Translate
  <2>4. CASE Alu!Run
    BY <1>1, <2>1, <2>4, RunCalculates DEF Kernel!Next
  <2> QED
    BY <1>3, <2>2, <2>3, <2>4 DEF TranslateAlu, Alu!Next
<1>4. CASE TranslateJump
  <2>1. JumpPart
    BY <1>1, <1>4 DEF TranslateJump
  <2>2. CASE Jump!Refuse
    BY <1>2, <2>2 DEF Jump!Refuse
  <2>3. CASE Jump!EmitCondition
    BY <1>2, <2>3 DEF Jump!EmitCondition
  <2>4. CASE Jump!Run
    <3>1. \A n \in RegNos : hs'[H(n)] = hs[H(n)]
      BY <1>1, <2>1, <2>4, JumpRunIs DEF Untouched
    <3>2. [n \in 0 .. NUM_BPF_REGS - 1 |-> hs[Alu!H_REG(n)].v]'
            = [n \in 0 .. NUM_BPF_REGS - 1 |-> hs[Alu!H_REG(n)].v]
      BY <3>1 DEF RegNos, H
    <3>3. insn' = insn /\ jumps' = jumps
          /\ (phase \in {"ran", "decided"})' = (phase \in {"ran", "decided"})
      BY <2>4 DEF Jump!Run
    <3> QED
      BY <3>2, <3>3 DEF Kernel!isaVars
  <2>5. CASE Jump!Decide
    BY <1>1, <2>1, <2>5, DecideBranches DEF Kernel!Next
  <2> QED
    BY <1>4, <2>2, <2>3, <2>4, <2>5 DEF TranslateJump, Jump!Next
<1>5. CASE TranslateCall
  BY <1>2, <1>5 DEF TranslateCall, aluVars, jumpVars
<1>6. CASE UNCHANGED vars
  BY <1>2, <1>6 DEF vars, aluVars, jumpVars
<1> QED
  BY <1>3, <1>4, <1>5, <1>6 DEF Next

(* What the emitted operations do is what the instruction does: they leave *)
(* its result in its destination and the other registers as they were, and *)
(* the tested entry selects the target exactly when the kernel jumps, for  *)
(* all register values, immediates and numbers of registers and of scratch *)
(* headers, and for every size of a byte that is a power of two            *)
(* (translate_alu, emit_arsh_const, emit_bswap, emit_condition).  Of the   *)
(* instructions with an off field this is false, see AcceptedMeansSame.    *)
THEOREM InstructionRefines == Spec /\ NoOff => Implements
<1>1. Init => CodeInv /\ Kernel!Init
  BY CodeInit, KernelInit
<1> QED
  BY <1>1, CodeNext, NoOffStays, KernelNext, PTL DEF Spec, Implements, Kernel!Spec
=============================================================================
