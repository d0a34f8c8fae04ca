-------------------------- MODULE ResponsesProofs --------------------------
(***************************************************************************)
(* What holds of Responses for any output of a command and any template.   *)
(***************************************************************************)
EXTENDS Responses, Induction, SequenceTheorems

-----------------------------------------------------------------------------
(* Addresses.                                                              *)

(* The keys there are: strings, and these literals, which the provers do   *)
(* not know to be in STRING.                                               *)
AllKeys == STRING \cup {"parsed_output", "stdout", "exit_code", "static"}

AllParts == ({"dict"} \X AllKeys) \cup ({"list"} \X Nat)

Addresses == Seq(AllParts)

LEMMA DataAddresses == Seq(Parts) \subseteq Addresses
<1>1. Parts \subseteq AllParts
  BY DEF Parts, AllParts, AllKeys
<1>2. QED
  BY <1>1, SeqMonotonic DEF Addresses

(* What is left of a sequence below one of its prefixes.                   *)
Below(a, c) == SubSeq(c, Len(a) + 1, Len(c))

LEMMA BelowConcat ==
  ASSUME NEW a \in Addresses, NEW b \in Addresses
  PROVE  /\ a \o b \in Addresses
         /\ Len(a \o b) = Len(a) + Len(b)
         /\ IsPrefix(a, a \o b)
         /\ Below(a, a \o b) = b
<1>1. /\ a \o b \in Addresses
      /\ Len(a \o b) = Len(a) + Len(b)
      /\ \A i \in 1..Len(a) + Len(b) : (a \o b)[i] = IF i <= Len(a) THEN a[i] ELSE b[i - Len(a)]
  BY ConcatProperties DEF Addresses
<1>2. Len(a) \in Nat /\ Len(b) \in Nat
  BY LenProperties DEF Addresses
<1>3. \A i \in 1..Len(a) : (a \o b)[i] = a[i]
  BY <1>1, <1>2
<1>4. SubSeq(a \o b, 1, Len(a)) = SubSeq(a, 1, Len(a))
  BY <1>1, <1>2, <1>3, SubSeqProperties, SeqEqual DEF Addresses
<1>5. IsPrefix(a, a \o b)
  BY <1>1, <1>2, <1>4 DEF IsPrefix
<1>6. Below(a, a \o b) = b
  BY <1>1, <1>2, SubSeqProperties, SeqEqual DEF Addresses, Below
<1>7. QED
  BY <1>1, <1>5, <1>6

LEMMA ConcatBelow ==
  ASSUME NEW a \in Addresses, NEW c \in Addresses, IsPrefix(a, c)
  PROVE  Below(a, c) \in Addresses /\ a \o Below(a, c) = c
<1>1. Len(a) \in Nat /\ Len(c) \in Nat /\ Len(a) <= Len(c)
  BY LenProperties DEF Addresses, IsPrefix
<1>2. SubSeq(a, 1, Len(a)) = a
  BY SubSeqFull DEF Addresses
<1>3. SubSeq(c, 1, Len(a)) = a
  BY <1>2 DEF IsPrefix
<1>4. SubSeq(c, 1, Len(a)) \o SubSeq(c, Len(a) + 1, Len(c)) = SubSeq(c, 1, Len(c))
  <2>1. 1 \in 1..Len(c) + 1 /\ Len(a) \in (1 - 1)..Len(c) /\ Len(c) \in Len(a)..Len(c)
    BY <1>1
  <2>2. QED
    BY <2>1, ConcatAdjacentSubSeq DEF Addresses
<1>5. SubSeq(c, 1, Len(c)) = c
  BY SubSeqFull DEF Addresses
<1>6. Below(a, c) \in Addresses
  <2>1. \A i \in Len(a) + 1..Len(c) : c[i] \in AllParts
    BY <1>1, ElementOfSeq DEF Addresses
  <2>2. QED
    BY <1>1, <2>1, SubSeqProperties DEF Addresses, Below
<1>7. QED
  BY <1>3, <1>4, <1>5, <1>6 DEF Below

(* Of two prefixes of one address, the shorter is a prefix of the longer.  *)
LEMMA PrefixesNest ==
  ASSUME NEW a \in Addresses, NEW b \in Addresses, NEW c \in Addresses, NEW d \in Addresses,
         a \o b = c \o d
  PROVE  /\ \A i \in 1..Len(a) : Len(a) <= Len(c) => a[i] = c[i]
         /\ Len(a) < Len(c) => a = SubSeq(c, 1, Len(a)) /\ b # <<>>
<1>1. /\ Len(a) \in Nat /\ Len(b) \in Nat /\ Len(c) \in Nat /\ Len(d) \in Nat
      /\ Len(a) + Len(b) = Len(c) + Len(d)
  BY LenProperties, BelowConcat DEF Addresses
<1>2. \A i \in 1..Len(a) + Len(b) : (a \o b)[i] = IF i <= Len(a) THEN a[i] ELSE b[i - Len(a)]
  BY ConcatProperties DEF Addresses
<1>3. \A i \in 1..Len(c) + Len(d) : (c \o d)[i] = IF i <= Len(c) THEN c[i] ELSE d[i - Len(c)]
  BY ConcatProperties DEF Addresses
<1>4. ASSUME Len(a) <= Len(c) PROVE \A i \in 1..Len(a) : a[i] = c[i]
  BY <1>1, <1>2, <1>3, <1>4
<1>5. ASSUME Len(a) < Len(c) PROVE a = SubSeq(c, 1, Len(a)) /\ b # <<>>
  <2>1. /\ SubSeq(c, 1, Len(a)) \in Addresses
        /\ Len(SubSeq(c, 1, Len(a))) = Len(a)
        /\ \A i \in 1..Len(a) : SubSeq(c, 1, Len(a))[i] = c[i]
    <3>1. \A i \in 1..Len(a) : c[i] \in AllParts
      BY <1>1, <1>5, ElementOfSeq DEF Addresses
    <3>2. QED
      BY <1>1, <1>5, <3>1, SubSeqProperties DEF Addresses
  <2>2. a = SubSeq(c, 1, Len(a))
    BY <1>1, <1>4, <1>5, <2>1, SeqEqual DEF Addresses
  <2>3. QED
    BY <1>1, <1>5, <2>2
<1>6. QED
  BY <1>4, <1>5

LEMMA SplitSame ==
  ASSUME NEW a \in Addresses, NEW b \in Addresses, NEW c \in Addresses, NEW d \in Addresses,
         a \o b = c \o d, Len(a) = Len(c)
  PROVE  a = c /\ b = d
<1>1. Len(a) \in Nat /\ Len(c) \in Nat
  BY LenProperties DEF Addresses
<1>2. \A i \in 1..Len(a) : a[i] = c[i]
  BY <1>1, PrefixesNest
<1>3. a = c
  BY <1>2, SeqEqual DEF Addresses
<1>4. Below(a, a \o b) = b /\ Below(a, a \o d) = d
  BY BelowConcat
<1>5. a \o b = a \o d
  BY <1>3
<1>6. QED
  BY <1>3, <1>4, <1>5

LEMMA FrontOfPrefix ==
  ASSUME NEW a \in Addresses, NEW n \in 1..Len(a)
  PROVE  /\ SubSeq(a, 1, n) \in Addresses /\ Len(SubSeq(a, 1, n)) = n
         /\ SubSeq(a, 1, n) # <<>>
         /\ Front(SubSeq(a, 1, n)) = SubSeq(a, 1, n - 1)
         /\ Last(SubSeq(a, 1, n)) = a[n]
<1> DEFINE p == SubSeq(a, 1, n)
<1>1. Len(a) \in Nat
  BY LenProperties DEF Addresses
<1>2. \A i \in 1..n : a[i] \in AllParts
  BY <1>1, ElementOfSeq DEF Addresses
<1>3. p \in Addresses /\ Len(p) = n /\ \A i \in 1..n : p[i] = a[i]
  BY <1>2, SubSeqProperties DEF Addresses
<1> HIDE DEF p
<1>4. /\ SubSeq(p, 1, n - 1) \in Addresses /\ Len(SubSeq(p, 1, n - 1)) = n - 1
      /\ \A i \in 1..n - 1 : SubSeq(p, 1, n - 1)[i] = a[i]
  <2>1. \A i \in 1..n - 1 : p[i] \in AllParts /\ p[i] = a[i]
    BY <1>2, <1>3
  <2>2. QED
    BY <2>1, SubSeqProperties DEF Addresses
<1>5. /\ SubSeq(a, 1, n - 1) \in Addresses /\ Len(SubSeq(a, 1, n - 1)) = n - 1
      /\ \A i \in 1..n - 1 : SubSeq(a, 1, n - 1)[i] = a[i]
  BY <1>2, SubSeqProperties DEF Addresses
<1>6. SubSeq(p, 1, n - 1) = SubSeq(a, 1, n - 1)
  BY <1>4, <1>5, SeqEqual DEF Addresses
<1>7. p # <<>>
  BY <1>3
<1>8. QED
  BY <1>3, <1>6, <1>7 DEF Front, Last, p

-----------------------------------------------------------------------------
(* Trees.                                                                  *)

(* What a value always is, data or made of data by the handler.            *)
IsTree(value) ==
  /\ value = [a \in DOMAIN value |-> value[a]]
  /\ <<>> \in DOMAIN value
  /\ DOMAIN value \subseteq Addresses
  /\ \A a \in DOMAIN value \ {<<>>} :
       Front(a) \in DOMAIN value /\ value[Front(a)] = <<Last(a)[1]>>

LEMMA DataIsTree ==
  ASSUME NEW value, IsData(value)
  PROVE  IsTree(value)
  BY DataAddresses DEF IsData, IsTree

(* Every prefix of the address of a node is that of a dict or list, as the *)
(* part after it says.                                                     *)
LEMMA TreePrefix ==
  ASSUME NEW value, IsTree(value), NEW a \in DOMAIN value, NEW n \in Nat, n < Len(a)
  PROVE  SubSeq(a, 1, n) \in DOMAIN value /\ value[SubSeq(a, 1, n)] = <<a[n + 1][1]>>
<1> DEFINE N == {k \in Nat : k <= Len(a) => SubSeq(a, 1, Len(a) - k) \in DOMAIN value}
<1>1. a \in Addresses /\ Len(a) \in Nat
  BY LenProperties DEF Addresses, IsTree
<1>2. 0 \in N
  <2>1. Len(a) - 0 = Len(a) /\ SubSeq(a, 1, Len(a)) = a
    BY <1>1, SubSeqFull DEF Addresses
  <2>2. QED
    BY <2>1
<1>3. ASSUME NEW k \in Nat, k \in N PROVE k + 1 \in N
  <2> SUFFICES ASSUME k + 1 <= Len(a)
               PROVE  SubSeq(a, 1, Len(a) - (k + 1)) \in DOMAIN value
    OBVIOUS
  <2>1. Len(a) - k \in 1..Len(a) /\ Len(a) - (k + 1) = (Len(a) - k) - 1
    BY <1>1
  <2>2. SubSeq(a, 1, Len(a) - k) \in DOMAIN value
    BY <1>1, <1>3
  <2> DEFINE p == SubSeq(a, 1, Len(a) - k)
  <2>3. p # <<>> /\ Front(p) = SubSeq(a, 1, Len(a) - (k + 1))
    BY <1>1, <2>1, FrontOfPrefix
  <2> HIDE DEF p
  <2>4. p \in DOMAIN value
    BY <2>2 DEF p
  <2>5. QED
    BY <2>3, <2>4 DEF IsTree
<1>4. Nat \subseteq N
  <2> HIDE DEF N
  <2>1. QED
    BY <1>2, <1>3, NumberInduction
<1>5. \A m \in 0..Len(a) : SubSeq(a, 1, m) \in DOMAIN value
  <2> SUFFICES ASSUME NEW m \in 0..Len(a) PROVE SubSeq(a, 1, m) \in DOMAIN value
    OBVIOUS
  <2>1. Len(a) - m \in N /\ Len(a) - m <= Len(a) /\ Len(a) - (Len(a) - m) = m
    BY <1>1, <1>4
  <2>2. QED
    BY <2>1
<1>6. n + 1 \in 1..Len(a) /\ (n + 1) - 1 = n /\ n \in 0..Len(a)
  BY <1>1
<1>7. SubSeq(a, 1, n + 1) \in DOMAIN value
  BY <1>5, <1>6
<1>8. SubSeq(a, 1, n) \in DOMAIN value
  BY <1>5, <1>6
<1> DEFINE p == SubSeq(a, 1, n + 1)
<1>9. p # <<>> /\ Front(p) = SubSeq(a, 1, n) /\ Last(p) = a[n + 1]
  BY <1>1, <1>6, FrontOfPrefix
<1> HIDE DEF p
<1>10. p \in DOMAIN value
  BY <1>7 DEF p
<1>11. QED
  BY <1>8, <1>9, <1>10 DEF IsTree

(* A node that is no dict or list has no children.                         *)
LEMMA LeavesEnd ==
  ASSUME NEW value, IsTree(value), NEW a \in DOMAIN value, NEW b \in Addresses,
         a \o b \in DOMAIN value, b # <<>>
  PROVE  value[a][1] \in {"dict", "list"}
<1>1. a \in Addresses /\ Len(a) \in Nat /\ Len(b) \in Nat /\ Len(b) > 0
  BY EmptySeq, LenProperties DEF Addresses, IsTree
<1>2. Len(a \o b) = Len(a) + Len(b) /\ IsPrefix(a, a \o b) /\ a \o b \in Addresses
  BY <1>1, BelowConcat
<1>3. SubSeq(a \o b, 1, Len(a)) = a
  BY <1>1, <1>2, SubSeqFull DEF IsPrefix, Addresses
<1>4. value[a] = <<(a \o b)[Len(a) + 1][1]>>
  <2> DEFINE c == a \o b
  <2>1. c \in DOMAIN value /\ Len(a) < Len(c) /\ SubSeq(c, 1, Len(a)) = a
    BY <1>1, <1>2, <1>3
  <2> HIDE DEF c
  <2>2. value[SubSeq(c, 1, Len(a))] = <<c[Len(a) + 1][1]>>
    BY <1>1, <2>1, TreePrefix
  <2>3. value[a] = <<c[Len(a) + 1][1]>>
    BY <2>1, <2>2
  <2>4. QED
    BY <2>3 DEF c
<1>5. (a \o b)[Len(a) + 1] \in AllParts
  BY <1>1, <1>2, ElementOfSeq DEF Addresses
<1>6. QED
  BY <1>4, <1>5 DEF AllParts

(* What At is: the nodes below an address, with what is left of theirs.    *)
LEMMA AtIs ==
  ASSUME NEW value, DOMAIN value \subseteq Addresses, NEW a \in Addresses
  PROVE  /\ At(value, a) = [b \in DOMAIN At(value, a) |-> At(value, a)[b]]
         /\ \A b : b \in DOMAIN At(value, a) <=> b \in Addresses /\ a \o b \in DOMAIN value
         /\ \A b \in DOMAIN At(value, a) : At(value, a)[b] = value[a \o b]
<1> DEFINE below == {c \in DOMAIN value : IsPrefix(a, c)}
           rest == {Below(a, c) : c \in below}
<1>1. At(value, a) = [b \in rest |-> value[a \o b]]
  BY Zenon DEF At, Below
<1>2. ASSUME NEW c \in below PROVE Below(a, c) \in {b \in Addresses : a \o b \in DOMAIN value}
  BY ConcatBelow
<1>3. ASSUME NEW b \in Addresses, a \o b \in DOMAIN value PROVE b \in rest
  <2>1. a \o b \in below /\ Below(a, a \o b) = b
    BY <1>3, BelowConcat
  <2>2. QED
    BY <2>1
<1>4. rest = {b \in Addresses : a \o b \in DOMAIN value}
  BY <1>2, <1>3
<1> HIDE DEF rest
<1>5. /\ At(value, a) = [b \in DOMAIN At(value, a) |-> At(value, a)[b]]
      /\ DOMAIN At(value, a) = rest
      /\ \A b \in DOMAIN At(value, a) : At(value, a)[b] = value[a \o b]
  BY <1>1
<1>6. QED
  BY <1>4, <1>5

LEMMA SameAt ==
  ASSUME NEW value, DOMAIN value \subseteq Addresses, NEW a \in Addresses,
         NEW tree, tree = [b \in DOMAIN tree |-> tree[b]], DOMAIN tree \subseteq Addresses,
         \A b \in Addresses : a \o b \in DOMAIN value <=> b \in DOMAIN tree,
         \A b \in DOMAIN tree : value[a \o b] = tree[b]
  PROVE  At(value, a) = tree
<1>1. DOMAIN At(value, a) = DOMAIN tree
  BY AtIs
<1>2. \A b \in DOMAIN tree : At(value, a)[b] = tree[b]
  BY <1>1, AtIs
<1>3. At(value, a) = [b \in DOMAIN tree |-> tree[b]]
  BY <1>1, <1>2, AtIs, Zenon
<1>4. QED
  BY <1>3, Zenon

LEMMA AtTop ==
  ASSUME NEW value, IsTree(value)
  PROVE  At(value, <<>>) = value
<1>1. <<>> \in Addresses /\ \A b \in Addresses : <<>> \o b = b
  BY EmptySeq, ConcatEmptySeq DEF Addresses
<1>2. /\ value = [b \in DOMAIN value |-> value[b]] /\ DOMAIN value \subseteq Addresses
      /\ \A b \in Addresses : <<>> \o b \in DOMAIN value <=> b \in DOMAIN value
      /\ \A b \in DOMAIN value : value[<<>> \o b] = value[b]
  BY <1>1 DEF IsTree
<1>3. QED
  BY <1>1, <1>2, SameAt, Zenon

LEMMA AtAt ==
  ASSUME NEW value, DOMAIN value \subseteq Addresses, NEW a \in Addresses, NEW b \in Addresses
  PROVE  At(At(value, a), b) = At(value, a \o b)
<1>1. a \o b \in Addresses
  BY BelowConcat
<1>2. /\ DOMAIN At(value, a) \subseteq Addresses
      /\ \A c : c \in DOMAIN At(value, a) <=> c \in Addresses /\ a \o c \in DOMAIN value
      /\ \A c \in DOMAIN At(value, a) : At(value, a)[c] = value[a \o c]
  BY AtIs
<1>3. \A c \in Addresses : (a \o b) \o c = a \o (b \o c) /\ b \o c \in Addresses
  BY ConcatAssociative, BelowConcat DEF Addresses
<1> DEFINE tree == At(value, a \o b)
<1>4. /\ tree = [c \in DOMAIN tree |-> tree[c]]
      /\ \A c : c \in DOMAIN tree <=> c \in Addresses /\ (a \o b) \o c \in DOMAIN value
      /\ \A c \in DOMAIN tree : tree[c] = value[(a \o b) \o c]
  BY <1>1, AtIs
<1> HIDE DEF tree
<1>5. \A c \in Addresses : b \o c \in DOMAIN At(value, a) <=> c \in DOMAIN tree
  BY <1>2, <1>3, <1>4, Zenon
<1>6. \A c \in DOMAIN tree : At(value, a)[b \o c] = tree[c]
  BY <1>2, <1>3, <1>4, <1>5, Zenon
<1>7. DOMAIN tree \subseteq Addresses
  BY <1>4
<1>8. At(At(value, a), b) = tree
  BY <1>2, <1>4, <1>5, <1>6, <1>7, SameAt, Zenon
<1>9. QED
  BY <1>8 DEF tree

(* The top of what is found at the address of a node.                      *)
LEMMA AtNode ==
  ASSUME NEW value, DOMAIN value \subseteq Addresses, NEW a \in DOMAIN value
  PROVE  <<>> \in DOMAIN At(value, a) /\ At(value, a)[<<>>] = value[a]
<1>1. <<>> \in Addresses /\ a \o <<>> = a
  BY EmptySeq, ConcatEmptySeq DEF Addresses
<1>2. /\ \A b : b \in DOMAIN At(value, a) <=> b \in Addresses /\ a \o b \in DOMAIN value
      /\ \A b \in DOMAIN At(value, a) : At(value, a)[b] = value[a \o b]
  BY AtIs
<1>3. <<>> \in DOMAIN At(value, a)
  BY <1>1, <1>2
<1>4. QED
  BY <1>1, <1>2, <1>3

(* A part as an address.                                                   *)
LEMMA OnePart ==
  ASSUME NEW part \in AllParts
  PROVE  /\ <<part>> \in Addresses /\ Len(<<part>>) = 1 /\ <<part>>[1] = part
         /\ \A b \in Addresses : /\ <<part>> \o b # <<>>
                                 /\ (<<part>> \o b)[1] = part
                                 /\ Tail(<<part>> \o b) = b
<1>1. <<part>> \in Addresses /\ Len(<<part>>) = 1 /\ <<part>>[1] = part
  BY DEF Addresses
<1> DEFINE one == <<part>>
<1>2. one \in Addresses /\ Len(one) = 1 /\ one[1] = part
  BY <1>1
<1> HIDE DEF one
<1>3. ASSUME NEW b \in Addresses
      PROVE  one \o b # <<>> /\ (one \o b)[1] = part /\ Tail(one \o b) = b
  <2>1. /\ one \o b \in Addresses /\ Len(one \o b) = 1 + Len(b) /\ Len(b) \in Nat
        /\ \A i \in 1..1 + Len(b) : (one \o b)[i] = IF i <= 1 THEN one[i] ELSE b[i - 1]
    <3>1. /\ one \o b \in Seq(AllParts) /\ Len(one \o b) = Len(one) + Len(b)
          /\ \A i \in 1..Len(one) + Len(b) :
               (one \o b)[i] = IF i <= Len(one) THEN one[i] ELSE b[i - Len(one)]
      BY <1>2, ConcatProperties, Zenon DEF Addresses
    <3>2. Len(b) \in Nat
      BY LenProperties DEF Addresses
    <3>3. QED
      BY <1>2, <3>1, <3>2 DEF Addresses
  <2>2. one \o b # <<>> /\ (one \o b)[1] = part
    BY <1>2, <2>1
  <2>3. /\ Tail(one \o b) \in Addresses /\ Len(Tail(one \o b)) = Len(b)
        /\ \A i \in 1..Len(b) : Tail(one \o b)[i] = (one \o b)[i + 1]
    BY <2>1, <2>2, HeadTailProperties DEF Addresses
  <2>4. \A i \in 1..Len(b) : Tail(one \o b)[i] = b[i]
    BY <2>1, <2>3
  <2>5. Tail(one \o b) = b
    BY <2>3, <2>4, SeqEqual DEF Addresses
  <2>6. QED
    BY <2>2, <2>5
<1>4. QED
  BY <1>2, <1>3 DEF one

LEMMA FrontIs ==
  ASSUME NEW a \in Addresses, a # <<>>
  PROVE  /\ Front(a) \in Addresses /\ Len(Front(a)) = Len(a) - 1 /\ Len(a) - 1 \in Nat
         /\ \A i \in 1..Len(a) - 1 : Front(a)[i] = a[i]
         /\ Last(a) \in AllParts
<1>1. Len(a) \in Nat /\ Len(a) > 0
  BY EmptySeq, LenProperties DEF Addresses
<1>2. \A i \in 1..Len(a) - 1 : a[i] \in AllParts
  BY <1>1, ElementOfSeq DEF Addresses
<1>3. Last(a) \in AllParts
  BY <1>1, ElementOfSeq DEF Addresses, Last
<1> DEFINE m == Len(a) - 1
<1>4. m \in Nat /\ m = Len(a) - 1
  BY <1>1
<1> HIDE DEF m
<1>5. /\ SubSeq(a, 1, m) \in Addresses /\ Len(SubSeq(a, 1, m)) = m
      /\ \A i \in 1..m : SubSeq(a, 1, m)[i] = a[i]
  BY <1>2, <1>4, SubSeqProperties DEF Addresses
<1>6. Front(a) = SubSeq(a, 1, m)
  BY <1>4 DEF Front
<1>7. QED
  BY <1>3, <1>4, <1>5, <1>6

LEMMA FrontOfConcat ==
  ASSUME NEW a \in Addresses, NEW b \in Addresses, b # <<>>
  PROVE  Front(a \o b) = a \o Front(b) /\ Last(a \o b) = Last(b)
<1> DEFINE c == a \o b
           d == a \o Front(b)
<1>1. Len(a) \in Nat /\ Len(b) \in Nat /\ Len(b) > 0
  BY EmptySeq, LenProperties DEF Addresses
<1>2. /\ c \in Addresses /\ Len(c) = Len(a) + Len(b)
      /\ \A i \in 1..Len(a) + Len(b) : c[i] = IF i <= Len(a) THEN a[i] ELSE b[i - Len(a)]
  BY ConcatProperties, Zenon DEF Addresses
<1>3. /\ Front(b) \in Addresses /\ Len(Front(b)) = Len(b) - 1
      /\ \A i \in 1..Len(b) - 1 : Front(b)[i] = b[i]
  BY <1>1, FrontIs
<1>4. /\ d \in Addresses /\ Len(d) = Len(a) + Len(Front(b))
      /\ \A i \in 1..Len(a) + Len(Front(b)) :
           d[i] = IF i <= Len(a) THEN a[i] ELSE Front(b)[i - Len(a)]
  BY <1>3, ConcatProperties, Zenon DEF Addresses
<1> HIDE DEF c, d
<1>5. c # <<>>
  BY <1>1, <1>2
<1>6. /\ Front(c) \in Addresses /\ Len(Front(c)) = Len(c) - 1
      /\ \A i \in 1..Len(c) - 1 : Front(c)[i] = c[i]
  BY <1>2, <1>5, FrontIs
<1>7. \A i \in 1..Len(d) : Front(c)[i] = d[i]
  <2> SUFFICES ASSUME NEW i \in 1..Len(d) PROVE Front(c)[i] = d[i]
    OBVIOUS
  <2>1. Front(c)[i] = IF i <= Len(a) THEN a[i] ELSE b[i - Len(a)]
    BY <1>1, <1>2, <1>3, <1>4, <1>6
  <2>2. d[i] = IF i <= Len(a) THEN a[i] ELSE Front(b)[i - Len(a)]
    BY <1>1, <1>3, <1>4
  <2>3. ~(i <= Len(a)) => i - Len(a) \in 1..Len(b) - 1
    BY <1>1, <1>3, <1>4
  <2>4. QED
    BY <1>3, <2>1, <2>2, <2>3
<1>8. Len(Front(c)) = Len(d)
  BY <1>1, <1>2, <1>3, <1>4, <1>6
<1>9. Front(c) = d
  BY <1>4, <1>6, <1>7, <1>8, SeqEqual DEF Addresses
<1>10. Last(c) = Last(b)
  BY <1>1, <1>2 DEF Last
<1>11. QED
  BY <1>9, <1>10 DEF c, d

LEMMA FrontOfOne ==
  ASSUME NEW part \in AllParts
  PROVE  Front(<<part>>) = <<>> /\ Last(<<part>>) = part
<1>1. Len(<<part>>) = 1 /\ <<part>>[1] = part
  BY OnePart
<1>2. SubSeq(<<part>>, 1, 0) = <<>>
  BY SubSeqEmpty
<1>3. QED
  BY <1>1, <1>2 DEF Front, Last

(* Each node of a tree but the top is one of these children's.             *)
MadeOf(tree, type, children) ==
  \A a \in DOMAIN tree \ {<<>>} :
    \E k \in DOMAIN children : \E b \in DOMAIN children[k] :
      a = << <<type, k>> >> \o b /\ tree[a] = children[k][b]

(* What Branch makes of trees.                                             *)
LEMMA BranchIs ==
  ASSUME NEW type \in {"dict", "list"}, NEW children,
         \A k \in DOMAIN children : IsTree(children[k]) /\ <<type, k>> \in AllParts
  PROVE  /\ IsTree(Branch(type, children))
         /\ Branch(type, children)[<<>>] = <<type>>
         /\ \A k \in DOMAIN children :
              /\ << <<type, k>> >> \in DOMAIN Branch(type, children)
              /\ At(Branch(type, children), << <<type, k>> >>) = children[k]
         /\ MadeOf(Branch(type, children), type, children)
<1> DEFINE tree == Branch(type, children)
           under(k) == {<< <<type, k>> >> \o a : a \in DOMAIN children[k]}
           all == {<<>>} \cup UNION {under(k) : k \in DOMAIN children}
<1>1. tree = [a \in all |-> IF a = <<>> THEN <<type>> ELSE children[a[1][2]][Tail(a)]]
  BY Zenon DEF Branch
<1> HIDE DEF tree
<1>2. tree = [a \in DOMAIN tree |-> tree[a]] /\ DOMAIN tree = all
  BY <1>1
<1>3. <<>> \in DOMAIN tree /\ tree[<<>>] = <<type>>
  BY <1>1
<1>4. ASSUME NEW k \in DOMAIN children, NEW b \in Addresses
      PROVE  /\ << <<type, k>> >> \o b \in Addresses
             /\ << <<type, k>> >> \o b # <<>>
             /\ (<< <<type, k>> >> \o b)[1] = <<type, k>>
             /\ Tail(<< <<type, k>> >> \o b) = b
  BY OnePart, BelowConcat
<1>5. ASSUME NEW k \in DOMAIN children, NEW b \in DOMAIN children[k]
      PROVE  /\ << <<type, k>> >> \o b \in DOMAIN tree
             /\ tree[<< <<type, k>> >> \o b] = children[k][b]
  <2>1. << <<type, k>> >> \o b \in all
    OBVIOUS
  <2>2. b \in Addresses
    BY DEF IsTree
  <2>3. tree[<< <<type, k>> >> \o b] = children[(<<type, k>>)[2]][b]
    BY <1>1, <1>4, <2>1, <2>2
  <2>4. QED
    BY <1>2, <2>1, <2>3
<1>6. ASSUME NEW a \in DOMAIN tree, a # <<>>
      PROVE  \E k \in DOMAIN children : \E b \in DOMAIN children[k] : a = << <<type, k>> >> \o b
  BY <1>2, <1>6
<1>7. DOMAIN tree \subseteq Addresses
  <2> SUFFICES ASSUME NEW a \in DOMAIN tree, a # <<>> PROVE a \in Addresses
    BY EmptySeq DEF Addresses
  <2>1. PICK k \in DOMAIN children : \E b \in DOMAIN children[k] : a = << <<type, k>> >> \o b
    BY <1>6
  <2>2. PICK b \in DOMAIN children[k] : a = << <<type, k>> >> \o b
    BY <2>1
  <2>3. b \in Addresses
    BY DEF IsTree
  <2>4. QED
    BY <1>4, <2>2, <2>3
<1>8. ASSUME NEW k \in DOMAIN children, NEW b \in Addresses, << <<type, k>> >> \o b \in DOMAIN tree
      PROVE  b \in DOMAIN children[k]
  <2> DEFINE a == << <<type, k>> >> \o b
  <2>1. a \in DOMAIN tree /\ a # <<>> /\ a[1] = <<type, k>> /\ Tail(a) = b
    BY <1>4, <1>8
  <2> HIDE DEF a
  <2>2. PICK j \in DOMAIN children : \E c \in DOMAIN children[j] : a = << <<type, j>> >> \o c
    BY <1>6, <2>1
  <2>3. PICK c \in DOMAIN children[j] : a = << <<type, j>> >> \o c
    BY <2>2
  <2>4. c \in Addresses
    BY DEF IsTree
  <2>5. <<type, j>> = <<type, k>> /\ c = b
    BY <1>4, <2>1, <2>3, <2>4
  <2>6. j = k
    BY <2>5
  <2>7. QED
    BY <2>5, <2>6
<1>9. ASSUME NEW a \in DOMAIN tree, a # <<>>
      PROVE  Front(a) \in DOMAIN tree /\ tree[Front(a)] = <<Last(a)[1]>>
  <2>1. PICK k \in DOMAIN children : \E b \in DOMAIN children[k] : a = << <<type, k>> >> \o b
    BY <1>6, <1>9
  <2>2. PICK b \in DOMAIN children[k] : a = << <<type, k>> >> \o b
    BY <2>1
  <2>3. b \in Addresses /\ <<type, k>> \in AllParts /\ << <<type, k>> >> \in Addresses
    BY OnePart DEF IsTree
  <2>4. CASE b = <<>>
    <3>1. a = << <<type, k>> >>
      BY <2>2, <2>3, <2>4, ConcatEmptySeq DEF Addresses
    <3>2. Front(a) = <<>> /\ Last(a) = <<type, k>>
      BY <2>3, <3>1, FrontOfOne
    <3>3. QED
      BY <1>3, <3>2
  <2>5. CASE b # <<>>
    <3>1. Front(a) = << <<type, k>> >> \o Front(b) /\ Last(a) = Last(b)
      BY <2>2, <2>3, <2>5, FrontOfConcat
    <3>2. Front(b) \in DOMAIN children[k] /\ children[k][Front(b)] = <<Last(b)[1]>>
      BY <2>5 DEF IsTree
    <3>3. QED
      BY <1>5, <3>1, <3>2
  <2>6. QED
    BY <2>4, <2>5
<1>10. IsTree(tree)
  BY <1>2, <1>3, <1>7, <1>9 DEF IsTree
<1>11. ASSUME NEW k \in DOMAIN children
       PROVE  /\ << <<type, k>> >> \in DOMAIN tree
              /\ At(tree, << <<type, k>> >>) = children[k]
  <2>1. << <<type, k>> >> \in Addresses
    BY OnePart
  <2>2. /\ children[k] = [b \in DOMAIN children[k] |-> children[k][b]]
        /\ DOMAIN children[k] \subseteq Addresses
        /\ <<>> \in DOMAIN children[k]
    BY DEF IsTree
  <2>3. At(tree, << <<type, k>> >>) = children[k]
    <3>1. \A b \in Addresses : << <<type, k>> >> \o b \in DOMAIN tree <=> b \in DOMAIN children[k]
      BY <1>5, <1>8
    <3>2. \A b \in DOMAIN children[k] : tree[<< <<type, k>> >> \o b] = children[k][b]
      BY <1>5
    <3>3. QED
      BY <1>7, <2>1, <2>2, <3>1, <3>2, SameAt, Zenon
  <2>4. << <<type, k>> >> \o <<>> = << <<type, k>> >>
    BY <2>1, ConcatEmptySeq DEF Addresses
  <2>5. << <<type, k>> >> \in DOMAIN tree
    BY <1>5, <2>2, <2>4
  <2>6. QED
    BY <2>3, <2>5
<1>12. \A a \in DOMAIN tree \ {<<>>} :
         \E k \in DOMAIN children : \E b \in DOMAIN children[k] :
           a = << <<type, k>> >> \o b /\ tree[a] = children[k][b]
  <2> SUFFICES ASSUME NEW a \in DOMAIN tree, a # <<>>
               PROVE  \E k \in DOMAIN children : \E b \in DOMAIN children[k] :
                        a = << <<type, k>> >> \o b /\ tree[a] = children[k][b]
    OBVIOUS
  <2>1. PICK k \in DOMAIN children : \E b \in DOMAIN children[k] : a = << <<type, k>> >> \o b
    BY <1>6
  <2>2. PICK b \in DOMAIN children[k] : a = << <<type, k>> >> \o b
    BY <2>1
  <2>3. tree[a] = children[k][b]
    BY <1>5, <2>2
  <2>4. QED
    BY <2>2, <2>3
<1>13. MadeOf(tree, type, children)
  BY <1>12, Zenon DEF MadeOf
<1>14. QED
  BY <1>3, <1>10, <1>11, <1>13 DEF tree

(* The texts of a value are sequences of what a text can hold.             *)
HasTexts(value) ==
  \A a \in DOMAIN value : value[a][1] = "text" => value[a][2] \in Seq(DataPieces)

LEMMA DataHasTexts ==
  ASSUME NEW value, IsData(value)
  PROVE  HasTexts(value)
<1> SUFFICES ASSUME NEW a \in DOMAIN value, value[a][1] = "text"
             PROVE  value[a][2] \in Seq(DataPieces)
  BY DEF HasTexts
<1> DEFINE node == value[a]
<1>1. node \in DataNodes /\ node[1] = "text"
  BY DEF IsData
<1> HIDE DEF node
<1>2. node \in {"text"} \X Seq(DataPieces)
  BY <1>1 DEF DataNodes, Null, Nan, Deep
<1>3. QED
  BY <1>2 DEF node

LEMMA SingleIs ==
  ASSUME NEW node
  PROVE  /\ IsTree(Single(node))
         /\ DOMAIN Single(node) = {<<>>} /\ Single(node)[<<>>] = node
  BY EmptySeq DEF Single, IsTree, Addresses

LEMMA BranchHasTexts ==
  ASSUME NEW type \in {"dict", "list"}, NEW children,
         \A k \in DOMAIN children :
           IsTree(children[k]) /\ HasTexts(children[k]) /\ <<type, k>> \in AllParts
  PROVE  IsTree(Branch(type, children)) /\ HasTexts(Branch(type, children))
<1> DEFINE tree == Branch(type, children)
<1>1. \A k \in DOMAIN children : IsTree(children[k]) /\ <<type, k>> \in AllParts
  OBVIOUS
<1>2. IsTree(tree)
  BY <1>1, BranchIs
<1>3. tree[<<>>] = <<type>>
  BY <1>1, BranchIs
<1>4. MadeOf(tree, type, children)
  BY <1>1, BranchIs
<1> HIDE DEF tree
<1>5. \A a \in DOMAIN tree : tree[a][1] = "text" => tree[a][2] \in Seq(DataPieces)
  <2> SUFFICES ASSUME NEW a \in DOMAIN tree, tree[a][1] = "text"
               PROVE  tree[a][2] \in Seq(DataPieces)
    OBVIOUS
  <2>1. a # <<>>
    BY <1>3
  <2>2. PICK k \in DOMAIN children : \E b \in DOMAIN children[k] : tree[a] = children[k][b]
    BY <1>4, <2>1 DEF MadeOf
  <2>3. HasTexts(children[k])
    OBVIOUS
  <2>4. QED
    BY <2>2, <2>3 DEF HasTexts
<1>6. QED
  BY <1>2, <1>5 DEF HasTexts, tree

-----------------------------------------------------------------------------
(* The context.                                                            *)

(* The state once the output has been understood.                          *)
Understood ==
  output \in Outputs /\ print \in Prints /\ ~Malformed /\ ~Breaks /\ parsed = Parsed

LEMMA SomeDataIs ==
  ASSUME NEW values, SomeData(values)
  PROVE  /\ Len(values) \in Nat /\ DOMAIN values = 1..Len(values)
         /\ values # <<>> => 1 \in DOMAIN values
         /\ \A i \in DOMAIN values :
              /\ IsTree(values[i]) /\ HasTexts(values[i])
              /\ <<"list", i>> \in AllParts
<1>1. values \in Seq(Range(values))
  BY DEF SomeData
<1>2. Len(values) \in Nat /\ DOMAIN values = 1..Len(values)
  BY <1>1, LenProperties
<1>3. values # <<>> => 1 \in DOMAIN values
  BY <1>1, <1>2, EmptySeq
<1>4. \A i \in DOMAIN values : IsData(values[i])
  BY DEF SomeData, Range
<1>5. \A i \in DOMAIN values : <<"list", i>> \in AllParts
  BY <1>2 DEF AllParts
<1>6. QED
  BY <1>2, <1>3, <1>4, <1>5, DataIsTree, DataHasTexts

LEMMA ParsedIs ==
  ASSUME output \in Outputs, print \in Prints, ~Malformed, ~Breaks
  PROVE  IsTree(Parsed) /\ HasTexts(Parsed)
<1>1. SomeData(print.json) /\ SomeData(print.matches)
  BY ResponsesAssumption
<1>2. CASE output.mode = "text"
  <2>1. IsTree(Single(Null)) /\ HasTexts(Single(Null))
    BY SingleIs DEF HasTexts, Null
  <2>2. QED
    BY <1>2, <2>1 DEF Parsed
<1>3. CASE output.mode = "native_json"
  <2>1. print.json # <<>>
    BY <1>3 DEF Malformed
  <2>2. IsTree(print.json[1]) /\ HasTexts(print.json[1])
    BY <1>1, <2>1, SomeDataIs
  <2>3. QED
    BY <1>3, <2>2 DEF Parsed
<1>4. CASE output.mode = "regex_json"
  <2>1. print.matches # <<>>
    BY <1>4 DEF Malformed, Breaks
  <2>2. IsTree(print.matches[1]) /\ HasTexts(print.matches[1])
    BY <1>1, <2>1, SomeDataIs
  <2>3. IsTree(List(print.matches)) /\ HasTexts(List(print.matches))
    BY <1>1, SomeDataIs, BranchHasTexts DEF List
  <2>4. QED
    BY <1>4, <2>2, <2>3 DEF Parsed
<1>5. QED
  BY <1>2, <1>3, <1>4 DEF Outputs

LEMMA ContextIs ==
  ASSUME Understood
  PROVE  IsTree(Context) /\ HasTexts(Context) /\ Context[<<>>] = <<"dict">>
<1> DEFINE fields ==
      [parsed_output |-> parsed, stdout |-> print.stdout, exit_code |-> Single(Number(0)),
       static |-> Static]
<1>1. IsTree(parsed) /\ HasTexts(parsed)
  BY ParsedIs DEF Understood
<1>2. IsTree(print.stdout) /\ HasTexts(print.stdout) /\ IsTree(Static) /\ HasTexts(Static)
  BY ResponsesAssumption, DataIsTree, DataHasTexts DEF Understood
<1>3. IsTree(Single(Number(0))) /\ HasTexts(Single(Number(0)))
  BY SingleIs DEF HasTexts, Number
<1>4. \A k \in {"parsed_output", "stdout", "exit_code", "static"} : <<"dict", k>> \in AllParts
  BY DEF AllParts, AllKeys
<1>5. \A k \in DOMAIN fields :
        IsTree(fields[k]) /\ HasTexts(fields[k]) /\ <<"dict", k>> \in AllParts
  BY <1>1, <1>2, <1>3, <1>4
<1>6. Context = Branch("dict", fields)
  BY Zenon DEF Context, Dict
<1> HIDE DEF fields
<1>7. IsTree(Branch("dict", fields)) /\ Branch("dict", fields)[<<>>] = <<"dict">>
  BY <1>5, BranchIs
<1>8. HasTexts(Branch("dict", fields))
  BY <1>5, BranchHasTexts
<1>9. QED
  BY <1>6, <1>7, <1>8

-----------------------------------------------------------------------------
(* Paths.                                                                  *)

AllPaths == Seq(AllKeys)

LEMMA KeysIs ==
  ASSUME NEW path \in AllPaths
  PROVE  /\ Len(path) \in Nat
         /\ Keys(path) \in Addresses /\ Len(Keys(path)) = Len(path)
         /\ \A i \in 1..Len(path) : Keys(path)[i] = <<"dict", path[i]>>
<1>1. Len(path) \in Nat /\ DOMAIN path = 1..Len(path)
  BY LenProperties DEF AllPaths
<1>2. \A i \in 1..Len(path) : <<"dict", path[i]>> \in AllParts
  BY ElementOfSeq DEF AllPaths, AllParts
<1> DEFINE n == Len(path)
           keys == [i \in 1..n |-> <<"dict", path[i]>>]
<1>3. keys \in [1..n -> AllParts] /\ n \in Nat
  BY <1>1, <1>2
<1>4. Keys(path) = keys
  BY <1>1 DEF Keys
<1>5. keys \in Addresses /\ Len(keys) = n
  BY <1>3 DEF Addresses
<1>6. QED
  BY <1>1, <1>4, <1>5

(* The first n parts.                                                      *)
First(path, n) == SubSeq(path, 1, n)

LEMMA FirstIs ==
  ASSUME NEW path \in AllPaths, NEW n \in 0..Len(path)
  PROVE  /\ First(path, n) \in AllPaths /\ Len(First(path, n)) = n
         /\ \A i \in 1..n : First(path, n)[i] = path[i]
<1>1. Len(path) \in Nat /\ n \in Nat
  BY KeysIs
<1>2. \A i \in 1..n : path[i] \in AllKeys
  BY <1>1, ElementOfSeq DEF AllPaths
<1>3. QED
  BY <1>1, <1>2, SubSeqProperties DEF AllPaths, First

LEMMA KeysOfFirst ==
  ASSUME NEW path \in AllPaths, NEW n \in 0..Len(path)
  PROVE  /\ Keys(First(path, n)) \in Addresses
         /\ Keys(First(path, n)) = SubSeq(Keys(path), 1, n)
<1>1. Len(path) \in Nat /\ n \in Nat
  BY KeysIs
<1>2. /\ First(path, n) \in AllPaths /\ Len(First(path, n)) = n
      /\ \A i \in 1..n : First(path, n)[i] = path[i]
  BY FirstIs
<1>3. /\ Keys(First(path, n)) \in Addresses /\ Len(Keys(First(path, n))) = n
      /\ \A i \in 1..n : Keys(First(path, n))[i] = <<"dict", path[i]>>
  BY <1>2, KeysIs
<1> DEFINE keys == Keys(path)
<1>4. /\ keys \in Addresses /\ Len(keys) = Len(path)
      /\ \A i \in 1..Len(path) : keys[i] = <<"dict", path[i]>>
  BY KeysIs
<1> HIDE DEF keys
<1>5. \A i \in 1..n : keys[i] \in AllParts
  BY <1>1, <1>4, ElementOfSeq DEF Addresses
<1>6. /\ SubSeq(keys, 1, n) \in Addresses /\ Len(SubSeq(keys, 1, n)) = n
      /\ \A i \in 1..n : SubSeq(keys, 1, n)[i] = keys[i]
  BY <1>1, <1>5, SubSeqProperties DEF Addresses
<1>7. Keys(First(path, n)) = SubSeq(keys, 1, n)
  <2> DEFINE left == Keys(First(path, n))
             right == SubSeq(keys, 1, n)
  <2>1. left \in Addresses /\ right \in Addresses /\ Len(left) = n /\ Len(right) = n
    BY <1>3, <1>6
  <2>2. \A i \in 1..n : left[i] = right[i]
    BY <1>1, <1>3, <1>4, <1>6
  <2> HIDE DEF left, right
  <2>3. left = right
    BY <2>1, <2>2, SeqEqual DEF Addresses
  <2>4. QED
    BY <2>3 DEF left, right
<1>8. QED
  BY <1>3, <1>7 DEF keys

LEMMA FirstEnds ==
  ASSUME NEW path \in AllPaths
  PROVE  First(path, Len(path)) = path /\ First(path, 0) = <<>> /\ Keys(<<>>) = <<>>
<1>1. First(path, Len(path)) = path
  BY SubSeqFull DEF AllPaths, First
<1>2. First(path, 0) = <<>>
  BY SubSeqEmpty DEF First
<1>3. <<>> \in AllPaths /\ Len(<<>>) = 0
  BY EmptySeq DEF AllPaths
<1>4. Keys(<<>>) \in Addresses /\ Len(Keys(<<>>)) = 0
  BY <1>3, KeysIs
<1>5. Keys(<<>>) = <<>>
  BY <1>4, EmptySeq DEF Addresses
<1>6. QED
  BY <1>1, <1>2, <1>5

(* One part more.                                                          *)
LEMMA NextPart ==
  ASSUME NEW path \in AllPaths, NEW n \in 1..Len(path)
  PROVE  /\ Keys(<<path[n]>>) \in Addresses
         /\ Keys(First(path, n)) = Keys(First(path, n - 1)) \o Keys(<<path[n]>>)
<1>1. Len(path) \in Nat /\ n \in 0..Len(path) /\ n - 1 \in 0..Len(path) /\ path[n] \in AllKeys
  BY KeysIs, ElementOfSeq DEF AllPaths
<1>2. <<path[n]>> \in AllPaths /\ Len(<<path[n]>>) = 1 /\ <<path[n]>>[1] = path[n]
  BY <1>1 DEF AllPaths
<1> DEFINE one == Keys(<<path[n]>>)
           less == Keys(First(path, n - 1))
           more == Keys(First(path, n))
<1>3. one \in Addresses /\ Len(one) = 1 /\ one[1] = <<"dict", path[n]>>
  <2> DEFINE p == <<path[n]>>
  <2>1. p \in AllPaths /\ Len(p) = 1 /\ p[1] = path[n] /\ 1 \in 1..1
    BY <1>2
  <2> HIDE DEF p
  <2>2. Keys(p) \in Addresses /\ Len(Keys(p)) = 1 /\ Keys(p)[1] = <<"dict", p[1]>>
    BY <2>1, KeysIs
  <2>3. QED
    BY <2>1, <2>2 DEF p
<1>4. /\ less \in Addresses /\ Len(less) = n - 1
      /\ \A i \in 1..n - 1 : less[i] = <<"dict", path[i]>>
  BY <1>1, FirstIs, KeysIs
<1>5. /\ more \in Addresses /\ Len(more) = n
      /\ \A i \in 1..n : more[i] = <<"dict", path[i]>>
  BY <1>1, FirstIs, KeysIs
<1> HIDE DEF one, less, more
<1>6. /\ less \o one \in Addresses /\ Len(less \o one) = Len(less) + Len(one)
      /\ \A i \in 1..Len(less) + Len(one) :
           (less \o one)[i] = IF i <= Len(less) THEN less[i] ELSE one[i - Len(less)]
  BY <1>3, <1>4, ConcatProperties, Zenon DEF Addresses
<1>7. Len(less \o one) = n
  BY <1>1, <1>3, <1>4, <1>6
<1>8. \A i \in 1..n : (less \o one)[i] = more[i]
  <2> SUFFICES ASSUME NEW i \in 1..n PROVE (less \o one)[i] = more[i]
    OBVIOUS
  <2>1. CASE i <= n - 1
    BY <1>3, <1>4, <1>5, <1>6, <2>1
  <2>2. CASE i = n
    <3>1. i \in 1..Len(less) + Len(one) /\ ~(i <= Len(less)) /\ i - Len(less) = 1
      BY <1>1, <1>3, <1>4, <2>2
    <3>2. (less \o one)[i] = one[i - Len(less)]
      BY <1>6, <3>1
    <3>3. (less \o one)[i] = <<"dict", path[n]>>
      BY <1>3, <3>1, <3>2
    <3>4. more[i] = <<"dict", path[n]>>
      BY <1>5, <2>2
    <3>5. QED
      BY <3>3, <3>4
  <2>3. i <= n - 1 \/ i = n
    BY <1>1
  <2>4. QED
    BY <2>1, <2>2, <2>3, Zenon
<1>9. less \o one = more
  BY <1>5, <1>6, <1>7, <1>8, SeqEqual DEF Addresses
<1>10. QED
  BY <1>3, <1>9 DEF one, less, more

-----------------------------------------------------------------------------
(* Where a path leads.                                                     *)

FoundStep(path, found, n) ==
  IF n = 0 THEN <<Context>>
  ELSE IF found[n - 1] = <<>> THEN <<>>
  ELSE Child(found[n - 1][1], path[n])

Found(path) == CHOOSE found : found = [n \in 0..Len(path) |-> FoundStep(path, found, n)]

LEMMA ResolveIsFound ==
  ASSUME NEW path
  PROVE  Resolve(path) = Found(path)[Len(path)]
  BY Zenon DEF Resolve, Found, FoundStep

(* There is such a function: by induction on how far it has been defined.  *)
LEMMA FoundIs ==
  ASSUME NEW path, Len(path) \in Nat
  PROVE  \A n \in 0..Len(path) : Found(path)[n] = FoundStep(path, Found(path), n)
<1> DEFINE S == 0..Len(path)
           Good(found, n) == \A m \in S : m <= n => found[m] = FoundStep(path, found, m)
           Grown(found, n) == [m \in S |-> IF m <= n THEN found[m] ELSE FoundStep(path, found, m)]
           N == {n \in Nat : \E found : found = [m \in S |-> found[m]] /\ Good(found, n)}
<1>1. 0 \in N
  <2> DEFINE found == [m \in S |-> <<Context>>]
  <2>1. found = [m \in S |-> found[m]]
    OBVIOUS
  <2>2. Good(found, 0)
    <3>1. 0 \in S => found[0] = FoundStep(path, found, 0)
      BY DEF FoundStep
    <3>2. \A m \in S : m <= 0 => m = 0
      OBVIOUS
    <3>3. QED
      BY <3>1, <3>2
  <2> HIDE DEF found, Good
  <2>3. \E f : f = [m \in S |-> f[m]] /\ Good(f, 0)
    BY <2>1, <2>2, Zenon
  <2>4. QED
    BY <2>3 DEF Good
<1>2. ASSUME NEW n \in Nat, n \in N PROVE n + 1 \in N
  <2>1. PICK found : found = [m \in S |-> found[m]] /\ Good(found, n)
    BY <1>2
  <2> DEFINE grown == Grown(found, n)
  <2>2. \A m \in S : m <= n => grown[m] = found[m]
    OBVIOUS
  <2>3. \A m \in S : m <= n + 1 => grown[m] = FoundStep(path, found, m)
    <3> SUFFICES ASSUME NEW m \in S, m <= n + 1
                 PROVE  grown[m] = FoundStep(path, found, m)
      OBVIOUS
    <3>1. CASE m <= n
      BY <2>1, <2>2, <3>1
    <3>2. CASE ~(m <= n)
      BY <3>2
    <3>3. QED
      BY <3>1, <3>2
  <2>4. \A m \in S : m <= n + 1 => FoundStep(path, found, m) = FoundStep(path, grown, m)
    <3> SUFFICES ASSUME NEW m \in S, m <= n + 1, m # 0
                 PROVE  found[m - 1] = grown[m - 1]
      BY DEF FoundStep
    <3>1. m - 1 \in S /\ m - 1 <= n
      OBVIOUS
    <3>2. QED
      BY <2>2, <3>1
  <2>5. Good(grown, n + 1)
    BY <2>3, <2>4
  <2>6. grown = [m \in S |-> grown[m]]
    OBVIOUS
  <2> HIDE DEF grown, Good
  <2>7. \E f : f = [m \in S |-> f[m]] /\ Good(f, n + 1)
    BY <2>5, <2>6, Zenon
  <2>8. QED
    BY <2>7 DEF Good
<1>3. Nat \subseteq N
  <2> HIDE DEF N
  <2>1. QED
    BY <1>1, <1>2, NumberInduction
<1>4. PICK found : found = [m \in S |-> found[m]] /\ Good(found, Len(path))
  BY <1>3
<1>5. \A m \in S : found[m] = FoundStep(path, found, m)
  BY <1>4
<1>6. found = [m \in S |-> FoundStep(path, found, m)]
  BY <1>4, <1>5
<1>7. Found(path) = [m \in S |-> FoundStep(path, Found(path), m)]
  BY <1>6, Zenon DEF Found
<1>8. QED
  BY <1>7

(* The values that have no children and attributes of their own.           *)
Attributed == {"text", "list", "number", "nan"}

(* What n parts of a path have led to: keys as far as the first m of them, *)
(* and from there on attributes.                                           *)
Led(path, n, m) ==
  LET met == Keys(First(path, m))
      it == Found(path)[n]
  IN  /\ met \in DOMAIN Context
      /\ m = n => it = <<At(Context, met)>>
      /\ m < n =>
           /\ Context[met][1] \in Attributed
           /\ \A i \in m + 1..n : path[i] \in Attributes
           /\ \/ it = <<Single(Method)>>
              \/ Context[met][1] \in {"number", "nan"} /\ it = <<At(Context, met)>>

LEMMA ChildOfLed ==
  ASSUME Understood, NEW path \in AllPaths, NEW n \in 0..Len(path), n < Len(path),
         NEW m \in 0..n, Led(path, n, m), Found(path)[n + 1] # <<>>
  PROVE  Led(path, n + 1, m) \/ Led(path, n + 1, n + 1)
<1> DEFINE met == Keys(First(path, m))
           value == At(Context, met)
           part == path[n + 1]
           it == Found(path)[n]
           next == Found(path)[n + 1]
<1>1. Len(path) \in Nat /\ n + 1 \in 1..Len(path) /\ m \in 0..Len(path) /\ (n + 1) - 1 = n
  BY KeysIs
<1>2. IsTree(Context)
  BY ContextIs
<1>3. DOMAIN Context \subseteq Addresses
  BY <1>2 DEF IsTree
<1>4. met \in DOMAIN Context
  BY DEF Led
<1>5. value[<<>>] = Context[met]
  BY <1>3, <1>4, AtNode
<1>6. next = IF it = <<>> THEN <<>> ELSE Child(it[1], part)
  <2>1. n + 1 \in 0..Len(path) /\ n + 1 # 0
    BY <1>1
  <2>2. next = FoundStep(path, Found(path), n + 1)
    BY <1>1, <2>1, FoundIs
  <2>3. QED
    BY <1>1, <2>1, <2>2 DEF FoundStep
<1>7. next # <<>>
  OBVIOUS
<1>8. /\ m = n => it = <<value>>
      /\ m < n =>
           /\ Context[met][1] \in Attributed
           /\ \A i \in m + 1..n : path[i] \in Attributes
           /\ \/ it = <<Single(Method)>>
              \/ Context[met][1] \in {"number", "nan"} /\ it = <<value>>
  BY DEF Led
<1>9. Single(Method)[<<>>] = <<"method">>
  BY SingleIs DEF Method
<1>10. CASE m = n
  <2>1. next = Child(value, part)
    BY <1>6, <1>8, <1>10
  <2>2. CASE value[<<>>][1] = "dict"
    <3>1. Keys(<<part>>) \in DOMAIN value /\ next = <<At(value, Keys(<<part>>))>>
      BY <1>7, <2>1, <2>2, Zenon DEF Child
    <3>2. /\ Keys(<<part>>) \in Addresses /\ met \in Addresses
          /\ Keys(First(path, n + 1)) = met \o Keys(<<part>>)
      BY <1>1, <1>3, <1>4, <1>10, NextPart
    <3>3. met \o Keys(<<part>>) \in DOMAIN Context
      BY <1>3, <3>1, <3>2, AtIs
    <3>4. At(value, Keys(<<part>>)) = At(Context, met \o Keys(<<part>>))
      BY <1>3, <3>2, AtAt
    <3>5. ~(n + 1 < n + 1)
      BY <1>1
    <3>6. /\ Keys(First(path, n + 1)) \in DOMAIN Context
          /\ next = <<At(Context, Keys(First(path, n + 1)))>>
      BY <3>1, <3>2, <3>3, <3>4, Zenon
    <3>7. Led(path, n + 1, n + 1)
      BY <3>5, <3>6, Zenon DEF Led
    <3>8. QED
      BY <3>7
  <2>3. CASE value[<<>>][1] # "dict"
    <3>1. /\ Context[met][1] \in Attributed /\ part \in Attributes
          /\ \/ next = <<Single(Method)>>
             \/ Context[met][1] \in {"number", "nan"} /\ next = <<value>>
      BY <1>5, <1>7, <2>1, <2>3 DEF Child, Attributed, Attributes
    <3>2. \A i \in m + 1..n + 1 : path[i] \in Attributes
      BY <1>1, <1>10, <3>1
    <3>3. m < n + 1
      BY <1>10
    <3>4. Led(path, n + 1, m)
      BY <1>1, <1>4, <1>10, <3>1, <3>2, <3>3 DEF Led
    <3>5. QED
      BY <3>4
  <2>4. QED
    BY <2>2, <2>3
<1>11. CASE m < n
  <2>1. it # <<Single(Method)>>
    <3> SUFFICES ASSUME it = <<Single(Method)>> PROVE FALSE
      OBVIOUS
    <3>1. next = Child(Single(Method), part)
      BY <1>6
    <3>2. QED
      BY <1>7, <1>9, <3>1 DEF Child
  <2>2. Context[met][1] \in {"number", "nan"} /\ it = <<value>>
    BY <1>8, <1>11, <2>1
  <2>3. next = Child(value, part)
    BY <1>6, <2>2
  <2>4. next = <<value>> /\ part \in Attributes
    BY <1>5, <1>7, <2>2, <2>3 DEF Child, Attributes
  <2>5. \A i \in m + 1..n + 1 : path[i] \in Attributes
    BY <1>1, <1>8, <1>11, <2>4
  <2>6. Led(path, n + 1, m)
    BY <1>1, <1>4, <1>8, <1>11, <2>2, <2>4, <2>5 DEF Led
  <2>7. QED
    BY <2>6
<1>12. QED
  BY <1>1, <1>10, <1>11

LEMMA FoundFirst ==
  ASSUME Understood, NEW path \in AllPaths
  PROVE  /\ Found(path)[0] = <<At(Context, Keys(First(path, 0)))>>
         /\ Keys(First(path, 0)) \in DOMAIN Context
<1>1. Len(path) \in Nat /\ 0 \in 0..Len(path)
  BY KeysIs
<1>2. Found(path)[0] = <<Context>>
  BY <1>1, FoundIs DEF FoundStep
<1>3. Keys(First(path, 0)) = <<>>
  BY FirstEnds
<1>4. IsTree(Context)
  BY ContextIs
<1>5. At(Context, <<>>) = Context
  BY <1>4, AtTop
<1>6. <<>> \in DOMAIN Context
  BY <1>4 DEF IsTree
<1>7. QED
  BY <1>2, <1>3, <1>5, <1>6

(* A path that resolves leads through keys, and then attributes.           *)
LEMMA PathLeads ==
  ASSUME Understood, NEW path \in AllPaths, Resolve(path) # <<>>
  PROVE  \E m \in 0..Len(path) : Led(path, Len(path), m)
<1> DEFINE N == {n \in Nat : n <= Len(path) /\ Found(path)[n] # <<>> => \E m \in 0..n : Led(path, n, m)}
<1>1. Len(path) \in Nat
  BY KeysIs
<1>2. 0 \in N
  <2>1. Led(path, 0, 0)
    BY FoundFirst DEF Led
  <2>2. QED
    BY <2>1
<1>3. ASSUME NEW n \in Nat, n \in N PROVE n + 1 \in N
  <2> SUFFICES ASSUME n + 1 <= Len(path), Found(path)[n + 1] # <<>>
               PROVE  \E m \in 0..n + 1 : Led(path, n + 1, m)
    OBVIOUS
  <2>1. n + 1 \in 0..Len(path) /\ n + 1 # 0 /\ (n + 1) - 1 = n /\ n \in 0..Len(path) /\ n < Len(path)
    BY <1>1
  <2>2. Found(path)[n] # <<>>
    BY <1>1, <2>1, FoundIs DEF FoundStep
  <2>3. PICK m \in 0..n : Led(path, n, m)
    BY <1>3, <2>1, <2>2
  <2>4. Led(path, n + 1, m) \/ Led(path, n + 1, n + 1)
    BY <2>1, <2>3, ChildOfLed
  <2>5. m \in 0..n + 1 /\ n + 1 \in 0..n + 1
    OBVIOUS
  <2>6. QED
    BY <2>4, <2>5
<1>4. Nat \subseteq N
  <2> HIDE DEF N
  <2>1. QED
    BY <1>2, <1>3, NumberInduction
<1>5. Found(path)[Len(path)] # <<>>
  BY ResolveIsFound
<1>6. QED
  BY <1>1, <1>4, <1>5

(* A path of keys leads to what is there.                                  *)
LEMMA KeysLead ==
  ASSUME Understood, NEW path \in AllPaths, Keys(path) \in DOMAIN Context
  PROVE  Resolve(path) = <<At(Context, Keys(path))>>
<1> DEFINE N == {n \in Nat : n <= Len(path) =>
                               Found(path)[n] = <<At(Context, Keys(First(path, n)))>>}
<1>1. Len(path) \in Nat /\ Len(Keys(path)) = Len(path)
  BY KeysIs
<1>2. IsTree(Context) /\ DOMAIN Context \subseteq Addresses
  BY ContextIs DEF IsTree
<1>3. \A n \in 0..Len(path) : Keys(First(path, n)) \in DOMAIN Context
  <2> SUFFICES ASSUME NEW n \in 0..Len(path) PROVE Keys(First(path, n)) \in DOMAIN Context
    OBVIOUS
  <2>1. CASE n = Len(path)
    BY <2>1, FirstEnds
  <2>2. CASE n < Len(path)
    <3>1. Keys(First(path, n)) = SubSeq(Keys(path), 1, n)
      BY KeysOfFirst
    <3> DEFINE keys == Keys(path)
    <3>2. keys \in DOMAIN Context /\ n \in Nat /\ n < Len(keys)
      BY <1>1, <2>2
    <3> HIDE DEF keys
    <3>3. SubSeq(keys, 1, n) \in DOMAIN Context
      BY <1>2, <3>2, TreePrefix
    <3>4. QED
      BY <3>1, <3>3 DEF keys
  <2>3. QED
    BY <1>1, <2>1, <2>2
<1>4. \A n \in 0..Len(path) : n < Len(path) => Context[Keys(First(path, n))] = <<"dict">>
  <2> SUFFICES ASSUME NEW n \in 0..Len(path), n < Len(path)
               PROVE  Context[Keys(First(path, n))] = <<"dict">>
    OBVIOUS
  <2>1. Keys(First(path, n)) = SubSeq(Keys(path), 1, n)
    BY KeysOfFirst
  <2> DEFINE keys == Keys(path)
  <2>2. /\ keys \in DOMAIN Context /\ n \in Nat /\ n < Len(keys)
        /\ keys[n + 1] = <<"dict", path[n + 1]>>
    BY <1>1, KeysIs
  <2> HIDE DEF keys
  <2>3. Context[SubSeq(keys, 1, n)] = <<keys[n + 1][1]>>
    BY <1>2, <2>2, TreePrefix
  <2>4. keys[n + 1][1] = "dict"
    BY <2>2
  <2>5. QED
    BY <2>1, <2>3, <2>4 DEF keys
<1>5. 0 \in N
  BY FoundFirst
<1>6. ASSUME NEW n \in Nat, n \in N PROVE n + 1 \in N
  <2> SUFFICES ASSUME n + 1 <= Len(path)
               PROVE  Found(path)[n + 1] = <<At(Context, Keys(First(path, n + 1)))>>
    OBVIOUS
  <2>1. /\ n + 1 \in 0..Len(path) /\ n + 1 \in 1..Len(path) /\ n + 1 # 0 /\ (n + 1) - 1 = n
        /\ n \in 0..Len(path) /\ n < Len(path) /\ n <= Len(path)
    BY <1>1
  <2> DEFINE met == Keys(First(path, n))
             one == Keys(<<path[n + 1]>>)
             value == At(Context, met)
  <2>2. Found(path)[n] = <<value>>
    BY <1>6, <2>1
  <2>3. /\ met \in DOMAIN Context /\ Context[met] = <<"dict">>
        /\ Keys(First(path, n + 1)) \in DOMAIN Context
    BY <1>3, <1>4, <2>1
  <2>4. met \in Addresses /\ one \in Addresses /\ Keys(First(path, n + 1)) = met \o one
    BY <1>2, <2>1, <2>3, NextPart
  <2>5. Found(path)[n + 1] = Child(value, path[n + 1])
    <3>1. Found(path)[n + 1] = FoundStep(path, Found(path), n + 1)
      BY <1>1, <2>1, FoundIs
    <3> HIDE DEF value
    <3>2. Found(path)[n] # <<>> /\ Found(path)[n][1] = value
      BY <2>2
    <3>3. QED
      BY <2>1, <3>1, <3>2 DEF FoundStep
  <2>6. value[<<>>] = <<"dict">>
    BY <1>2, <2>3, AtNode
  <2>7. one \in DOMAIN value
    <3>1. met \o one \in DOMAIN Context
      BY <2>3, <2>4
    <3>2. \A b : b \in DOMAIN value <=> b \in Addresses /\ met \o b \in DOMAIN Context
      BY <1>2, <2>4, AtIs
    <3>3. QED
      BY <2>4, <3>1, <3>2, Zenon
  <2>8. At(value, one) = At(Context, met \o one)
    BY <1>2, <2>4, AtAt
  <2>9. value[<<>>][1] = "dict"
    BY <2>6
  <2>10. Child(value, path[n + 1]) = <<At(value, one)>>
    BY <2>7, <2>9, Zenon DEF Child
  <2>11. QED
    BY <2>4, <2>5, <2>8, <2>10, Zenon
<1>7. Nat \subseteq N
  <2> HIDE DEF N
  <2>1. QED
    BY <1>5, <1>6, NumberInduction
<1>8. Found(path)[Len(path)] = <<At(Context, Keys(First(path, Len(path))))>>
  BY <1>1, <1>7
<1>9. QED
  BY <1>8, ResolveIsFound, FirstEnds

-----------------------------------------------------------------------------
(* What the pieces of a text become.                                       *)

FlattenStep(seqs, flat, i) == IF i = 1 THEN seqs[i] ELSE flat[i - 1] \o seqs[i]

Flattened(seqs) == CHOOSE flat : flat = [i \in 1..Len(seqs) |-> FlattenStep(seqs, flat, i)]

LEMMA FlattenSeqIs ==
  ASSUME NEW seqs
  PROVE  FlattenSeq(seqs) = IF Len(seqs) = 0 THEN seqs ELSE Flattened(seqs)[Len(seqs)]
  BY Zenon DEF FlattenSeq, Flattened, FlattenStep

(* There is such a function: by induction on how far it has been defined.  *)
LEMMA FlattenedIs ==
  ASSUME NEW seqs, Len(seqs) \in Nat
  PROVE  \A i \in 1..Len(seqs) : Flattened(seqs)[i] = FlattenStep(seqs, Flattened(seqs), i)
<1> DEFINE S == 1..Len(seqs)
           Good(flat, n) == \A i \in S : i <= n => flat[i] = FlattenStep(seqs, flat, i)
           Grown(flat, n) == [i \in S |-> IF i <= n THEN flat[i] ELSE FlattenStep(seqs, flat, i)]
           N == {n \in Nat : \E flat : flat = [i \in S |-> flat[i]] /\ Good(flat, n)}
<1>1. 0 \in N
  <2> DEFINE flat == [i \in S |-> <<>>]
  <2>1. flat = [i \in S |-> flat[i]]
    OBVIOUS
  <2>2. Good(flat, 0)
    OBVIOUS
  <2> HIDE DEF flat, Good
  <2>3. \E f : f = [i \in S |-> f[i]] /\ Good(f, 0)
    BY <2>1, <2>2, Zenon
  <2>4. QED
    BY <2>3 DEF Good
<1>2. ASSUME NEW n \in Nat, n \in N PROVE n + 1 \in N
  <2>1. PICK flat : flat = [i \in S |-> flat[i]] /\ Good(flat, n)
    BY <1>2
  <2> DEFINE grown == Grown(flat, n)
  <2>2. \A i \in S : i <= n => grown[i] = flat[i]
    OBVIOUS
  <2>3. \A i \in S : i <= n + 1 => grown[i] = FlattenStep(seqs, flat, i)
    <3> SUFFICES ASSUME NEW i \in S, i <= n + 1
                 PROVE  grown[i] = FlattenStep(seqs, flat, i)
      OBVIOUS
    <3>1. CASE i <= n
      BY <2>1, <2>2, <3>1
    <3>2. CASE ~(i <= n)
      BY <3>2
    <3>3. QED
      BY <3>1, <3>2
  <2>4. \A i \in S : i <= n + 1 => FlattenStep(seqs, flat, i) = FlattenStep(seqs, grown, i)
    <3> SUFFICES ASSUME NEW i \in S, i <= n + 1, i # 1
                 PROVE  flat[i - 1] = grown[i - 1]
      BY DEF FlattenStep
    <3>1. i - 1 \in S /\ i - 1 <= n
      OBVIOUS
    <3>2. QED
      BY <2>2, <3>1
  <2>5. Good(grown, n + 1)
    BY <2>3, <2>4
  <2>6. grown = [i \in S |-> grown[i]]
    OBVIOUS
  <2> HIDE DEF grown, Good
  <2>7. \E f : f = [i \in S |-> f[i]] /\ Good(f, n + 1)
    BY <2>5, <2>6, Zenon
  <2>8. QED
    BY <2>7 DEF Good
<1>3. Nat \subseteq N
  <2> HIDE DEF N
  <2>1. QED
    BY <1>1, <1>2, NumberInduction
<1>4. PICK flat : flat = [i \in S |-> flat[i]] /\ Good(flat, Len(seqs))
  BY <1>3
<1>5. \A i \in S : flat[i] = FlattenStep(seqs, flat, i)
  BY <1>4
<1>6. flat = [i \in S |-> FlattenStep(seqs, flat, i)]
  BY <1>4, <1>5
<1>7. Flattened(seqs) = [i \in S |-> FlattenStep(seqs, Flattened(seqs), i)]
  BY <1>6, Zenon DEF Flattened
<1>8. QED
  BY <1>7

(* What is made of sequences over a set is one.                            *)
LEMMA FlattenSeqType ==
  ASSUME NEW Q, NEW seqs, Len(seqs) \in Nat, Len(seqs) = 0 => seqs = <<>>,
         \A i \in 1..Len(seqs) : seqs[i] \in Seq(Q)
  PROVE  FlattenSeq(seqs) \in Seq(Q)
<1> DEFINE flat == Flattened(seqs)
           N == {n \in Nat : n + 1 <= Len(seqs) => flat[n + 1] \in Seq(Q)}
<1>1. \A i \in 1..Len(seqs) : flat[i] = FlattenStep(seqs, flat, i)
  BY FlattenedIs
<1> HIDE DEF flat
<1>2. 0 \in N
  BY <1>1 DEF FlattenStep
<1>3. ASSUME NEW n \in Nat, n \in N PROVE n + 1 \in N
  <2> SUFFICES ASSUME (n + 1) + 1 <= Len(seqs)
               PROVE  flat[(n + 1) + 1] \in Seq(Q)
    OBVIOUS
  <2> DEFINE i == (n + 1) + 1
  <2>1. i \in 1..Len(seqs) /\ i # 1 /\ i - 1 = n + 1 /\ n + 1 <= Len(seqs)
    OBVIOUS
  <2> HIDE DEF i
  <2>2. flat[i - 1] \in Seq(Q)
    BY <1>3, <2>1
  <2>3. seqs[i] \in Seq(Q)
    BY <2>1
  <2>4. flat[i] = flat[i - 1] \o seqs[i]
    BY <1>1, <2>1 DEF FlattenStep
  <2>5. flat[i] \in Seq(Q)
    BY <2>2, <2>3, <2>4, ConcatProperties
  <2>6. QED
    BY <2>5 DEF i
<1>4. Nat \subseteq N
  <2> HIDE DEF N
  <2>1. QED
    BY <1>2, <1>3, NumberInduction
<1>5. CASE Len(seqs) = 0
  BY <1>5, FlattenSeqIs, EmptySeq
<1>6. CASE Len(seqs) # 0
  <2>1. Len(seqs) - 1 \in N /\ (Len(seqs) - 1) + 1 = Len(seqs)
    BY <1>4, <1>6
  <2>2. flat[Len(seqs)] \in Seq(Q)
    BY <2>1
  <2>3. QED
    BY <1>6, <2>2, FlattenSeqIs DEF flat
<1>7. QED
  BY <1>5, <1>6

-----------------------------------------------------------------------------
(* The rendered body.                                                      *)

(* What can take the place of a node.                                      *)
Grows(leaf) ==
  /\ leaf = [b \in DOMAIN leaf |-> leaf[b]]
  /\ <<>> \in DOMAIN leaf
  /\ DOMAIN leaf \subseteq Addresses

LEMMA SingleGrows ==
  ASSUME NEW node
  PROVE  Grows(Single(node))
  BY SingleIs DEF Grows, IsTree

LEMMA AtGrows ==
  ASSUME NEW value, DOMAIN value \subseteq Addresses, NEW a \in DOMAIN value
  PROVE  Grows(At(value, a))
<1>1. /\ At(value, a) = [b \in DOMAIN At(value, a) |-> At(value, a)[b]]
      /\ \A b : b \in DOMAIN At(value, a) <=> b \in Addresses /\ a \o b \in DOMAIN value
  BY AtIs
<1>2. <<>> \in DOMAIN At(value, a)
  BY AtNode
<1>3. DOMAIN At(value, a) \subseteq Addresses
  BY <1>1
<1>4. QED
  BY <1>1, <1>2, <1>3 DEF Grows

(* The template is one that the renderer can work on.                      *)
Renderable(template) ==
  IsTree(template) /\ HasTexts(template) /\ \A a \in DOMAIN template : Grows(Leaf(template[a]))

(* Only a text grows.                                                      *)
LEMMA OtherLeaves ==
  ASSUME NEW node, node[1] # "text"
  PROVE  Leaf(node) = Single(node) /\ DOMAIN Leaf(node) = {<<>>} /\ Leaf(node)[<<>>] = node
  BY SingleIs DEF Leaf

(* No two nodes of a template make nodes with one address.                 *)
LEMMA NoneMeet ==
  ASSUME NEW template, Renderable(template),
         NEW a \in DOMAIN template, NEW b \in DOMAIN Leaf(template[a]),
         NEW c \in DOMAIN template, NEW d \in DOMAIN Leaf(template[c]),
         a \o b = c \o d
  PROVE  a = c /\ b = d
<1>1. /\ a \in Addresses /\ b \in Addresses /\ c \in Addresses /\ d \in Addresses
      /\ Len(a) \in Nat /\ Len(c) \in Nat
  BY LenProperties DEF Renderable, IsTree, Grows, Addresses
<1>2. ASSUME NEW p \in DOMAIN template, NEW q \in DOMAIN template, NEW r \in Addresses,
             Len(p) \in Nat, Len(p) < Len(q), p = SubSeq(q, 1, Len(p)),
             r \in DOMAIN Leaf(template[p]), r # <<>>
      PROVE  FALSE
  <2>1. IsTree(template) /\ q \in Addresses /\ Len(q) \in Nat
    BY LenProperties DEF Renderable, IsTree, Addresses
  <2>2. template[p] = <<q[Len(p) + 1][1]>>
    <3> DEFINE n == Len(p)
    <3>1. n \in Nat /\ n < Len(q) /\ p = SubSeq(q, 1, n)
      BY <1>2
    <3> HIDE DEF n
    <3>2. template[SubSeq(q, 1, n)] = <<q[n + 1][1]>>
      BY <2>1, <3>1, TreePrefix
    <3>3. QED
      BY <3>1, <3>2 DEF n
  <2>3. q[Len(p) + 1] \in AllParts
    BY <1>2, <2>1, ElementOfSeq DEF Addresses
  <2>4. template[p][1] # "text"
    BY <2>2, <2>3 DEF AllParts
  <2>5. DOMAIN Leaf(template[p]) = {<<>>}
    BY <2>4, OtherLeaves
  <2>6. QED
    BY <1>2, <2>5
<1>3. Len(a) < Len(c) => a = SubSeq(c, 1, Len(a)) /\ b # <<>>
  BY <1>1, PrefixesNest
<1>4. Len(c) < Len(a) => c = SubSeq(a, 1, Len(c)) /\ d # <<>>
  BY <1>1, PrefixesNest
<1>5. Len(a) = Len(c)
  BY <1>1, <1>2, <1>3, <1>4
<1>6. a = c /\ b = d
  BY <1>1, <1>5, SplitSame
<1>7. QED
  BY <1>6

(* Each node of the body is made by one node of the template.              *)
LEMMA RenderIs ==
  ASSUME NEW template, Renderable(template)
  PROVE  /\ \A x : x \in DOMAIN Render(template) <=>
              \E a \in DOMAIN template : \E b \in DOMAIN Leaf(template[a]) : x = a \o b
         /\ \A a \in DOMAIN template : \A b \in DOMAIN Leaf(template[a]) :
              Render(template)[a \o b] = Leaf(template[a])[b]
<1> DEFINE grown(a) == {<<a \o b, Leaf(template[a])[b]>> : b \in DOMAIN Leaf(template[a])}
           nodes == UNION {grown(a) : a \in DOMAIN template}
           body == Render(template)
<1>1. body = [x \in {node[1] : node \in nodes} |->
                (CHOOSE node \in nodes : node[1] = x)[2]]
  BY Zenon DEF Render
<1>2. \A node : node \in nodes <=>
        \E a \in DOMAIN template : \E b \in DOMAIN Leaf(template[a]) :
          node = <<a \o b, Leaf(template[a])[b]>>
  OBVIOUS
<1> HIDE DEF nodes, body
<1>3. ASSUME NEW x
      PROVE  x \in DOMAIN body <=>
               \E a \in DOMAIN template : \E b \in DOMAIN Leaf(template[a]) : x = a \o b
  <2>1. x \in DOMAIN body <=> \E node \in nodes : x = node[1]
    BY <1>1
  <2>2. ASSUME NEW node \in nodes, x = node[1]
        PROVE  \E a \in DOMAIN template : \E b \in DOMAIN Leaf(template[a]) : x = a \o b
    BY <1>2, <2>2
  <2>3. ASSUME NEW a \in DOMAIN template, NEW b \in DOMAIN Leaf(template[a]), x = a \o b
        PROVE  \E node \in nodes : x = node[1]
    <3>1. <<a \o b, Leaf(template[a])[b]>> \in nodes
      BY <1>2
    <3>2. QED
      BY <2>3, <3>1
  <2>4. QED
    BY <2>1, <2>2, <2>3
<1>4. ASSUME NEW a \in DOMAIN template, NEW b \in DOMAIN Leaf(template[a])
      PROVE  body[a \o b] = Leaf(template[a])[b]
  <2> DEFINE made == CHOOSE node \in nodes : node[1] = a \o b
  <2>1. <<a \o b, Leaf(template[a])[b]>> \in nodes
    BY <1>2
  <2>2. made \in nodes /\ made[1] = a \o b
    <3>1. \E node \in nodes : node[1] = a \o b
      BY <2>1
    <3>2. QED
      BY <3>1, Zenon
  <2>3. body[a \o b] = made[2]
    BY <1>1, <2>1
  <2> HIDE DEF made
  <2>4. PICK c \in DOMAIN template : \E d \in DOMAIN Leaf(template[c]) :
          made = <<c \o d, Leaf(template[c])[d]>>
    BY <1>2, <2>2
  <2>5. PICK d \in DOMAIN Leaf(template[c]) : made = <<c \o d, Leaf(template[c])[d]>>
    BY <2>4
  <2>6. a \o b = c \o d
    BY <2>2, <2>5
  <2>7. a = c /\ b = d
    BY <2>6, NoneMeet, ZenonT(60)
  <2>8. QED
    BY <2>3, <2>5, <2>7
<1>5. QED
  BY <1>3, <1>4 DEF body

LEMMA RenderedFrom ==
  ASSUME NEW template, Renderable(template), NEW x \in DOMAIN Render(template)
  PROVE  \E a \in DOMAIN template : \E b \in DOMAIN Leaf(template[a]) : x = a \o b
  BY RenderIs

(* What stands where a node of the template stood.                         *)
LEMMA RenderNode ==
  ASSUME NEW template, Renderable(template), NEW a \in DOMAIN template
  PROVE  a \in DOMAIN Render(template) /\ Render(template)[a] = Leaf(template[a])[<<>>]
<1>1. a \in Addresses /\ <<>> \in DOMAIN Leaf(template[a])
  BY DEF Renderable, IsTree, Grows
<1>2. a \o <<>> = a
  BY <1>1, ConcatEmptySeq DEF Addresses
<1>3. Render(template)[a \o <<>>] = Leaf(template[a])[<<>>]
  BY <1>1, RenderIs
<1>4. a \in DOMAIN Render(template)
  BY <1>1, <1>2, RenderIs
<1>5. QED
  BY <1>2, <1>3, <1>4

LEMMA RenderedAddresses ==
  ASSUME NEW template, Renderable(template)
  PROVE  DOMAIN Render(template) \subseteq Addresses
<1> SUFFICES ASSUME NEW x \in DOMAIN Render(template) PROVE x \in Addresses
  OBVIOUS
<1>1. PICK a \in DOMAIN template : \E b \in DOMAIN Leaf(template[a]) : x = a \o b
  BY RenderIs
<1>2. PICK b \in DOMAIN Leaf(template[a]) : x = a \o b
  BY <1>1
<1>3. a \in Addresses /\ b \in Addresses
  BY DEF Renderable, IsTree, Grows
<1>4. QED
  BY <1>2, <1>3, BelowConcat

(* A text's part of the body is what the text has become.                  *)
LEMMA RenderAt ==
  ASSUME NEW template, Renderable(template), NEW a \in DOMAIN template, template[a][1] = "text"
  PROVE  At(Render(template), a) = Leaf(template[a])
<1> DEFINE leaf == Leaf(template[a])
           body == Render(template)
<1>1. /\ a \in Addresses /\ leaf = [b \in DOMAIN leaf |-> leaf[b]]
      /\ DOMAIN leaf \subseteq Addresses
      /\ DOMAIN body \subseteq Addresses
  BY RenderedAddresses DEF Renderable, IsTree, Grows
<1>2. \A b \in DOMAIN leaf : a \o b \in DOMAIN body /\ body[a \o b] = leaf[b]
  BY RenderIs
<1>3. ASSUME NEW b \in Addresses, a \o b \in DOMAIN body
      PROVE  b \in DOMAIN leaf
  <2>1. PICK c \in DOMAIN template : \E d \in DOMAIN Leaf(template[c]) : a \o b = c \o d
    BY <1>3, RenderIs
  <2>2. PICK d \in DOMAIN Leaf(template[c]) : a \o b = c \o d
    BY <2>1
  <2>3. c \in Addresses /\ d \in Addresses /\ IsTree(template)
    BY DEF Renderable, IsTree, Grows
  <2>4. Len(a) \in Nat /\ Len(c) \in Nat
    BY <1>1, <2>3, LenProperties DEF Addresses
  <2>5. ~(Len(a) < Len(c))
    <3> SUFFICES ASSUME Len(a) < Len(c) PROVE FALSE
      OBVIOUS
    <3>1. a = SubSeq(c, 1, Len(a))
      BY <1>1, <2>2, <2>3, PrefixesNest
    <3> DEFINE n == Len(a)
    <3>2. n \in Nat /\ n < Len(c) /\ a = SubSeq(c, 1, n)
      BY <2>4, <3>1
    <3> HIDE DEF n
    <3>3. template[SubSeq(c, 1, n)] = <<c[n + 1][1]>>
      BY <2>3, <3>2, TreePrefix
    <3>4. c[n + 1] \in AllParts
      BY <2>3, <2>4, <3>2, ElementOfSeq DEF Addresses
    <3>5. template[a][1] # "text"
      BY <3>2, <3>3, <3>4 DEF AllParts
    <3>6. QED
      BY <3>5
  <2>6. ~(Len(c) < Len(a))
    <3> SUFFICES ASSUME Len(c) < Len(a) PROVE FALSE
      OBVIOUS
    <3>1. c = SubSeq(a, 1, Len(c)) /\ d # <<>>
      BY <1>1, <2>2, <2>3, PrefixesNest
    <3> DEFINE n == Len(c)
    <3>2. n \in Nat /\ n < Len(a) /\ c = SubSeq(a, 1, n)
      BY <2>4, <3>1
    <3> HIDE DEF n
    <3>3. template[SubSeq(a, 1, n)] = <<a[n + 1][1]>>
      BY <2>3, <3>2, TreePrefix
    <3>4. a[n + 1] \in AllParts
      BY <1>1, <2>4, <3>2, ElementOfSeq DEF Addresses
    <3>5. template[c][1] # "text"
      BY <3>2, <3>3, <3>4 DEF AllParts
    <3>6. QED
      BY <3>1, <3>5, OtherLeaves
  <2>7. Len(a) = Len(c)
    BY <2>4, <2>5, <2>6
  <2>8. a = c /\ b = d
    BY <1>1, <1>3, <2>2, <2>3, <2>7, SplitSame
  <2>9. QED
    BY <2>8
<1> HIDE DEF leaf, body
<1>4. \A b \in Addresses : a \o b \in DOMAIN body <=> b \in DOMAIN leaf
  BY <1>2, <1>3
<1>5. \A b \in DOMAIN leaf : body[a \o b] = leaf[b]
  BY <1>2
<1>6. At(body, a) = leaf
  BY <1>1, <1>4, <1>5, SameAt, Zenon
<1>7. QED
  BY <1>6 DEF leaf, body

(* A node that is no text keeps its children.                              *)
LEMMA RenderChildren ==
  ASSUME NEW template, Renderable(template), NEW a \in DOMAIN template, template[a][1] # "text"
  PROVE  Children(Render(template), a) = Children(template, a)
<1> DEFINE body == Render(template)
<1>1. IsTree(template) /\ a \in Addresses
  BY DEF Renderable, IsTree
<1>2. ASSUME NEW x \in DOMAIN template PROVE x \in DOMAIN body
  BY RenderNode
<1>3. ASSUME NEW x \in DOMAIN body, x # <<>>, Front(x) = a
      PROVE  x \in DOMAIN template
  <2>1. PICK c \in DOMAIN template : \E d \in DOMAIN Leaf(template[c]) : x = c \o d
    BY RenderedFrom
  <2>2. PICK d \in DOMAIN Leaf(template[c]) : x = c \o d
    BY <2>1
  <2>3. c \in Addresses /\ d \in Addresses
    BY DEF Renderable, IsTree, Grows
  <2>4. d = <<>>
    <3> SUFFICES ASSUME d # <<>> PROVE FALSE
      OBVIOUS
    <3>1. template[c][1] = "text"
      BY OtherLeaves
    <3>2. c \o Front(d) = a /\ Front(d) \in Addresses
      BY <1>3, <2>2, <2>3, FrontOfConcat, FrontIs
    <3>3. Front(d) # <<>>
      <4> SUFFICES ASSUME Front(d) = <<>> PROVE FALSE
        OBVIOUS
      <4>1. c = a
        BY <2>3, <3>2, ConcatEmptySeq DEF Addresses
      <4>2. QED
        BY <3>1, <4>1
    <3>4. c \o Front(d) \in DOMAIN template
      BY <3>2
    <3>5. template[c][1] \in {"dict", "list"}
      BY <1>1, <3>2, <3>3, <3>4, LeavesEnd
    <3>6. QED
      BY <3>1, <3>5
  <2>5. x = c
    BY <2>2, <2>3, <2>4, ConcatEmptySeq DEF Addresses
  <2>6. QED
    BY <2>5
<1> HIDE DEF body
<1>4. Children(body, a) = Children(template, a)
  BY <1>2, <1>3 DEF Children
<1>5. QED
  BY <1>4 DEF body

-----------------------------------------------------------------------------
(* A template that is filled in.                                           *)

Fillable(template) ==
  IsData(template) /\ \A path \in Paths(template) : Resolve(path) # <<>>

LEMMA PiecesAre ==
  ASSUME NEW template, IsData(template), NEW a \in DOMAIN template, template[a][1] = "text"
  PROVE  /\ Len(template[a][2]) \in Nat /\ DOMAIN template[a][2] = 1..Len(template[a][2])
         /\ Len(template[a][2]) = 0 <=> template[a][2] = <<>>
         /\ \A i \in 1..Len(template[a][2]) :
              /\ template[a][2][i] \in Pieces(template)
              /\ IsToken(template[a][2][i]) => template[a][2][i][2] \in Paths(template)
<1> DEFINE pieces == template[a][2]
<1>1. pieces \in Seq(DataPieces)
  BY DataHasTexts DEF HasTexts
<1>2. a \in {b \in DOMAIN template : template[b][1] = "text"}
  OBVIOUS
<1>3. Range(pieces) \subseteq Pieces(template)
  BY <1>2 DEF Pieces
<1> HIDE DEF pieces
<1>4. Len(pieces) \in Nat /\ DOMAIN pieces = 1..Len(pieces)
  BY <1>1, LenProperties
<1>5. Len(pieces) = 0 <=> pieces = <<>>
  BY <1>1, EmptySeq
<1>6. \A i \in 1..Len(pieces) : pieces[i] \in Pieces(template)
  BY <1>3, <1>4 DEF Range
<1>7. \A i \in 1..Len(pieces) : IsToken(pieces[i]) => pieces[i][2] \in Paths(template)
  BY <1>6 DEF Paths
<1>8. QED
  BY <1>4, <1>5, <1>6, <1>7 DEF pieces

LEMMA PathsAre ==
  ASSUME NEW template, IsData(template)
  PROVE  Paths(template) \subseteq AllPaths
<1> SUFFICES ASSUME NEW piece \in Pieces(template), IsToken(piece) PROVE piece[2] \in AllPaths
  BY DEF Paths
<1>1. PICK a \in DOMAIN template : template[a][1] = "text" /\ piece \in Range(template[a][2])
  BY DEF Pieces
<1>2. template[a][2] \in Seq(DataPieces)
  BY <1>1, DataHasTexts DEF HasTexts
<1>3. piece \in DataPieces
  BY <1>1, <1>2, LenProperties, ElementOfSeq DEF Range
<1>4. piece[2] \in Seq(STRING)
  BY <1>3 DEF DataPieces, IsToken
<1>5. STRING \subseteq AllKeys
  BY DEF AllKeys
<1>6. QED
  BY <1>4, <1>5, SeqMonotonic DEF AllPaths

(* What a path that resolves has led to.                                   *)
LEMMA ValueIs ==
  ASSUME Understood, NEW path \in AllPaths, Resolve(path) # <<>>
  PROVE  \/ Resolve(path)[1] = Single(Method)
         \/ \E m \in 0..Len(path) :
              /\ Keys(First(path, m)) \in DOMAIN Context
              /\ Resolve(path)[1] = At(Context, Keys(First(path, m)))
              /\ m = Len(path) \/ Context[Keys(First(path, m))][1] \in {"number", "nan"}
<1>1. PICK m \in 0..Len(path) : Led(path, Len(path), m)
  BY PathLeads
<1>2. Found(path)[Len(path)] = Resolve(path) /\ Len(path) \in Nat
  BY ResolveIsFound, KeysIs
<1> DEFINE met == Keys(First(path, m))
<1>3. met \in DOMAIN Context
  BY <1>1 DEF Led
<1>4. CASE m = Len(path)
  <2>1. Resolve(path) = <<At(Context, met)>>
    BY <1>1, <1>2, <1>4 DEF Led
  <2>2. Resolve(path)[1] = At(Context, met)
    BY <2>1
  <2>3. QED
    BY <1>3, <1>4, <2>2
<1>5. CASE m < Len(path)
  <2>1. \/ Resolve(path) = <<Single(Method)>>
        \/ Context[met][1] \in {"number", "nan"} /\ Resolve(path) = <<At(Context, met)>>
    BY <1>1, <1>2, <1>5 DEF Led
  <2>2. \/ Resolve(path)[1] = Single(Method)
        \/ Context[met][1] \in {"number", "nan"} /\ Resolve(path)[1] = At(Context, met)
    BY <2>1
  <2>3. QED
    BY <1>3, <2>2
<1>6. QED
  BY <1>2, <1>4, <1>5

LEMMA ValueGrows ==
  ASSUME Understood, NEW path \in AllPaths, Resolve(path) # <<>>
  PROVE  Grows(Resolve(path)[1])
<1>1. DOMAIN Context \subseteq Addresses
  BY ContextIs DEF IsTree
<1>2. CASE Resolve(path)[1] = Single(Method)
  BY <1>2, SingleGrows
<1>3. CASE \E m \in 0..Len(path) :
             /\ Keys(First(path, m)) \in DOMAIN Context
             /\ Resolve(path)[1] = At(Context, Keys(First(path, m)))
  BY <1>1, <1>3, AtGrows
<1>4. QED
  BY <1>2, <1>3, ValueIs

(* What becomes of a text.                                                 *)
LEMMA TextLeaves ==
  ASSUME NEW template, IsData(template), NEW a \in DOMAIN template, template[a][1] = "text"
  PROVE  \/ /\ Leaf(template[a]) = Resolve(template[a][2][1][2])[1]
            /\ template[a][2][1][2] \in Paths(template)
            /\ WholeLeaf(template[a][2])
         \/ Leaf(template[a]) = Embedded(template[a][2]) /\ ~WholeLeaf(template[a][2])
<1>1. CASE WholeLeaf(template[a][2])
  <2>1. template[a][2] # <<>> /\ IsToken(template[a][2][1])
    BY <1>1 DEF WholeLeaf
  <2>2. 1 \in 1..Len(template[a][2])
    BY <2>1, PiecesAre
  <2>3. template[a][2][1][2] \in Paths(template)
    BY <2>1, <2>2, PiecesAre
  <2>4. Leaf(template[a]) = Resolve(template[a][2][1][2])[1]
    BY <1>1 DEF Leaf
  <2>5. QED
    BY <1>1, <2>3, <2>4
<1>2. CASE ~WholeLeaf(template[a][2])
  <2>1. Leaf(template[a]) = Embedded(template[a][2])
    BY <1>2 DEF Leaf
  <2>2. QED
    BY <1>2, <2>1
<1>3. QED
  BY <1>1, <1>2

LEMMA FillableRenders ==
  ASSUME Understood, NEW template, Fillable(template)
  PROVE  Renderable(template)
<1>1. IsData(template) /\ IsTree(template) /\ HasTexts(template)
  BY DataIsTree, DataHasTexts DEF Fillable
<1>2. ASSUME NEW a \in DOMAIN template PROVE Grows(Leaf(template[a]))
  <2>1. CASE template[a][1] # "text"
    BY <2>1, OtherLeaves, SingleGrows
  <2>2. CASE template[a][1] = "text"
    <3>1. CASE /\ Leaf(template[a]) = Resolve(template[a][2][1][2])[1]
               /\ template[a][2][1][2] \in Paths(template)
      <4>1. template[a][2][1][2] \in AllPaths
        BY <1>1, <3>1, PathsAre
      <4>2. Resolve(template[a][2][1][2]) # <<>>
        BY <3>1 DEF Fillable
      <4>3. QED
        BY <3>1, <4>1, <4>2, ValueGrows
    <3>2. CASE Leaf(template[a]) = Embedded(template[a][2])
      BY <3>2, SingleGrows DEF Embedded
    <3>3. QED
      BY <1>1, <2>2, <3>1, <3>2, TextLeaves
  <2>3. QED
    BY <2>1, <2>2
<1>3. QED
  BY <1>1, <1>2 DEF Renderable

LEMMA LoneToken ==
  ASSUME NEW path
  PROVE  WholeLeaf(<<Token(path)>>) /\ <<Token(path)>>[1][2] = path
<1> DEFINE piece == Token(path)
<1>1. IsToken(piece) /\ piece[2] = path
  BY DEF Token, IsToken
<1> HIDE DEF piece
<1>2. <<piece>> # <<>> /\ <<piece>>[1] = piece /\ Tail(<<piece>>) = <<>>
  OBVIOUS
<1>3. WholeLeaf(<<piece>>)
  BY <1>1, <1>2 DEF WholeLeaf
<1>4. QED
  BY <1>1, <1>2, <1>3 DEF piece

(* A text with more than a token, or a token and a newline, is no whole    *)
(* leaf.                                                                   *)
LEMMA MoreThanToken ==
  ASSUME NEW S, NEW pieces \in Seq(S), Len(pieces) > 1, ~TokenLine(pieces)
  PROVE  ~WholeLeaf(pieces)
<1>1. Len(pieces) \in Nat /\ pieces # <<>>
  BY LenProperties, EmptySeq
<1> DEFINE rest == Tail(pieces)
<1>2. Len(rest) = Len(pieces) - 1 /\ \A i \in 1..Len(rest) : rest[i] = pieces[i + 1]
  BY <1>1, HeadTailProperties
<1> HIDE DEF rest
<1>3. rest[1] = pieces[2] /\ Len(rest) >= 1
  BY <1>1, <1>2
<1>4. rest # <<>>
  BY <1>3
<1>5. ASSUME rest = <<Newline>>, IsToken(pieces[1]) PROVE FALSE
  <2>1. Len(rest) = 1 /\ rest[1] = Newline
    BY <1>5
  <2>2. Len(pieces) = 2 /\ pieces[2] = Newline
    <3> DEFINE m == Len(pieces)
               n == Len(rest)
    <3>1. m \in Nat /\ n = m - 1 /\ n = 1
      BY <1>1, <1>2, <2>1, Zenon
    <3> HIDE DEF m, n
    <3>2. m = 2
      BY <3>1
    <3>3. Len(pieces) = 2
      BY <3>2 DEF m
    <3>4. QED
      BY <3>3, <1>3, <2>1, Zenon
  <2>3. QED
    BY <1>5, <2>2 DEF TokenLine
<1>6. QED
  BY <1>4, <1>5 DEF WholeLeaf, rest

LEMMA RenderHasForm ==
  ASSUME Understood, NEW template, Fillable(template)
  PROVE  HasForm(Render(template), template)
<1> DEFINE body == Render(template)
<1>1. Renderable(template) /\ IsData(template)
  BY FillableRenders DEF Fillable
<1>2. ASSUME NEW a \in DOMAIN template, template[a][1] # "text"
      PROVE  /\ a \in DOMAIN body /\ body[a] = template[a]
             /\ Children(body, a) = Children(template, a)
  <2>1. a \in DOMAIN body /\ body[a] = Leaf(template[a])[<<>>]
    BY <1>1, RenderNode
  <2>2. Leaf(template[a])[<<>>] = template[a]
    BY <1>2, OtherLeaves
  <2>3. Children(body, a) = Children(template, a)
    BY <1>1, <1>2, RenderChildren
  <2>4. QED
    BY <2>1, <2>2, <2>3
<1>3. ASSUME NEW a \in DOMAIN template, template[a][1] = "text",
             NEW path \in Paths(template),
             template[a][2] = <<Token(path)>>, Keys(path) \in DOMAIN Context
      PROVE  At(body, a) = At(Context, Keys(path))
  <2>1. At(body, a) = Leaf(template[a])
    BY <1>1, <1>3, RenderAt
  <2>2. WholeLeaf(template[a][2]) /\ template[a][2][1][2] = path
    BY <1>3, LoneToken
  <2>3. Leaf(template[a]) = Resolve(path)[1]
    BY <1>3, <2>2, Zenon DEF Leaf
  <2>4. Resolve(path) = <<At(Context, Keys(path))>>
    BY <1>1, <1>3, PathsAre, KeysLead
  <2>5. Resolve(path)[1] = At(Context, Keys(path))
    BY <2>4
  <2>6. QED
    BY <2>1, <2>3, <2>5
<1>4. ASSUME NEW a \in DOMAIN template, template[a][1] = "text",
             Len(template[a][2]) > 1, ~TokenLine(template[a][2])
      PROVE  StaysText(body, a)
  <2>1. template[a][2] \in Seq(DataPieces)
    BY <1>1, <1>4, DataHasTexts DEF HasTexts
  <2>2. ~WholeLeaf(template[a][2])
    BY <1>4, <2>1, MoreThanToken
  <2>3. Leaf(template[a]) = Embedded(template[a][2])
    BY <1>4, <2>2 DEF Leaf
  <2>4. At(body, a) = Leaf(template[a])
    BY <1>1, <1>4, RenderAt
  <2>5. body[a] = Leaf(template[a])[<<>>]
    BY <1>1, RenderNode
  <2>6. /\ DOMAIN Embedded(template[a][2]) = {<<>>}
        /\ Embedded(template[a][2])[<<>>][1] = "text"
    BY SingleIs DEF Embedded, Text
  <2>7. QED
    BY <2>3, <2>4, <2>5, <2>6 DEF StaysText
<1>5. QED
  BY <1>2, <1>3, <1>4, Zenon DEF HasForm

-----------------------------------------------------------------------------
(* What the pieces of the body are.                                        *)

(* Where DataStaysData says that they come from.                           *)
Passed(template) == Keyed(UNION {Prefixes(path) : path \in Paths(template)})

OwnPieces(template) == {piece \in Pieces(template) : ~IsToken(piece)}

KeyedPieces(template) ==
  UNION {Pieces(value) \cup {Shown(value)} : value \in Keyed(Paths(template))}

ShownPieces(template) ==
  {Shown(value) : value \in
     {Single(Method)} \cup {v \in Passed(template) : v[<<>>][1] \in {"number", "nan"}}}

Sources(template) == OwnPieces(template) \cup KeyedPieces(template) \cup ShownPieces(template)

LEMMA SourcesAre ==
  ASSUME NEW template
  PROVE  /\ \A piece \in Pieces(template) : ~IsToken(piece) => piece \in Sources(template)
         /\ \A value \in Keyed(Paths(template)) :
              Pieces(value) \subseteq Sources(template) /\ Shown(value) \in Sources(template)
         /\ Shown(Single(Method)) \in Sources(template)
         /\ \A value \in Passed(template) :
              value[<<>>][1] \in {"number", "nan"} => Shown(value) \in Sources(template)
<1>1. \A piece \in Pieces(template) : ~IsToken(piece) => piece \in OwnPieces(template)
  BY DEF OwnPieces
<1>2. \A value \in Keyed(Paths(template)) :
        Pieces(value) \subseteq KeyedPieces(template) /\ Shown(value) \in KeyedPieces(template)
  <2>1. \A value \in Keyed(Paths(template)) :
          Pieces(value) \cup {Shown(value)} \subseteq KeyedPieces(template)
    BY DEF KeyedPieces
  <2>2. QED
    BY <2>1
<1>3. Shown(Single(Method)) \in ShownPieces(template)
  BY Zenon DEF ShownPieces
<1>4. \A value \in Passed(template) :
        value[<<>>][1] \in {"number", "nan"} => Shown(value) \in ShownPieces(template)
  BY Zenon DEF ShownPieces
<1>5. QED
  BY <1>1, <1>2, <1>3, <1>4 DEF Sources

(* What a token of a template stands for: a value that keys alone reach, a *)
(* method, or a number on the way.                                         *)
LEMMA TokenStandsFor ==
  ASSUME Understood, NEW template, IsData(template), NEW path \in Paths(template),
         Resolve(path) # <<>>, NEW value, value = Resolve(path)[1]
  PROVE  \/ value = Single(Method)
         \/ \E met \in DOMAIN Context :
              /\ value = At(Context, met)
              /\ \/ value \in Keyed(Paths(template))
                 \/ value \in Passed(template) /\ Context[met][1] \in {"number", "nan"}
<1>1. path \in AllPaths
  BY PathsAre
<1>2. CASE value = Single(Method)
  BY <1>2
<1>3. CASE value # Single(Method)
  <2>1. PICK m \in 0..Len(path) :
          /\ Keys(First(path, m)) \in DOMAIN Context
          /\ Resolve(path)[1] = At(Context, Keys(First(path, m)))
          /\ m = Len(path) \/ Context[Keys(First(path, m))][1] \in {"number", "nan"}
    BY <1>1, <1>3, ValueIs
  <2>2. CASE m = Len(path)
    <3>1. First(path, m) = path
      BY <1>1, <2>2, FirstEnds
    <3>2. Keys(path) \in DOMAIN Context /\ value = At(Context, Keys(path))
      BY <2>1, <3>1
    <3>3. value \in Keyed(Paths(template))
      BY <3>2 DEF Keyed
    <3>4. QED
      BY <3>2, <3>3
  <2>3. CASE Context[Keys(First(path, m))][1] \in {"number", "nan"}
    <3> DEFINE met == First(path, m)
    <3>1. met \in Prefixes(path)
      BY DEF Prefixes, First
    <3> HIDE DEF met
    <3>2. met \in UNION {Prefixes(p) : p \in Paths(template)}
      BY <3>1
    <3>3. Keys(met) \in DOMAIN Context /\ value = At(Context, Keys(met))
      BY <2>1 DEF met
    <3>4. value \in Passed(template)
      BY <3>2, <3>3 DEF Passed, Keyed
    <3>5. QED
      BY <2>3, <3>3, <3>4 DEF met
  <2>4. QED
    BY <2>1, <2>2, <2>3
<1>4. QED
  BY <1>2, <1>3

(* The top of what is found at the address of a node of the context, and   *)
(* the text it is.                                                         *)
LEMMA MetIs ==
  ASSUME Understood, NEW met \in DOMAIN Context
  PROVE  /\ At(Context, met)[<<>>] = Context[met]
         /\ <<>> \in DOMAIN At(Context, met)
         /\ Context[met][1] = "text" =>
              /\ Context[met][2] \in Seq(DataPieces)
              /\ Range(Context[met][2]) \subseteq Pieces(At(Context, met))
<1>1. DOMAIN Context \subseteq Addresses /\ HasTexts(Context)
  BY ContextIs DEF IsTree
<1> DEFINE value == At(Context, met)
<1>2. <<>> \in DOMAIN value /\ value[<<>>] = Context[met]
  BY <1>1, AtNode
<1>3. ASSUME Context[met][1] = "text" PROVE Context[met][2] \in Seq(DataPieces)
  BY <1>1, <1>3 DEF HasTexts
<1> HIDE DEF value
<1>4. ASSUME Context[met][1] = "text" PROVE Range(Context[met][2]) \subseteq Pieces(value)
  <2>1. <<>> \in {b \in DOMAIN value : value[b][1] = "text"}
    BY <1>2, <1>4
  <2>2. Range(value[<<>>][2]) \subseteq Pieces(value)
    BY <2>1 DEF Pieces
  <2>3. QED
    BY <1>2, <2>2
<1>5. QED
  BY <1>2, <1>3, <1>4 DEF value

(* What is spliced in for a token of a filled template.                    *)
LEMMA SpliceIs ==
  ASSUME Understood, NEW template, Fillable(template), NEW piece \in Pieces(template),
         IsToken(piece) => piece[2] \in Paths(template)
  PROVE  Splice(piece) \in Seq(Sources(template))
<1> DEFINE Q == Sources(template)
<1>1. CASE ~IsToken(piece)
  <2>1. piece \in Q
    BY <1>1, SourcesAre
  <2>2. <<piece>> \in Seq(Q)
    <3> HIDE DEF Q
    <3>1. QED
      BY <2>1
  <2>3. QED
    BY <1>1, <2>2 DEF Splice
<1>2. CASE IsToken(piece)
  <2> DEFINE path == piece[2]
             value == Resolve(path)[1]
  <2>1. Splice(piece) = Stringify(value)
    BY <1>2, Zenon DEF Splice
  <2>2. path \in Paths(template) /\ Resolve(path) # <<>> /\ IsData(template)
    BY <1>2 DEF Fillable
  <2> HIDE DEF path
  <2>3. \/ value = Single(Method)
        \/ \E met \in DOMAIN Context :
             /\ value = At(Context, met)
             /\ \/ value \in Keyed(Paths(template))
                \/ value \in Passed(template) /\ Context[met][1] \in {"number", "nan"}
    BY <2>2, TokenStandsFor
  <2> HIDE DEF value
  <2>4. ASSUME Shown(value) \in Q, value[<<>>][1] # "text" PROVE Stringify(value) \in Seq(Q)
    <3>1. Stringify(value) = <<Shown(value)>>
      BY <2>4 DEF Stringify
    <3> HIDE DEF Q
    <3>2. QED
      BY <2>4, <3>1
  <2>5. CASE value = Single(Method)
    <3>1. value[<<>>][1] # "text"
      BY <2>5, SingleIs DEF Method
    <3>2. Shown(value) \in Q
      BY <2>5, SourcesAre
    <3>3. QED
      BY <2>1, <2>4, <3>1, <3>2
  <2>6. ASSUME NEW met \in DOMAIN Context, value = At(Context, met),
               value \in Keyed(Paths(template))
        PROVE  Stringify(value) \in Seq(Q)
    <3>1. Pieces(value) \subseteq Q /\ Shown(value) \in Q
      BY <2>6, SourcesAre
    <3>2. CASE value[<<>>][1] = "text"
      <4>1. value[<<>>] = Context[met]
        BY <2>6, MetIs
      <4>2. Context[met][1] = "text"
        BY <3>2, <4>1
      <4>3. /\ value[<<>>][2] \in Seq(DataPieces)
            /\ Range(value[<<>>][2]) \subseteq Pieces(value)
        BY <2>6, <4>1, <4>2, MetIs
      <4> DEFINE text == value[<<>>][2]
      <4>4. text \in Seq(DataPieces) /\ \A i \in DOMAIN text : text[i] \in Q
        BY <3>1, <4>3 DEF Range
      <4> HIDE DEF text, Q
      <4>5. Len(text) \in Nat /\ DOMAIN text = 1..Len(text) /\ text = [i \in 1..Len(text) |-> text[i]]
        BY <4>4, LenProperties
      <4>6. text \in Seq(Q)
        BY <4>4, <4>5
      <4>7. Stringify(value) = text
        BY <3>2 DEF Stringify, text
      <4>8. QED
        BY <4>6, <4>7
    <3>3. QED
      BY <2>4, <3>1, <3>2
  <2>7. ASSUME NEW met \in DOMAIN Context, value = At(Context, met),
               value \in Passed(template), Context[met][1] \in {"number", "nan"}
        PROVE  Stringify(value) \in Seq(Q)
    <3>1. value[<<>>] = Context[met]
      BY <2>7, MetIs
    <3>2. value[<<>>][1] \in {"number", "nan"}
      BY <2>7, <3>1
    <3>3. Shown(value) \in Q
      BY <2>7, <3>2, SourcesAre
    <3>4. QED
      BY <2>4, <3>2, <3>3
  <2>8. QED
    BY <2>1, <2>3, <2>5, <2>6, <2>7
<1>3. QED
  BY <1>1, <1>2

(* The pieces of a text between which tokens were embedded.                *)
LEMMA EmbeddedIs ==
  ASSUME Understood, NEW template, Fillable(template), NEW a \in DOMAIN template,
         template[a][1] = "text"
  PROVE  /\ DOMAIN Embedded(template[a][2]) = {<<>>}
         /\ Embedded(template[a][2])[<<>>][2] \in Seq(Sources(template))
<1> DEFINE pieces == template[a][2]
           seqs == [i \in DOMAIN pieces |-> Splice(pieces[i])]
<1>1. IsData(template)
  BY DEF Fillable
<1>2. /\ Len(pieces) \in Nat /\ DOMAIN pieces = 1..Len(pieces)
      /\ \A i \in 1..Len(pieces) :
           /\ pieces[i] \in Pieces(template)
           /\ IsToken(pieces[i]) => pieces[i][2] \in Paths(template)
  BY <1>1, PiecesAre
<1>3. Embedded(pieces) = Single(Text(FlattenSeq(seqs)))
  BY Zenon DEF Embedded
<1> HIDE DEF pieces
<1>4. \A i \in 1..Len(pieces) : Splice(pieces[i]) \in Seq(Sources(template))
  BY <1>2, SpliceIs
<1>5. seqs = [i \in 1..Len(pieces) |-> Splice(pieces[i])]
  BY <1>2
<1> HIDE DEF seqs
<1>6. seqs \in [1..Len(pieces) -> Seq(Sources(template))] /\ Len(pieces) \in Nat
  BY <1>2, <1>4, <1>5
<1>7. seqs \in Seq(Seq(Sources(template)))
  BY <1>6
<1>8. /\ Len(seqs) \in Nat /\ (Len(seqs) = 0 => seqs = <<>>)
      /\ \A i \in 1..Len(seqs) : seqs[i] \in Seq(Sources(template))
  BY <1>7, LenProperties, EmptySeq, ElementOfSeq
<1>9. FlattenSeq(seqs) \in Seq(Sources(template))
  BY <1>8, FlattenSeqType
<1>10. /\ DOMAIN Embedded(pieces) = {<<>>}
       /\ Embedded(pieces)[<<>>][2] = FlattenSeq(seqs)
  BY <1>3, SingleIs DEF Text
<1>11. QED
  BY <1>9, <1>10 DEF pieces

LEMMA BodyPieces ==
  ASSUME Understood, NEW template, Fillable(template)
  PROVE  Pieces(Render(template)) \subseteq Sources(template)
<1> DEFINE body == Render(template)
           Q == Sources(template)
<1>1. Renderable(template) /\ IsData(template)
  BY FillableRenders DEF Fillable
<1>2. ASSUME NEW x \in DOMAIN body, body[x][1] = "text", NEW piece \in Range(body[x][2])
      PROVE  piece \in Q
  <2>1. PICK a \in DOMAIN template : \E b \in DOMAIN Leaf(template[a]) : x = a \o b
    BY <1>1, RenderedFrom
  <2>2. PICK b \in DOMAIN Leaf(template[a]) : x = a \o b
    BY <2>1
  <2> DEFINE leaf == Leaf(template[a])
  <2>3. body[x] = leaf[b] /\ leaf[b][1] = "text" /\ piece \in Range(leaf[b][2])
    BY <1>1, <1>2, <2>2, RenderIs
  <2>4. template[a][1] = "text"
    <3> SUFFICES ASSUME template[a][1] # "text" PROVE FALSE
      OBVIOUS
    <3>1. DOMAIN leaf = {<<>>} /\ leaf[<<>>] = template[a]
      BY OtherLeaves
    <3>2. QED
      BY <2>2, <2>3, <3>1
  <2> HIDE DEF leaf
  <2>5. CASE leaf = Embedded(template[a][2])
    <3>1. leaf[b][2] \in Seq(Q)
      BY <2>2, <2>4, <2>5, EmbeddedIs DEF leaf
    <3> DEFINE text == leaf[b][2]
    <3>2. text \in Seq(Q) /\ piece \in Range(text)
      BY <2>3, <3>1
    <3> HIDE DEF text, Q
    <3>3. piece \in Q
      BY <3>2, LenProperties, ElementOfSeq DEF Range
    <3>4. QED
      BY <3>3
  <2>6. ASSUME NEW path \in Paths(template), leaf = Resolve(path)[1]
        PROVE  piece \in Q
    <3>1. Resolve(path) # <<>>
      BY DEF Fillable
    <3>2. b \in DOMAIN leaf
      BY DEF leaf
    <3>3. CASE leaf = Single(Method)
      BY <2>3, <3>2, <3>3, SingleIs DEF Method
    <3>4. ASSUME leaf \in Keyed(Paths(template)) PROVE piece \in Q
      <4>1. b \in {c \in DOMAIN leaf : leaf[c][1] = "text"}
        BY <2>3, <3>2
      <4>2. piece \in Pieces(leaf)
        BY <2>3, <4>1 DEF Pieces
      <4>3. QED
        BY <3>4, <4>2, SourcesAre
    <3>5. ASSUME NEW met \in DOMAIN Context, leaf = At(Context, met),
                 Context[met][1] \in {"number", "nan"}
          PROVE  FALSE
      <4>1. IsTree(Context) /\ DOMAIN Context \subseteq Addresses /\ met \in Addresses
        BY ContextIs DEF IsTree
      <4>2. b \in Addresses /\ met \o b \in DOMAIN Context
        BY <3>2, <3>5, <4>1, AtIs
      <4>3. b = <<>>
        BY <3>5, <4>1, <4>2, LeavesEnd
      <4>4. leaf[b] = Context[met]
        BY <3>5, <4>3, MetIs
      <4>5. QED
        BY <2>3, <3>5, <4>4
    <3>6. \/ leaf = Single(Method)
          \/ \E met \in DOMAIN Context :
               /\ leaf = At(Context, met)
               /\ \/ leaf \in Keyed(Paths(template))
                  \/ leaf \in Passed(template) /\ Context[met][1] \in {"number", "nan"}
      BY <1>1, <2>6, <3>1, TokenStandsFor
    <3>7. QED
      BY <3>3, <3>4, <3>5, <3>6
  <2>7. QED
    BY <1>1, <2>4, <2>5, <2>6, TextLeaves DEF leaf
<1>3. QED
  <2> HIDE DEF body, Q
  <2>1. Pieces(body) \subseteq Q
    BY <1>2 DEF Pieces
  <2>2. QED
    BY <2>1 DEF body, Q

-----------------------------------------------------------------------------
(* The inductive invariant: what the step and the answer say of what came  *)
(* before.                                                                 *)

Known ==
  step \in {"render", "send"} \/ answer.kind \in {"envelope", "rendered", "error and envelope"} =>
    Understood

(* There is a body from when it has been made.                             *)
Waiting ==
  /\ step \in {"parse", "render"} => answer.kind = "none"
  /\ step = "send" => answer.kind \in {"envelope", "rendered"}
  /\ step # "done" => answer.status = 0

Filled ==
  answer.kind = "rendered" =>
    /\ Templated /\ Fillable(output.template[1])
    /\ answer.body = Render(output.template[1])

Unfilled ==
  answer.kind = "error and envelope" =>
    Templated /\ \E path \in Paths(output.template[1]) : Resolve(path) = <<>>

Refused == answer.status = 502 => Malformed

IInv == TypeOK /\ Known /\ Waiting /\ Filled /\ Unfilled /\ Refused

(* All that the invariant says of the output, the print and the parsed     *)
(* value stays when they do.                                               *)
LEMMA Fixed ==
  ASSUME UNCHANGED <<output, print, parsed>>
  PROVE  /\ Understood => Understood'
         /\ Malformed' = Malformed
         /\ Templated' = Templated
         /\ Fillable(output.template[1]) => Fillable(output.template[1])'
         /\ Render(output.template[1])' = Render(output.template[1])
         /\ (\E path \in Paths(output.template[1]) : Resolve(path) = <<>>) =>
              (\E path \in Paths(output.template[1]) : Resolve(path) = <<>>)'
<1>1. Malformed' = Malformed /\ Breaks' = Breaks /\ Parsed' = Parsed /\ Templated' = Templated
  BY DEF Malformed, Breaks, Parsed, Templated
<1>2. Understood => Understood'
  BY <1>1 DEF Understood
<1>3. \A path : Resolve(path)' = Resolve(path)
  BY DEF Resolve, Context
<1>4. output' = output
  OBVIOUS
<1>5. Fillable(output.template[1]) => Fillable(output.template[1])'
  BY <1>3, <1>4 DEF Fillable
<1>6. Render(output.template[1])' = Render(output.template[1])
  BY DEF Render, Leaf, Embedded, Splice, Resolve, Context
<1>7. (\E path \in Paths(output.template[1]) : Resolve(path) = <<>>) =>
        (\E path \in Paths(output.template[1]) : Resolve(path) = <<>>)'
  BY <1>3, <1>4
<1>8. QED
  BY <1>1, <1>2, <1>5, <1>6, <1>7

LEMMA TemplateIs ==
  ASSUME output \in Outputs, Templated
  PROVE  IsData(output.template[1])
<1> DEFINE t == output.template
<1>1. t \in Templates /\ t # <<>>
  BY DEF Outputs, Templated
<1> HIDE DEF t
<1>2. SomeData(t)
  BY <1>1, ResponsesAssumption
<1>3. 1 \in DOMAIN t
  BY <1>1, <1>2, SomeDataIs
<1>4. t[1] \in Range(t)
  BY <1>3 DEF Range
<1>5. QED
  BY <1>2, <1>4 DEF SomeData, t

LEMMA InitInvariant == Init => IInv
  BY DEF Init, IInv, TypeOK, Known, Waiting, Filled, Unfilled, Refused

(* An error's answer says nothing of the output but what its status does.  *)
LEMMA ErrorInvariant ==
  ASSUME IInv, NEW status \in {500, 502}, status = 502 => Malformed,
         Finish(status, "error", Single(Null))
  PROVE  IInv'
<1>1. UNCHANGED <<output, print, parsed>>
  BY DEF Finish
<1>2. /\ step' = "done" /\ answer'.status = status /\ answer'.kind = "error"
  BY DEF Finish
<1>3. TypeOK'
  BY <1>1, <1>2, ZenonT(60) DEF IInv, TypeOK, Finish
<1>4. Refused'
  BY <1>1, <1>2, Fixed DEF Refused
<1>5. Known' /\ Waiting' /\ Filled' /\ Unfilled'
  BY <1>2 DEF Known, Waiting, Filled, Unfilled
<1>6. QED
  BY <1>3, <1>4, <1>5 DEF IInv

LEMMA StepInvariant == IInv /\ [Next]_vars => IInv'
<1> SUFFICES ASSUME IInv, [Next]_vars
             PROVE  IInv'
  OBVIOUS
<1>1. CASE ParseRefuses
  BY <1>1, ErrorInvariant DEF ParseRefuses
<1>2. CASE ParseBreaks
  BY <1>2, ErrorInvariant DEF ParseBreaks
<1>3. CASE Parse
  <2>1. /\ step = "parse" /\ step' = "render" /\ output' = output /\ print' = print
        /\ answer' = answer /\ parsed' = Parsed /\ ~Malformed /\ ~Breaks
    BY <1>3 DEF Parse
  <2>2. /\ output \in Outputs /\ print \in Prints
        /\ answer.kind = "none" /\ answer.status = 0
    BY <2>1 DEF IInv, TypeOK, Waiting
  <2>3. Malformed' = Malformed /\ Breaks' = Breaks /\ Parsed' = Parsed
    BY <2>1 DEF Malformed, Breaks, Parsed
  <2>4. Understood'
    BY <2>1, <2>2, <2>3 DEF Understood
  <2>5. TypeOK'
    BY <2>1, <2>2 DEF TypeOK
  <2>6. Known' /\ Waiting' /\ Filled' /\ Unfilled' /\ Refused'
    BY <2>1, <2>2, <2>4 DEF Known, Waiting, Filled, Unfilled, Refused
  <2>7. QED
    BY <2>5, <2>6 DEF IInv
<1>4. CASE RenderFails
  <2>1. /\ step = "render" /\ Templated
        /\ \E path \in Paths(output.template[1]) : Resolve(path) = <<>>
    BY <1>4 DEF RenderFails
  <2>2. CASE Finish(500, "error", Single(Null))
    BY <2>2, ErrorInvariant
  <2>3. CASE Finish(500, "error and envelope", Envelope)
    <3>1. UNCHANGED <<output, print, parsed>>
      BY <2>3 DEF Finish
    <3>2. step' = "done" /\ answer'.status = 500 /\ answer'.kind = "error and envelope"
      BY <2>3 DEF Finish
    <3>3. Understood
      BY <2>1 DEF IInv, Known
    <3>4. TypeOK'
      BY <3>1, <3>2, ZenonT(60) DEF IInv, TypeOK
    <3>5. Known'
      BY <3>1, <3>3, Fixed DEF Known
    <3>6. Unfilled'
      BY <2>1, <3>1, Fixed DEF Unfilled
    <3>7. Waiting'
      BY <3>2 DEF Waiting
    <3>8. Refused'
      <4>1. answer'.status # 502
        <5>1. answer'.status = 500
          BY <3>2
        <5>2. QED
          BY <5>1
      <4>2. QED
        BY <4>1, Zenon DEF Refused
    <3>9. Filled'
      <4>1. answer'.kind # "rendered"
        BY <3>2
      <4>2. QED
        BY <4>1, Zenon DEF Filled
    <3>10. QED
      BY <3>4, <3>5, <3>6, <3>7, <3>8, <3>9 DEF IInv
  <2>4. QED
    BY <1>4, <2>2, <2>3 DEF RenderFails
<1>5. CASE RenderBody
  <2>1. /\ step = "render" /\ step' = "send" /\ UNCHANGED <<output, print, parsed>>
        /\ answer'.status = 0 /\ answer'.kind \in {"envelope", "rendered"}
        /\ answer'.kind = "rendered" =>
             /\ Templated /\ answer'.body = Render(output.template[1])
             /\ \A path \in Paths(output.template[1]) : Resolve(path) # <<>>
    BY <1>5 DEF RenderBody
  <2>2. Understood /\ output \in Outputs
    BY <2>1 DEF IInv, Known, TypeOK
  <2>3. TypeOK'
    BY <2>1 DEF IInv, TypeOK
  <2>4. Known'
    BY <2>1, <2>2, Fixed DEF Known
  <2>5. Filled'
    <3> SUFFICES ASSUME answer'.kind = "rendered"
                 PROVE  /\ Templated' /\ Fillable(output.template[1])'
                        /\ answer'.body = Render(output.template[1])'
      BY DEF Filled
    <3>1. Fillable(output.template[1])
      BY <2>1, <2>2, TemplateIs DEF Fillable
    <3>2. QED
      BY <2>1, <3>1, Fixed
  <2>6. Waiting' /\ Refused'
    BY <2>1 DEF Waiting, Refused
  <2>7. Unfilled'
    <3>1. answer'.kind # "error and envelope"
      BY <2>1
    <3>2. QED
      BY <3>1, Zenon DEF Unfilled
  <2>8. QED
    BY <2>3, <2>4, <2>5, <2>6, <2>7 DEF IInv
<1>6. CASE Send
  <2>1. /\ step = "send" /\ step' = "done" /\ UNCHANGED <<output, print, parsed>>
        /\ answer'.status = 200 /\ answer'.kind = answer.kind /\ answer'.body = answer.body
    BY <1>6 DEF Send, Finish
  <2>2. Understood /\ answer.kind \in {"envelope", "rendered"}
    BY <2>1 DEF IInv, Known, Waiting
  <2>3. TypeOK'
    BY <2>1, <2>2 DEF IInv, TypeOK
  <2>4. Known'
    BY <2>1, <2>2, Fixed DEF Known
  <2>5. Filled'
    BY <2>1, Fixed DEF IInv, Filled
  <2>6. Waiting' /\ Refused'
    BY <2>1, <2>2 DEF Waiting, Refused
  <2>7. Unfilled'
    <3>1. answer'.kind # "error and envelope"
      BY <2>1, <2>2
    <3>2. QED
      BY <3>1, Zenon DEF Unfilled
  <2>8. QED
    BY <2>3, <2>4, <2>5, <2>6, <2>7 DEF IInv
<1>7. CASE SendFails
  BY <1>7, ErrorInvariant DEF SendFails
<1>8. CASE UNCHANGED vars
  <2>1. UNCHANGED <<output, print, parsed>> /\ step' = step /\ answer' = answer
    BY <1>8 DEF vars
  <2>2. TypeOK'
    BY <2>1, ZenonT(60) DEF IInv, TypeOK
  <2>3. Waiting'
    BY <2>1 DEF IInv, Waiting
  <2>4. Known' /\ Filled' /\ Unfilled' /\ Refused'
    BY <2>1, Fixed DEF IInv, Known, Filled, Unfilled, Refused
  <2>5. QED
    BY <2>2, <2>3, <2>4 DEF IInv
<1>9. QED
  BY <1>1, <1>2, <1>3, <1>4, <1>5, <1>6, <1>7, <1>8 DEF Next, Done

-----------------------------------------------------------------------------
(* What holds of every answer.                                             *)

(* The answers are those that TypeOK lists: parse_output's errors, the     *)
(* renderer's, an answer that cannot be written, and two kinds of body.    *)
THEOREM TypeCorrect == Spec => []TypeOK
<1>1. IInv => TypeOK
  BY DEF IInv
<1>2. QED
  BY <1>1, InitInvariant, StepInvariant, PTL DEF Spec

LEMMA RenderedIs ==
  ASSUME IInv, Rendered
  PROVE  /\ Understood /\ Fillable(output.template[1])
         /\ answer.body = Render(output.template[1])
<1>1. answer.kind = "rendered"
  BY DEF Rendered
<1>2. Understood
  BY <1>1 DEF IInv, Known
<1>3. Fillable(output.template[1]) /\ answer.body = Render(output.template[1])
  BY <1>1, Zenon DEF IInv, Filled
<1>4. QED
  BY <1>2, <1>3

(* render_template keeps the form of the template: where a text is one     *)
(* token there stands the very value that its keys lead to, a text where   *)
(* there is more than that and a newline at the end, and everything else is*)
(* as it was.                                                              *)
THEOREM FormsHold == Spec => []NativeTypes
<1>1. IInv => NativeTypes
  <2> SUFFICES ASSUME IInv, Rendered
               PROVE  HasForm(answer.body, output.template[1])
    BY DEF NativeTypes
  <2>1. /\ Understood /\ Fillable(output.template[1])
        /\ answer.body = Render(output.template[1])
    BY RenderedIs
  <2>2. HasForm(Render(output.template[1]), output.template[1])
    BY <2>1, RenderHasForm
  <2>3. QED
    BY <2>1, <2>2
<1>2. QED
  BY <1>1, InitInvariant, StepInvariant, PTL DEF Spec

(* No text of a rendered body has a piece but those of the template and of *)
(* what the template's own tokens name: what a command printed is never    *)
(* scanned for tokens.                                                     *)
THEOREM DataHolds == Spec => []DataStaysData
<1>1. IInv => DataStaysData
  <2> SUFFICES ASSUME IInv
               PROVE  DataStaysData
    OBVIOUS
  <2>1. Rendered => Pieces(answer.body) \subseteq Sources(output.template[1])
    <3> SUFFICES ASSUME Rendered
                 PROVE  Pieces(answer.body) \subseteq Sources(output.template[1])
      OBVIOUS
    <3>1. /\ Understood /\ Fillable(output.template[1])
          /\ answer.body = Render(output.template[1])
      BY RenderedIs
    <3>2. Pieces(Render(output.template[1])) \subseteq Sources(output.template[1])
      BY <3>1, BodyPieces
    <3>3. QED
      BY <3>1, <3>2
  <2>2. QED
    BY <2>1 DEF DataStaysData, Sources, OwnPieces, KeyedPieces, ShownPieces, Passed
<1>2. QED
  BY <1>1, InitInvariant, StepInvariant, PTL DEF Spec

(* A rendered answer has resolved every path of its template, by keys and  *)
(* then attributes; a refused one has a path that keys do not lead along.  *)
THEOREM LoudHolds == Spec => []LoudTemplates
<1>1. IInv => LoudTemplates
  <2> SUFFICES ASSUME IInv, step = "done", Templated
               PROVE  LoudTemplates
    BY DEF LoudTemplates
  <2> DEFINE paths == Paths(output.template[1])
  <2>1. ASSUME answer.kind = "rendered", NEW path \in paths
        PROVE  \E n \in 0..Len(path) :
                 LET met == Keys(SubSeq(path, 1, n))
                 IN  /\ met \in DOMAIN Context
                     /\ n < Len(path) => Context[met][1] \in {"text", "list", "number", "nan"}
                     /\ \A i \in n + 1..Len(path) : path[i] \in Attributes
    <3>1. Understood /\ Fillable(output.template[1])
      BY <2>1, RenderedIs DEF Rendered
    <3>2. path \in AllPaths /\ Resolve(path) # <<>>
      BY <3>1, PathsAre DEF Fillable
    <3>3. PICK m \in 0..Len(path) : Led(path, Len(path), m)
      BY <3>1, <3>2, PathLeads
    <3>4. Len(path) \in Nat
      BY <3>2, KeysIs
    <3> DEFINE met == Keys(SubSeq(path, 1, m))
    <3>5. met = Keys(First(path, m))
      BY DEF First
    <3> HIDE DEF met
    <3>6. /\ met \in DOMAIN Context
          /\ m < Len(path) =>
               /\ Context[met][1] \in Attributed
               /\ \A i \in m + 1..Len(path) : path[i] \in Attributes
      BY <3>3, <3>5 DEF Led
    <3>7. m < Len(path) => Context[met][1] \in {"text", "list", "number", "nan"}
      BY <3>6 DEF Attributed
    <3>8. \A i \in m + 1..Len(path) : path[i] \in Attributes
      BY <3>4, <3>6
    <3>9. QED
      BY <3>6, <3>7, <3>8 DEF met
  <2>2. ASSUME answer.kind = "error and envelope"
        PROVE  \E path \in paths : Keys(path) \notin DOMAIN Context
    <3>1. PICK path \in paths : Resolve(path) = <<>>
      BY <2>2 DEF IInv, Unfilled
    <3>2. Understood /\ output \in Outputs
      BY <2>2 DEF IInv, Known, TypeOK
    <3>3. path \in AllPaths
      BY <3>2, TemplateIs, PathsAre
    <3>4. Keys(path) \notin DOMAIN Context
      <4> SUFFICES ASSUME Keys(path) \in DOMAIN Context PROVE FALSE
        OBVIOUS
      <4> DEFINE value == At(Context, Keys(path))
      <4>1. Resolve(path) = <<value>>
        BY <3>2, <3>3, KeysLead
      <4> HIDE DEF value
      <4>2. QED
        BY <3>1, <4>1
    <3>5. QED
      BY <3>4
  <2>3. QED
    BY <2>1, <2>2, Zenon DEF LoudTemplates
<1>2. QED
  BY <1>1, InitInvariant, StepInvariant, PTL DEF Spec

LEMMA ListIs ==
  ASSUME NEW values, SomeData(values)
  PROVE  /\ List(values)[<<>>] = <<"list">>
         /\ {At(List(values), a) : a \in {b \in DOMAIN List(values) : Len(b) = 1}} = Range(values)
<1> DEFINE tree == List(values)
           ones == {b \in DOMAIN tree : Len(b) = 1}
<1>1. \A k \in DOMAIN values : IsTree(values[k]) /\ <<"list", k>> \in AllParts
  BY SomeDataIs
<1>2. tree[<<>>] = <<"list">>
  BY <1>1, BranchIs DEF List
<1>3. \A k \in DOMAIN values : << <<"list", k>> >> \in DOMAIN tree
  BY <1>1, BranchIs DEF List
<1>4. \A k \in DOMAIN values : At(tree, << <<"list", k>> >>) = values[k]
  BY <1>1, BranchIs DEF List
<1>5. MadeOf(tree, "list", values)
  BY <1>1, BranchIs DEF List
<1> HIDE DEF tree
<1>6. ASSUME NEW b \in DOMAIN tree, Len(b) = 1
      PROVE  \E k \in DOMAIN values : b = << <<"list", k>> >>
  <2>1. b # <<>>
    BY <1>6
  <2>2. PICK k \in DOMAIN values : \E c \in DOMAIN values[k] : b = << <<"list", k>> >> \o c
    BY <1>5, <2>1 DEF MadeOf
  <2>3. PICK c \in DOMAIN values[k] : b = << <<"list", k>> >> \o c
    BY <2>2
  <2> DEFINE one == << <<"list", k>> >>
  <2>4. one \in Addresses /\ Len(one) = 1 /\ c \in Addresses
    BY <1>1, OnePart DEF IsTree
  <2> HIDE DEF one
  <2>5. b = one \o c
    BY <2>3 DEF one
  <2>6. Len(b) = Len(one) + Len(c)
    BY <2>4, <2>5, BelowConcat
  <2>7. Len(c) = 0
    <3>1. Len(c) \in Nat
      BY <2>4, LenProperties DEF Addresses
    <3>2. QED
      BY <1>6, <2>4, <2>6, <3>1
  <2>8. c = <<>>
    BY <2>4, <2>7, EmptySeq DEF Addresses
  <2>9. b = one
    BY <2>4, <2>5, <2>8, ConcatEmptySeq DEF Addresses
  <2>10. QED
    BY <2>9 DEF one
<1>7. \A k \in DOMAIN values : << <<"list", k>> >> \in ones
  <2> SUFFICES ASSUME NEW k \in DOMAIN values PROVE << <<"list", k>> >> \in ones
    OBVIOUS
  <2>1. Len(<< <<"list", k>> >>) = 1
    OBVIOUS
  <2>2. QED
    BY <1>3, <2>1
<1>8. \A b \in ones : \E k \in DOMAIN values : b = << <<"list", k>> >>
  BY <1>6
<1> HIDE DEF ones
<1>9. ASSUME NEW b \in ones PROVE At(tree, b) \in Range(values)
  BY <1>4, <1>8 DEF Range
<1>10. ASSUME NEW v \in Range(values) PROVE \E b \in ones : v = At(tree, b)
  <2>1. PICK k \in DOMAIN values : v = values[k]
    BY DEF Range
  <2>2. v = At(tree, << <<"list", k>> >>)
    BY <1>4, <2>1
  <2>3. QED
    BY <1>7, <2>2
<1>11. {At(tree, a) : a \in ones} = Range(values)
  BY <1>9, <1>10
<1>12. QED
  BY <1>2, <1>11 DEF tree, ones

(* An answer with a body shows what re.search or re.finditer found, and    *)
(* there was something; a 502 means that there was nothing to show.        *)
THEOREM StatusHolds == Spec => []StatusTellsMatches
<1>1. IInv => StatusTellsMatches
  <2> SUFFICES ASSUME IInv, output.mode = "regex_json"
               PROVE  StatusTellsMatches
    BY DEF StatusTellsMatches
  <2> DEFINE found == Range(print.matches)
  <2>1. SomeData(print.matches)
    BY ResponsesAssumption DEF IInv, TypeOK
  <2>2. print.matches # <<>> => 1 \in DOMAIN print.matches
    BY <2>1, SomeDataIs
  <2>3. ASSUME Understood
        PROVE  /\ found # {}
               /\ output.regex.multiple =>
                    /\ parsed[<<>>] = <<"list">>
                    /\ {At(parsed, a) : a \in {b \in DOMAIN parsed : Len(b) = 1}} = found
               /\ ~output.regex.multiple => parsed \in found
    <3>1. print.matches # <<>> /\ parsed = Parsed
      BY <2>3 DEF Understood, Malformed, Breaks
    <3>2. print.matches[1] \in found
      BY <2>2, <3>1 DEF Range
    <3>3. parsed = IF output.regex.multiple THEN List(print.matches) ELSE print.matches[1]
      BY <3>1 DEF Parsed
    <3>4. CASE output.regex.multiple
      <4>1. parsed = List(print.matches)
        BY <3>3, <3>4
      <4>2. /\ parsed[<<>>] = <<"list">>
            /\ {At(parsed, a) : a \in {b \in DOMAIN parsed : Len(b) = 1}} = found
        BY <2>1, <4>1, ListIs
      <4>3. QED
        BY <3>2, <3>4, <4>2
    <3>5. CASE ~output.regex.multiple
      BY <3>2, <3>3, <3>5
    <3>6. QED
      BY <3>4, <3>5
  <2>4. step \in {"render", "send"} \/ answer.status = 200 => Understood
    <3>1. CASE step \in {"render", "send"}
      BY <3>1 DEF IInv, Known
    <3>2. CASE answer.status = 200
      <4>1. step = "done"
        BY <3>2 DEF IInv, Waiting
      <4>2. answer.kind \in {"envelope", "rendered"}
        BY <3>2, <4>1 DEF IInv, TypeOK
      <4>3. QED
        BY <4>2 DEF IInv, Known
    <3>3. QED
      BY <3>1, <3>2
  <2>5. ASSUME answer.status = 502 PROVE found = {} \/ ~output.regex.flags_known
    <3>1. Malformed
      BY <2>5 DEF IInv, Refused
    <3>2. ~output.regex.flags_known \/ print.matches = <<>>
      BY <3>1 DEF Malformed
    <3>3. print.matches = <<>> => found = {}
      BY DEF Range
    <3>4. QED
      BY <3>2, <3>3
  <2>6. QED
    BY <2>3, <2>4, <2>5, Zenon DEF StatusTellsMatches
<1>2. QED
  BY <1>1, InitInvariant, StepInvariant, PTL DEF Spec
=============================================================================
