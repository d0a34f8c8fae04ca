---------------------------- MODULE RoutesProofs ----------------------------
(***************************************************************************)
(* What holds of Routes for any configuration, however many endpoints it   *)
(* lists and however its roots and routes are spelled.                     *)
(***************************************************************************)
EXTENDS Routes, Induction, SequenceTheorems

-----------------------------------------------------------------------------
(* Sets of numbers.                                                        *)

LEMMA MinIs ==
  ASSUME NEW S \in SUBSET Nat, S # {}
  PROVE  Min(S) \in S /\ \A n \in S : Min(S) <= n
  BY LeastNumber DEF Min

LEMMA MaxIs ==
  ASSUME NEW S \in SUBSET Nat, S # {}, NEW bound \in Nat, \A n \in S : n <= bound
  PROVE  Max(S) \in S /\ \A n \in S : n <= Max(S)
<1> DEFINE Bounds == {b \in Nat : \A n \in S : n <= b}
<1>1. bound \in Bounds /\ Bounds \in SUBSET Nat
  OBVIOUS
<1>2. PICK b \in Bounds : \A c \in Bounds : b <= c
  <2> HIDE DEF Bounds
  <2>1. QED
    BY <1>1, LeastNumber
<1>3. b \in S
  <2> SUFFICES ASSUME b \notin S
               PROVE  FALSE
    OBVIOUS
  <2>1. b \in Nat /\ \A n \in S : n < b
    OBVIOUS
  <2>2. b - 1 \in Nat /\ \A n \in S : n <= b - 1
    <3>1. PICK s \in S : TRUE
      OBVIOUS
    <3>2. s \in Nat /\ s < b
      BY <2>1
    <3>3. b - 1 \in Nat
      BY <2>1, <3>2
    <3>4. \A n \in S : n \in Nat /\ n < b
      BY <2>1
    <3>5. \A n \in S : n <= b - 1
      BY <2>1, <3>4
    <3>6. QED
      BY <3>3, <3>5
  <2>3. b - 1 \in Bounds
    BY <2>2
  <2>4. b <= b - 1
    BY <2>3, <1>2
  <2>5. QED
    BY <2>1, <2>4
<1>4. \E m \in S : \A n \in S : m >= n
  BY <1>3
<1>5. Max(S) \in S /\ \A n \in S : Max(S) >= n
  BY <1>4 DEF Max
<1>6. QED
  BY <1>5

-----------------------------------------------------------------------------
(* Short sequences.                                                        *)

LEMMA OneElement ==
  ASSUME NEW S, NEW a \in S
  PROVE  <<a>> \in Seq(S) /\ Len(<<a>>) = 1 /\ <<a>>[1] = a
  OBVIOUS

LEMMA TwoElements ==
  ASSUME NEW S, NEW a \in S, NEW b \in S
  PROVE  /\ <<a>> \o <<b>> \in Seq(S)
         /\ Len(<<a>> \o <<b>>) = 2
         /\ (<<a>> \o <<b>>)[1] = a /\ (<<a>> \o <<b>>)[2] = b
  OBVIOUS

LEMMA ThreeElements ==
  ASSUME NEW S, NEW a \in S, NEW b \in S, NEW c \in S
  PROVE  /\ <<a, b, c>> \in Seq(S)
         /\ Len(<<a, b, c>>) = 3
         /\ <<a, b, c>>[1] = a /\ <<a, b, c>>[2] = b /\ <<a, b, c>>[3] = c
  OBVIOUS

LEMMA TailOfThree ==
  ASSUME NEW a, NEW b, NEW c
  PROVE  ToSet(Tail(<<a, b, c>>)) = {b, c}
  BY DEF ToSet

-----------------------------------------------------------------------------
(* Paths.                                                                  *)

(* What a path is made of: strings, these literals among them, which the   *)
(* provers do not know to be in STRING.                                    *)
Segments == STRING \cup {"", "downloads"} \cup AllParameters

Paths == Seq(Segments)

LEMMA NamedIs ==
  ASSUME NEW path \in Paths
  PROVE  /\ Len(path) \in Nat /\ DOMAIN path = 1..Len(path)
         /\ Named(path) \in SUBSET (1..Len(path))
         /\ \A i \in 1..Len(path) : path[i] \in Segments
  BY LenProperties, ElementOfSeq DEF Paths, Named

LEMMA StripTyped ==
  ASSUME NEW path \in Paths
  PROVE  Strip(path) \in Paths
<1>1. CASE Named(path) = {}
  <2>1. Strip(path) = <<"">>
    BY <1>1 DEF Strip
  <2>2. "" \in Segments
    BY DEF Segments
  <2>3. QED
    BY <2>1, <2>2, OneElement DEF Paths
<1>2. CASE Named(path) # {}
  <2> DEFINE a == Min(Named(path))
             b == Max(Named(path))
  <2>1. /\ Len(path) \in Nat /\ Named(path) \in SUBSET Nat
        /\ \A n \in Named(path) : n <= Len(path)
    BY NamedIs
  <2>2. a \in Named(path) /\ b \in Named(path)
    BY <1>2, <2>1, MinIs, MaxIs
  <2>3. Strip(path) = SubSeq(path, a, b)
    BY <1>2 DEF Strip
  <2> HIDE DEF a, b
  <2>4. a \in 1..Len(path) /\ b \in 1..Len(path)
    BY <2>2, NamedIs
  <2>5. a \in Int /\ b \in Int /\ \A i \in a..b : path[i] \in Segments
    BY <2>1, <2>4, NamedIs
  <2>6. SubSeq(path, a, b) \in Seq(Segments)
    BY <2>5, SubSeqProperties
  <2>7. QED
    BY <2>3, <2>6 DEF Paths
<1>3. QED
  BY <1>1, <1>2

LEMMA TailIs ==
  /\ AllParameters = Parameters \cup {"{output_placeholder}", "{filename}"}
  /\ "" \notin AllParameters /\ "downloads" \in Segments
  /\ DownloadTail \in Paths
  /\ Len(DownloadTail) = 3
  /\ DownloadTail[1] = "downloads"
  /\ DownloadTail[2] = "{output_placeholder}"
  /\ DownloadTail[3] = "{filename}"
<1>1. ToSet(Tail(DownloadTail)) = {"{output_placeholder}", "{filename}"}
  BY TailOfThree, ZenonT(30) DEF DownloadTail
<1>2. AllParameters = Parameters \cup {"{output_placeholder}", "{filename}"}
  BY <1>1 DEF AllParameters
<1>3. "" \notin AllParameters
  BY <1>2, RoutesAssumption
<1>4. {"downloads", "{output_placeholder}", "{filename}"} \subseteq Segments
  BY <1>2 DEF Segments
<1>5. /\ DownloadTail \in Seq(Segments)
      /\ Len(DownloadTail) = 3
      /\ DownloadTail[1] = "downloads"
      /\ DownloadTail[2] = "{output_placeholder}"
      /\ DownloadTail[3] = "{filename}"
  <2>1. "downloads" \in Segments /\ "{output_placeholder}" \in Segments /\ "{filename}" \in Segments
    BY <1>4
  <2>2. QED
    BY <2>1, ThreeElements DEF DownloadTail
<1>6. QED
  BY <1>2, <1>3, <1>4, <1>5 DEF Paths

(* Only empty segments are cut off.                                        *)
LEMMA StripEndIs ==
  ASSUME NEW path \in Paths
  PROVE  /\ StripEnd(path) \in Paths
         /\ Len(StripEnd(path)) \in 0..Len(path)
         /\ \A i \in 1..Len(StripEnd(path)) : StripEnd(path)[i] = path[i]
         /\ \A i \in 1..Len(path) : i > Len(StripEnd(path)) => path[i] = ""
<1> DEFINE S == Named(path) \cup {0}
           m == Max(S)
<1>1. S \in SUBSET Nat /\ S # {} /\ Len(path) \in Nat /\ \A n \in S : n <= Len(path)
  BY NamedIs
<1>2. m \in S /\ \A n \in S : n <= m
  <2> HIDE DEF S
  <2>1. QED
    BY <1>1, MaxIs
<1>3. m \in 0..Len(path) /\ \A i \in 1..Len(path) : i > m => i \notin Named(path)
  <2>1. m \in Nat /\ m <= Len(path)
    BY <1>1, <1>2
  <2>2. \A n \in Named(path) : n <= m
    BY <1>2
  <2> HIDE DEF m
  <2>3. QED
    BY <1>1, <2>1, <2>2
<1>4. StripEnd(path) = SubSeq(path, 1, m)
  BY DEF StripEnd
<1> HIDE DEF m
<1>5. \A i \in 1..m : path[i] \in Segments
  BY <1>3, NamedIs
<1>6. m \in Nat
  BY <1>1, <1>3
<1>7. /\ SubSeq(path, 1, m) \in Seq(Segments)
      /\ Len(SubSeq(path, 1, m)) = m
      /\ \A i \in 1..m : SubSeq(path, 1, m)[i] = path[i]
  BY <1>5, <1>6, SubSeqProperties
<1>8. /\ StripEnd(path) \in Paths
      /\ Len(StripEnd(path)) = m
      /\ \A i \in 1..m : StripEnd(path)[i] = path[i]
  BY <1>4, <1>7 DEF Paths
<1>9. \A i \in 1..Len(path) : i \notin Named(path) => path[i] = ""
  BY NamedIs DEF Named
<1>10. QED
  BY <1>3, <1>6, <1>8, <1>9

LEMMA FullPathTyped ==
  ASSUME NEW c, c.root \in Roots, NEW e \in Endpoints
  PROVE  FullPath(c, e) \in Paths
<1>1. Roots \cup Spellings \subseteq Paths
  <2>1. STRING \subseteq Segments
    BY DEF Segments
  <2>2. QED
    BY <2>1, RoutesAssumption, SeqMonotonic DEF Paths
<1>2. e.route \in Paths /\ (e.root \in Paths \/ e.root = <<>>)
  BY <1>1 DEF Endpoints, Unset
<1>3. <<>> \in Paths
  BY EmptySeq DEF Paths
<1>4. Root(c, e) \in Paths
  BY <1>1, <1>2, <1>3 DEF Root
<1>5. NormalRoot(Root(c, e)) \in Paths
  BY <1>3, <1>4, StripTyped DEF NormalRoot
<1>6. Strip(e.route) \in Paths
  BY <1>2, StripTyped
<1>7. QED
  BY <1>5, <1>6, ConcatProperties DEF FullPath, Paths

(* The first part of a download path is that of its endpoint, and its last *)
(* three segments are the same everywhere.                                 *)
LEMMA DownloadPathIs ==
  ASSUME NEW path \in Paths
  PROVE  /\ DownloadPath(path, DownloadTail) \in Paths
         /\ Len(DownloadPath(path, DownloadTail)) = Len(StripEnd(path)) + 3
         /\ \A i \in 1..Len(StripEnd(path)) :
              DownloadPath(path, DownloadTail)[i] = StripEnd(path)[i]
         /\ DownloadPath(path, DownloadTail)[Len(StripEnd(path)) + 3] = "{filename}"
         /\ HasParameters(DownloadPath(path, DownloadTail))
<1> DEFINE base == StripEnd(path)
           full == base \o DownloadTail
<1>1. base \in Paths /\ Len(base) \in Nat
  BY StripEndIs, NamedIs
<1> HIDE DEF base
<1>2. /\ full \in Paths
      /\ Len(full) = Len(base) + 3
      /\ \A i \in 1..Len(base) + 3 :
           full[i] = IF i <= Len(base) THEN base[i] ELSE DownloadTail[i - Len(base)]
  <2>1. base \in Seq(Segments) /\ DownloadTail \in Seq(Segments)
    BY <1>1, TailIs DEF Paths
  <2>2. Len(DownloadTail) = 3
    BY TailIs
  <2>3. /\ full \in Seq(Segments)
        /\ Len(full) = Len(base) + Len(DownloadTail)
        /\ \A i \in 1..Len(base) + Len(DownloadTail) :
             full[i] = IF i <= Len(base) THEN base[i] ELSE DownloadTail[i - Len(base)]
    BY <2>1, ConcatProperties, Zenon
  <2> HIDE DEF full
  <2>4. QED
    BY <2>2, <2>3 DEF Paths
<1> HIDE DEF full
<1>3. \A i \in 1..Len(base) : full[i] = base[i]
  BY <1>1, <1>2
<1>4. full[Len(base) + 3] = "{filename}"
  <2>1. Len(base) + 3 \in 1..Len(base) + 3 /\ ~(Len(base) + 3 <= Len(base))
    BY <1>1
  <2>2. full[Len(base) + 3] = DownloadTail[(Len(base) + 3) - Len(base)]
    BY <1>2, <2>1
  <2>3. (Len(base) + 3) - Len(base) = 3
    BY <1>1
  <2>4. QED
    BY <2>2, <2>3, TailIs
<1>5. HasParameters(full)
  <2>1. Len(base) + 3 \in DOMAIN full
    BY <1>1, <1>2, NamedIs
  <2>2. "{filename}" \in ToSet(full) /\ "{filename}" \in AllParameters
    BY <2>1, <1>4, TailIs DEF ToSet
  <2>3. QED
    BY <2>2 DEF HasParameters
<1>6. QED
  BY <1>2, <1>3, <1>4, <1>5 DEF DownloadPath, full, base

(* A path without parameters fits itself, and no other path of literal     *)
(* segments does.                                                          *)
LEMMA FitsItself ==
  ASSUME NEW path
  PROVE  Fits(path, path)
  BY TailIs DEF Fits

LEMMA OnlyFit ==
  ASSUME NEW pattern \in Paths, NEW path \in Paths, ~HasParameters(pattern), Fits(pattern, path)
  PROVE  pattern = path
<1>1. Len(pattern) = Len(path) /\ \A i \in 1..Len(path) : pattern[i] \notin AllParameters
  BY NamedIs DEF Fits, HasParameters, ToSet
<1>2. \A i \in 1..Len(path) : pattern[i] = path[i]
  BY <1>1, NamedIs DEF Fits
<1>3. QED
  BY <1>1, <1>2, SeqEqual DEF Paths

-----------------------------------------------------------------------------
(* The table.                                                              *)

LEMMA MaxIsNumber == MaxEndpoints \in Nat
  BY RoutesAssumption

Entries ==
  [kind : {"infra", "download", "endpoint"}, owner : 0..MaxEndpoints,
   method : Methods, path : Paths]

PathOf(i) == FullPath(config, config.endpoints[i])

(* What an entry of the table says of the endpoint it belongs to.          *)
Rightful(r) ==
  /\ r.kind = "infra" => r.owner = 0 /\ r.method = "GET" /\ r.path \in Infra
  /\ r.kind # "infra" => r.owner \in 1..MaxEndpoints
  /\ r.kind = "endpoint" => /\ r.method = config.endpoints[r.owner].method
                            /\ r.path = PathOf(r.owner)
  /\ r.kind = "download" => /\ r.method = "GET"
                            /\ r.path = DownloadPath(PathOf(r.owner), DownloadTail)

LEMMA InfraRoutesAre ==
  /\ InfraRoutes \in Seq(Entries)
  /\ \A i \in DOMAIN InfraRoutes : InfraRoutes[i].kind = "infra" /\ Rightful(InfraRoutes[i])
  /\ \A path \in Infra : \E i \in DOMAIN InfraRoutes :
       InfraRoutes[i].method = "GET" /\ InfraRoutes[i].path = path
<1> DEFINE S == {Route("infra", 0, "GET", path) : path \in Infra}
           n == Cardinality(S)
<1>1. \A r \in S : r \in Entries /\ r.kind = "infra" /\ Rightful(r)
  <2> SUFFICES ASSUME NEW path \in Infra
               PROVE  LET r == Route("infra", 0, "GET", path)
                      IN  r \in Entries /\ r.kind = "infra" /\ Rightful(r)
    OBVIOUS
  <2>1. STRING \subseteq Segments
    BY DEF Segments
  <2>2. path \in Paths
    BY <2>1, RoutesAssumption, SeqMonotonic DEF Paths
  <2>3. 0 \in 0..MaxEndpoints
    BY MaxIsNumber
  <2>4. QED
    BY <2>2, <2>3 DEF Route, Entries, Methods, Rightful
<1>2. IsFiniteSet(S)
  <2> DEFINE f == [path \in Infra |-> Route("infra", 0, "GET", path)]
  <2>1. f \in Surjection(Infra, S)
    BY DEF Surjection
  <2> HIDE DEF f, S
  <2>2. QED
    BY <2>1, RoutesAssumption, FS_Surjection
<1> HIDE DEF S
<1>3. n \in Nat /\ ExistsBijection(1..n, S)
  BY <1>2, FS_CardinalityType
<1>4. InfraRoutes = CHOOSE f \in [1..n -> S] : IsInjective(f)
  BY DEF InfraRoutes, SetToSeq, S
<1> HIDE DEF n
<1>5. InfraRoutes \in [1..n -> S] /\ IsInjective(InfraRoutes)
  BY <1>3, <1>4 DEF ExistsBijection, Bijection, Injection
<1>6. \A r \in S : \E i \in 1..n : InfraRoutes[i] = r
  <2>1. InfraRoutes \in Injection(1..n, S)
    BY <1>5 DEF Injection
  <2>2. Cardinality(1..n) = n
    BY <1>3, FS_Interval
  <2>3. InfraRoutes \in Surjection(1..n, S)
    BY <1>2, <2>1, <2>2, FS_Injection DEF n
  <2>4. QED
    BY <2>3 DEF Surjection
<1>7. InfraRoutes \in Seq(Entries) /\ DOMAIN InfraRoutes = 1..n
  <2>1. InfraRoutes \in [1..n -> Entries]
    BY <1>1, <1>5
  <2>2. QED
    BY <1>3, <2>1, SeqDef
<1>8. \A path \in Infra : \E i \in 1..n :
        InfraRoutes[i].method = "GET" /\ InfraRoutes[i].path = path
  <2> SUFFICES ASSUME NEW path \in Infra
               PROVE  \E i \in 1..n :
                        InfraRoutes[i].method = "GET" /\ InfraRoutes[i].path = path
    OBVIOUS
  <2>1. Route("infra", 0, "GET", path) \in S
    BY DEF S
  <2>2. PICK i \in 1..n : InfraRoutes[i] = Route("infra", 0, "GET", path)
    BY <1>6, <2>1
  <2>3. QED
    BY <2>2 DEF Route
<1>9. QED
  BY <1>1, <1>5, <1>7, <1>8

Configs == [root : Roots, endpoints : TupleOf(Endpoints, MaxEndpoints)]

LEMMA ConfigIs ==
  ASSUME config \in Configs
  PROVE  /\ DOMAIN config.endpoints = 1..MaxEndpoints
         /\ Len(config.endpoints) = MaxEndpoints
         /\ \A i \in 1..MaxEndpoints :
              /\ config.endpoints[i] \in Endpoints
              /\ PathOf(i) \in Paths
<1>1. config.endpoints \in [1..MaxEndpoints -> Endpoints] /\ config.root \in Roots
  BY DEF Configs, TupleOf
<1>2. Len(config.endpoints) = MaxEndpoints
  <2>1. config.endpoints \in Seq(Endpoints)
    BY <1>1, MaxIsNumber, SeqDef
  <2>2. DOMAIN config.endpoints = 1..Len(config.endpoints) /\ Len(config.endpoints) \in Nat
    BY <2>1, LenProperties
  <2>3. 1..MaxEndpoints = 1..Len(config.endpoints)
    BY <1>1, <2>2
  <2>4. QED
    BY <2>2, <2>3, MaxIsNumber
<1>3. \A i \in 1..MaxEndpoints : config.endpoints[i] \in Endpoints
  BY <1>1
<1>4. \A i \in 1..MaxEndpoints : PathOf(i) \in Paths
  BY <1>1, <1>3, FullPathTyped DEF PathOf
<1>5. QED
  BY <1>1, <1>2, <1>3, <1>4

(* What one endpoint adds to the table: its own route comes last.          *)
LEMMA RoutesOfAre ==
  ASSUME config \in Configs, NEW n \in 1..MaxEndpoints
  PROVE  /\ RoutesOf(n) \in Seq(Entries)
         /\ Len(RoutesOf(n)) \in 1..2
         /\ \A i \in 1..Len(RoutesOf(n)) :
              /\ RoutesOf(n)[i].owner = n
              /\ RoutesOf(n)[i].kind # "infra"
              /\ Rightful(RoutesOf(n)[i])
              /\ RoutesOf(n)[i].kind = "endpoint" => i = Len(RoutesOf(n))
<1> DEFINE own  == Route("endpoint", n, config.endpoints[n].method, PathOf(n))
           down == Route("download", n, "GET", DownloadPath(PathOf(n), DownloadTail))
<1>1. config.endpoints[n] \in Endpoints /\ PathOf(n) \in Paths /\ n \in 0..MaxEndpoints
  BY ConfigIs, MaxIsNumber
<1>2. /\ own \in Entries /\ own.kind = "endpoint" /\ own.owner = n
      /\ Rightful(own)
  BY <1>1 DEF Route, Entries, Rightful, Endpoints
<1>3. /\ down \in Entries /\ down.kind = "download" /\ down.owner = n
      /\ Rightful(down)
  <2>1. DownloadPath(PathOf(n), DownloadTail) \in Paths
    BY <1>1, DownloadPathIs
  <2>2. QED
    BY <1>1, <2>1 DEF Route, Entries, Rightful, Methods
<1>4. RoutesOf(n) = (IF config.endpoints[n].output_files THEN <<down>> ELSE <<>>) \o <<own>>
  BY DEF RoutesOf, PathOf
<1> HIDE DEF own, down
<1>5. /\ <<own>> \in Seq(Entries) /\ Len(<<own>>) = 1 /\ <<own>>[1] = own
      /\ <<down>> \in Seq(Entries) /\ Len(<<down>>) = 1 /\ <<down>>[1] = down
  BY <1>2, <1>3, OneElement
<1>6. CASE config.endpoints[n].output_files
  <2>1. RoutesOf(n) = <<down>> \o <<own>>
    BY <1>4, <1>6
  <2>2. /\ <<down>> \o <<own>> \in Seq(Entries)
        /\ Len(<<down>> \o <<own>>) = 2
        /\ (<<down>> \o <<own>>)[1] = down /\ (<<down>> \o <<own>>)[2] = own
    BY <1>2, <1>3, TwoElements
  <2> DEFINE both == <<down>> \o <<own>>
  <2>3. /\ both \in Seq(Entries) /\ Len(both) = 2
        /\ both[1] = down /\ both[2] = own /\ RoutesOf(n) = both
    BY <2>1, <2>2, Zenon
  <2> HIDE DEF both
  <2>4. \A i \in 1..2 : (i = 1 /\ both[i] = down) \/ (i = 2 /\ both[i] = own)
    BY <2>3
  <2>5. \A i \in 1..2 : /\ both[i].owner = n
                        /\ both[i].kind # "infra"
                        /\ Rightful(both[i])
                        /\ both[i].kind = "endpoint" => i = 2
    <3> SUFFICES ASSUME NEW i \in 1..2
                 PROVE  /\ both[i].owner = n
                        /\ both[i].kind # "infra"
                        /\ Rightful(both[i])
                        /\ both[i].kind = "endpoint" => i = 2
      OBVIOUS
    <3>1. CASE i = 1 /\ both[i] = down
      BY <3>1, <1>3
    <3>2. CASE i = 2 /\ both[i] = own
      BY <3>2, <1>2
    <3>3. QED
      BY <2>4, <3>1, <3>2
  <2>6. 2 \in 1..2
    OBVIOUS
  <2>7. QED
    BY <2>3, <2>5, <2>6, Zenon
<1>7. CASE ~config.endpoints[n].output_files
  <2>1. RoutesOf(n) = <<own>>
    BY <1>4, <1>5, <1>7, ConcatEmptySeq
  <2>2. QED
    BY <1>2, <1>5, <2>1
<1>8. QED
  BY <1>6, <1>7

-----------------------------------------------------------------------------
(* The service as it boots.                                                *)

Loaded == phase \in {"registering", "failed", "serving"}

(* The table starts with the service's own routes, the entries after them  *)
(* are what their endpoints ask for, and the endpoints have had their turn *)
(* once each, in their order.                                              *)
IInv ==
  /\ config \in Configs
  /\ phase \in {"loading", "registering", "serving", "invalid", "failed"}
  /\ table \in Seq(Entries)
  /\ Loaded => Unique
  /\ Loaded => \A i \in DOMAIN InfraRoutes : i \in DOMAIN table /\ table[i] = InfraRoutes[i]
  /\ ~Loaded => table = <<>>
  /\ \A i \in DOMAIN table : Rightful(table[i])
  /\ \A i, j \in DOMAIN table :
       /\ table[i].kind = "endpoint" /\ table[j].kind = "endpoint"
       /\ table[i].owner = table[j].owner
       => i = j
  /\ \E k \in 0..MaxEndpoints : Registered = 1..k

LEMMA NextIs ==
  ASSUME NEW k \in 0..MaxEndpoints, Registered = 1..k
  PROVE  NextEndpoint = k + 1
<1>1. k \in Nat
  BY MaxIsNumber
<1>2. Cardinality(1..k) = k
  BY <1>1, FS_Interval
<1>3. QED
  BY <1>2 DEF NextEndpoint

LEMMA RegisterKeeps ==
  ASSUME IInv, Register
  PROVE  IInv'
<1> DEFINE n   == NextEndpoint
           new == RoutesOf(n)
<1>1. PICK k \in 0..MaxEndpoints : Registered = 1..k
  BY DEF IInv
<1>2. n = k + 1
  BY <1>1, NextIs
<1>3. /\ phase = "registering" /\ n <= Len(config.endpoints)
      /\ table' = table \o new /\ config' = config /\ phase' = phase
  BY DEF Register, Pending
<1>4. k + 1 \in 1..MaxEndpoints /\ n \in 1..MaxEndpoints /\ k \in Nat
  BY <1>2, <1>3, ConfigIs, MaxIsNumber DEF IInv
<1> HIDE DEF n
<1>5. /\ new \in Seq(Entries)
      /\ Len(new) \in 1..2
      /\ \A i \in 1..Len(new) :
           /\ new[i].owner = n
           /\ new[i].kind # "infra"
           /\ Rightful(new[i])
           /\ new[i].kind = "endpoint" => i = Len(new)
  BY <1>4, RoutesOfAre DEF IInv
<1> HIDE DEF new
<1> DEFINE m == Len(table)
<1>6. table \in Seq(Entries) /\ m \in Nat /\ DOMAIN table = 1..m
  BY LenProperties DEF IInv
<1>7. /\ table' \in Seq(Entries)
      /\ DOMAIN table' = 1..m + Len(new)
      /\ \A i \in 1..m + Len(new) : table'[i] = IF i <= m THEN table[i] ELSE new[i - m]
  <2>1. /\ table \o new \in Seq(Entries)
        /\ Len(table \o new) = m + Len(new)
        /\ \A i \in 1..m + Len(new) :
             (table \o new)[i] = IF i <= m THEN table[i] ELSE new[i - m]
    BY <1>5, <1>6, ConcatProperties
  <2>2. DOMAIN (table \o new) = 1..m + Len(new)
    BY <2>1, LenProperties
  <2>3. QED
    BY <1>3, <2>1, <2>2
<1> HIDE DEF m
<1>8. \A i \in 1..m : i \in DOMAIN table' /\ table'[i] = table[i]
  BY <1>5, <1>6, <1>7
<1>9. \A i \in DOMAIN table' : i \notin 1..m =>
        i - m \in 1..Len(new) /\ table'[i] = new[i - m]
  BY <1>5, <1>6, <1>7
<1>10. m + 1 \in DOMAIN table' /\ table'[m + 1].owner = n
  <2>1. m + 1 \in 1..m + Len(new) /\ m + 1 \notin 1..m
    BY <1>5, <1>6, SMTT(30)
  <2>2. m + 1 \in DOMAIN table'
    BY <1>7, <2>1
  <2>3. QED
    BY <1>5, <1>9, <2>1, <2>2
<1>11. (\A i \in DOMAIN table : Rightful(table[i]))'
  <2>1. \A i \in 1..m : Rightful(table[i])
    BY <1>6 DEF IInv
  <2>2. \A i \in DOMAIN table' : Rightful(table'[i])
    BY <1>5, <1>8, <1>9, <2>1
  <2>3. QED
    BY <1>3, <2>2 DEF Rightful, PathOf
<1>12. Registered' = 1..k + 1
  <2>1. \A i \in 1..m : table[i].owner # 0 => table[i].owner \in 1..k
    BY <1>1, <1>6 DEF Registered
  <2>2. \A o \in 1..k : \E i \in 1..m : table[i].owner = o
    BY <1>1, <1>6 DEF Registered
  <2>3. Registered' = {table'[i].owner : i \in DOMAIN table'} \ {0}
    BY DEF Registered
  <2>4. \A i \in DOMAIN table' : table'[i].owner # 0 => table'[i].owner \in 1..k + 1
    BY <1>2, <1>4, <1>5, <1>8, <1>9, <2>1
  <2>5. \A o \in 1..k + 1 : \E i \in DOMAIN table' : table'[i].owner = o
    <3> SUFFICES ASSUME NEW o \in 1..k + 1
                 PROVE  \E i \in DOMAIN table' : table'[i].owner = o
      OBVIOUS
    <3>1. CASE o \in 1..k
      BY <3>1, <1>8, <2>2
    <3>2. CASE o = k + 1
      BY <3>2, <1>2, <1>10
    <3>3. QED
      BY <1>4, <3>1, <3>2
  <2>6. QED
    BY <1>4, <2>3, <2>4, <2>5
<1>13. ASSUME NEW i \in DOMAIN table', NEW j \in DOMAIN table',
              table'[i].kind = "endpoint", table'[j].kind = "endpoint",
              table'[i].owner = table'[j].owner
       PROVE  i = j
  <2>1. \A o \in 1..m : table[o].owner # n
    <3>1. \A o \in 1..m : table[o].owner = 0 \/ table[o].owner \in 1..k
      BY <1>1, <1>6 DEF Registered
    <3>2. n \notin 1..k /\ n # 0
      BY <1>2, <1>4
    <3>3. QED
      BY <3>1, <3>2
  <2>2. CASE i \in 1..m /\ j \in 1..m
    BY <2>2, <1>6, <1>8, <1>13 DEF IInv
  <2>3. CASE i \notin 1..m /\ j \notin 1..m
    <3>1. i - m = Len(new) /\ j - m = Len(new)
      BY <2>3, <1>5, <1>9, <1>13
    <3>2. i \in Int /\ j \in Int /\ m \in Int
      BY <1>6, <1>7
    <3>3. QED
      BY <3>1, <3>2, <1>5
  <2>4. CASE i \in 1..m /\ j \notin 1..m
    BY <2>1, <2>4, <1>5, <1>8, <1>9, <1>13
  <2>5. CASE i \notin 1..m /\ j \in 1..m
    BY <2>1, <2>5, <1>5, <1>8, <1>9, <1>13
  <2>6. QED
    BY <2>2, <2>3, <2>4, <2>5
<1>14. Loaded' /\ Loaded /\ Unique'
  <2>1. Loaded /\ Loaded'
    BY <1>3 DEF Loaded
  <2>2. Unique' <=> Unique
    BY <1>3 DEF Unique, RouteKey
  <2>3. QED
    BY <2>1, <2>2 DEF IInv
<1>15. \A i \in DOMAIN InfraRoutes : i \in DOMAIN table' /\ table'[i] = InfraRoutes[i]
  BY <1>6, <1>8, <1>14 DEF IInv
<1>16. config' \in Configs /\ phase' \in {"loading", "registering", "serving", "invalid", "failed"}
  BY <1>3 DEF IInv
<1>17. \E l \in 0..MaxEndpoints : Registered' = 1..l
  <2>1. k + 1 \in 0..MaxEndpoints
    BY <1>4, MaxIsNumber
  <2>2. QED
    BY <1>12, <2>1
<1>18. QED
  BY <1>7, <1>11, <1>13, <1>14, <1>15, <1>16, <1>17 DEF IInv

LEMMA IInvHolds == Spec => []IInv
<1>1. Init => IInv
  <2> SUFFICES ASSUME Init
               PROVE  IInv
    OBVIOUS
  <2>1. config \in Configs /\ phase = "loading" /\ table = <<>>
    BY DEF Init, Configs
  <2>2. table \in Seq(Entries) /\ DOMAIN table = {}
    BY <2>1, EmptySeq, LenProperties
  <2>3. Registered = 1..0 /\ 0 \in 0..MaxEndpoints
    BY <2>2, MaxIsNumber DEF Registered
  <2>4. QED
    BY <2>1, <2>2, <2>3 DEF IInv, Loaded
<1>2. IInv /\ [Next]_vars => IInv'
  <2> SUFFICES ASSUME IInv, [Next]_vars
               PROVE  IInv'
    OBVIOUS
  <2>1. ASSUME config' = config, table' = table
        PROVE  /\ config' \in Configs /\ table' \in Seq(Entries)
               /\ Registered' = Registered /\ Unique' = Unique
               /\ (\A i \in DOMAIN table : Rightful(table[i]))'
    BY <2>1 DEF IInv, Registered, Unique, RouteKey, Rightful, PathOf
  <2>2. CASE Reject
    BY <2>1, <2>2 DEF Reject, IInv, Loaded
  <2>3. CASE Load
    <3>1. /\ phase = "loading" /\ phase' = "registering" /\ Unique
          /\ config' = config /\ table' = InfraRoutes
      BY <2>3 DEF Load
    <3>2. config' \in Configs /\ Unique' /\ Loaded'
      BY <3>1 DEF IInv, Unique, RouteKey, Loaded
    <3>3. table' \in Seq(Entries) /\ \A i \in DOMAIN table' : table'[i].kind = "infra"
      BY <3>1, InfraRoutesAre
    <3>4. (\A i \in DOMAIN table : Rightful(table[i]))'
      BY <3>1, InfraRoutesAre DEF Rightful, PathOf
    <3>5. Registered' = 1..0 /\ 0 \in 0..MaxEndpoints
      <4>1. \A i \in DOMAIN table' : table'[i].owner = 0
        BY <3>1, InfraRoutesAre DEF Rightful
      <4>2. Registered' = {}
        BY <4>1 DEF Registered
      <4>3. QED
        BY <4>2, MaxIsNumber
    <3>6. QED
      BY <3>1, <3>2, <3>3, <3>4, <3>5 DEF IInv
  <2>4. CASE Register
    BY <2>4, RegisterKeeps
  <2>5. CASE RegisterFails
    <3>1. config' = config /\ table' = table /\ phase = "registering" /\ phase' = "failed"
      BY <2>5 DEF RegisterFails, Pending
    <3>2. Loaded /\ Loaded'
      BY <3>1 DEF Loaded
    <3>3. QED
      BY <2>1, <3>1, <3>2 DEF IInv
  <2>6. CASE Serve
    <3>1. config' = config /\ table' = table /\ phase = "registering" /\ phase' = "serving"
      BY <2>6 DEF Serve
    <3>2. Loaded /\ Loaded'
      BY <3>1 DEF Loaded
    <3>3. QED
      BY <2>1, <3>1, <3>2 DEF IInv
  <2>7. CASE UNCHANGED vars
    <3>1. config' = config /\ table' = table /\ phase' = phase
      BY <2>7 DEF vars
    <3>2. Loaded' = Loaded
      BY <3>1 DEF Loaded
    <3>3. QED
      BY <2>1, <3>1, <3>2 DEF IInv
  <2>8. QED
    BY <2>2, <2>3, <2>4, <2>5, <2>6, <2>7 DEF Next, Booted
<1>3. QED
  BY <1>1, <1>2, PTL DEF Spec

(* The table only ever names endpoints of the configuration.               *)
THEOREM TypeCorrect == Spec => []TypeOK
<1>1. IInv => TypeOK
  <2> SUFFICES ASSUME IInv
               PROVE  TypeOK
    OBVIOUS
  <2>1. \A r \in ToSet(table) : r \in Entries
    BY ElementOfSeq, LenProperties DEF IInv, ToSet
  <2>2. Registered \subseteq DOMAIN config.endpoints
    <3>1. PICK k \in 0..MaxEndpoints : Registered = 1..k
      BY DEF IInv
    <3>2. 1..k \subseteq 1..MaxEndpoints
      BY MaxIsNumber
    <3>3. QED
      BY <3>1, <3>2, ConfigIs DEF IInv
  <2>3. QED
    BY <2>1, <2>2 DEF TypeOK, Entries, IInv
<1>2. QED
  BY <1>1, IInvHolds, PTL

-----------------------------------------------------------------------------
(* The route that answers.                                                 *)

LEMMA TableIs ==
  ASSUME IInv
  PROVE  \A i \in DOMAIN table : i \in Nat /\ i >= 1 /\ table[i] \in Entries
  BY LenProperties, ElementOfSeq DEF IInv

LEMMA FirstAnswers ==
  ASSUME IInv, NEW method, NEW path, NEW i \in Fitting(method, path)
  PROVE  \E j \in DOMAIN table : j <= i /\ Answers(j, method, path)
<1>1. Fitting(method, path) \in SUBSET Nat
  BY TableIs DEF Fitting
<1>2. PICK j \in Fitting(method, path) : \A k \in Fitting(method, path) : j <= k
  BY <1>1, LeastNumber
<1>3. j \in DOMAIN table
  BY DEF Fitting
<1>4. QED
  BY <1>2, <1>3 DEF Answers

(* The probes and /metrics are answered by the service itself, whatever    *)
(* endpoints are configured.                                               *)
THEOREM InfraStays == Spec => []InfraAnswers
<1>1. IInv => InfraAnswers
  <2> SUFFICES ASSUME IInv, phase = "serving", NEW path \in Infra
               PROVE  \E i \in DOMAIN table : table[i].kind = "infra" /\ Answers(i, "GET", path)
    BY DEF InfraAnswers
  <2>1. PICK i \in DOMAIN InfraRoutes : InfraRoutes[i].method = "GET" /\ InfraRoutes[i].path = path
    BY InfraRoutesAre
  <2>2. \A k \in DOMAIN InfraRoutes : k \in DOMAIN table /\ table[k] = InfraRoutes[k]
    BY DEF IInv, Loaded
  <2>3. i \in Fitting("GET", path)
    BY <2>1, <2>2, FitsItself DEF Fitting
  <2>4. PICK j \in DOMAIN table : j <= i /\ Answers(j, "GET", path)
    BY <2>3, FirstAnswers
  <2>5. j \in DOMAIN InfraRoutes
    <3>1. DOMAIN InfraRoutes = 1..Len(InfraRoutes) /\ Len(InfraRoutes) \in Nat
      BY InfraRoutesAre, LenProperties
    <3>2. j \in Nat /\ j >= 1
      BY TableIs
    <3>3. QED
      BY <2>1, <2>4, <3>1, <3>2
  <2>6. QED
    BY <2>2, <2>4, <2>5, InfraRoutesAre
<1>2. QED
  BY <1>1, IInvHolds, PTL

(* Only a route of the service itself, or one with parameters declared     *)
(* before it, answers in the place of an endpoint without parameters: the  *)
(* validator leaves no two endpoints the same method and path.             *)
THEOREM PlainEndpointsAreReached == Spec => []PlainEndpointsReached
<1>1. IInv => PlainEndpointsReached
  <2> SUFFICES ASSUME IInv, phase = "serving",
                      NEW i \in DOMAIN table,
                      table[i].kind = "endpoint", ~HasParameters(table[i].path)
               PROVE  \E j \in DOMAIN table :
                        /\ Answers(j, table[i].method, table[i].path)
                        /\ j = i \/ table[j].kind = "infra" \/ HasParameters(table[j].path)
    BY DEF PlainEndpointsReached
  <2> DEFINE method == table[i].method
             path   == table[i].path
  <2>1. i \in Fitting(method, path)
    BY FitsItself DEF Fitting
  <2>2. PICK j \in DOMAIN table : j <= i /\ Answers(j, method, path)
    BY <2>1, FirstAnswers
  <2>3. table[j].method = method /\ Fits(table[j].path, path)
    BY <2>2 DEF Answers, Fitting
  <2>4. ASSUME table[j].kind # "infra", ~HasParameters(table[j].path)
        PROVE  j = i
    <3>1. table[j] \in Entries /\ table[i] \in Entries /\ Rightful(table[j]) /\ Rightful(table[i])
      BY TableIs DEF IInv
    <3>2. table[j].path \in Paths /\ path \in Paths
      BY <3>1 DEF Entries
    <3>3. table[j].path = path
      BY <3>2, <2>3, <2>4, OnlyFit
    <3>4. table[j].kind # "download"
      <4> SUFFICES ASSUME table[j].kind = "download"
                   PROVE  FALSE
        OBVIOUS
      <4>1. table[j].owner \in 1..MaxEndpoints
        BY <3>1 DEF Rightful
      <4>2. PathOf(table[j].owner) \in Paths
        BY <4>1, ConfigIs DEF IInv
      <4>3. QED
        BY <3>1, <4>2, <2>4, DownloadPathIs DEF Rightful
    <3>5. table[j].kind = "endpoint"
      BY <3>1, <3>4, <2>4 DEF Entries
    <3>6. /\ table[j].owner \in DOMAIN config.endpoints /\ table[i].owner \in DOMAIN config.endpoints
          /\ RouteKey(config.endpoints[table[j].owner]) = RouteKey(config.endpoints[table[i].owner])
      BY <3>1, <3>3, <3>5, <2>3, ConfigIs DEF Rightful, RouteKey, PathOf, IInv
    <3>7. table[j].owner = table[i].owner
      BY <3>6 DEF IInv, Unique, Loaded
    <3>8. QED
      BY <3>5, <3>7 DEF IInv
  <2>5. QED
    BY <2>2, <2>4
<1>2. QED
  BY <1>1, IInvHolds, PTL

LEMMA UrlIs ==
  ASSUME NEW path \in Paths, NEW text \in Texts
  PROVE  /\ Url(path, text) \in Paths
         /\ Len(Url(path, text)) = Len(path)
         /\ \A i \in 1..Len(path) : path[i] \notin AllParameters => Url(path, text)[i] = path[i]
         /\ Fits(path, Url(path, text))
<1> DEFINE url == Url(path, text)
<1>1. Len(path) \in Nat /\ DOMAIN path = 1..Len(path) /\ \A i \in 1..Len(path) : path[i] \in Segments
  BY NamedIs
<1>2. text \in Segments /\ text # ""
  BY RoutesAssumption, Zenon DEF Segments
<1>3. url = [i \in 1..Len(path) |-> IF path[i] \in AllParameters THEN text ELSE path[i]]
  BY <1>1 DEF Url
<1>4. url \in [1..Len(path) -> Segments]
  BY <1>1, <1>2, <1>3
<1>5. url \in Paths
  BY <1>1, <1>4, SeqDef DEF Paths
<1>6. DOMAIN url = 1..Len(path) /\ DOMAIN url = 1..Len(url) /\ Len(url) \in Nat
  <2>1. DOMAIN url = 1..Len(path)
    BY <1>3
  <2> HIDE DEF url
  <2>2. QED
    BY <2>1, <1>5, NamedIs
<1>7. Len(url) = Len(path)
  <2> HIDE DEF url
  <2>1. QED
    BY <1>1, <1>6
<1>8. \A i \in 1..Len(path) :
        IF path[i] \in AllParameters THEN url[i] # "" ELSE url[i] = path[i]
  BY <1>2, <1>3
<1> HIDE DEF url
<1>9. Fits(path, url)
  BY <1>6, <1>7, <1>8 DEF Fits
<1>10. QED
  BY <1>5, <1>7, <1>8, <1>9 DEF url

(* What is cut off the end of a path is no parameter.                      *)
LEMMA BaseKeepsParameters ==
  ASSUME NEW path \in Paths, ~HasParameters(StripEnd(path))
  PROVE  ~HasParameters(path)
<1>1. StripEnd(path) \in Paths /\ Len(StripEnd(path)) \in 0..Len(path)
  BY StripEndIs
<1>2. /\ DOMAIN StripEnd(path) = 1..Len(StripEnd(path)) /\ Len(StripEnd(path)) \in Nat
      /\ DOMAIN path = 1..Len(path) /\ Len(path) \in Nat
  BY <1>1, NamedIs
<1>3. \A i \in 1..Len(StripEnd(path)) : StripEnd(path)[i] \notin AllParameters
  BY <1>2 DEF HasParameters, ToSet
<1>4. \A i \in 1..Len(path) : path[i] \notin AllParameters
  <2> SUFFICES ASSUME NEW i \in 1..Len(path)
               PROVE  path[i] \notin AllParameters
    OBVIOUS
  <2>1. CASE i > Len(StripEnd(path))
    BY <2>1, StripEndIs, TailIs
  <2>2. CASE ~(i > Len(StripEnd(path)))
    <3>1. i \in 1..Len(StripEnd(path))
      BY <1>2, <2>2
    <3>2. QED
      BY <3>1, <1>3, StripEndIs
  <2>3. QED
    BY <2>1, <2>2
<1>5. QED
  BY <1>2, <1>4 DEF HasParameters, ToSet

(* A download URL never leads to the files of another endpoint, save for   *)
(* the collisions that the validator lets pass.                            *)
THEOREM DownloadsFindOwner == Spec => []DownloadsReachOwner
<1>1. IInv => DownloadsReachOwner
  <2> SUFFICES ASSUME IInv, phase = "serving",
                      NEW i \in DOMAIN table, NEW text \in Texts,
                      table[i].kind = "download",
                      ~HasParameters(BasePath(table[i].owner))
               PROVE  \E j \in 1..i :
                        /\ Answers(j, "GET", Url(table[i].path, text))
                        /\ \/ j = i
                           \/ BasePath(table[j].owner) = BasePath(table[i].owner)
                           \/ HasParameters(BasePath(table[j].owner))
                           \/ table[j].path = Url(table[i].path, text)
    BY DEF DownloadsReachOwner
  <2> DEFINE base == BasePath(table[i].owner)
             path == table[i].path
             url  == Url(path, text)
  <2>1. /\ table[i].method = "GET" /\ path \in Paths
        /\ PathOf(table[i].owner) \in Paths /\ base = StripEnd(PathOf(table[i].owner))
        /\ path = DownloadPath(PathOf(table[i].owner), DownloadTail)
    BY TableIs, ConfigIs DEF IInv, Rightful, Entries, BasePath, PathOf
  <2>2. /\ base \in Paths /\ Len(base) \in Nat
        /\ Len(path) = Len(base) + 3
        /\ \A k \in 1..Len(base) : path[k] = base[k]
    <3> HIDE DEF base, path
    <3>1. base \in Paths /\ Len(base) \in Nat
      BY <2>1, StripEndIs, NamedIs
    <3>2. /\ Len(path) = Len(base) + 3
          /\ \A k \in 1..Len(base) : path[k] = base[k]
      BY <2>1, DownloadPathIs, Zenon
    <3>3. QED
      BY <3>1, <3>2
  <2>3. /\ url \in Paths /\ Len(url) = Len(path) /\ Fits(path, url)
        /\ \A k \in 1..Len(path) : path[k] \notin AllParameters => url[k] = path[k]
    BY <2>1, UrlIs
  <2>4. \A k \in 1..Len(base) : url[k] = base[k]
    <3> SUFFICES ASSUME NEW k \in 1..Len(base)
                 PROVE  url[k] = base[k]
      OBVIOUS
    <3>1. k \in 1..Len(path) /\ path[k] = base[k]
      BY <2>2
    <3>2. base[k] \notin AllParameters
      BY <2>2, NamedIs DEF HasParameters, ToSet
    <3>3. QED
      BY <3>1, <3>2, <2>3
  <2> HIDE DEF url, path, base
  <2>5. i \in Fitting("GET", url)
    BY <2>1, <2>3 DEF Fitting, path
  <2>6. PICK j \in DOMAIN table : j <= i /\ Answers(j, "GET", url)
    BY <2>5, FirstAnswers
  <2>7. j \in 1..i
    BY <2>6, TableIs
  <2>8. Fits(table[j].path, url) /\ table[j] \in Entries /\ Rightful(table[j])
    BY <2>6, TableIs DEF Answers, Fitting, IInv
  <2>9. table[j].kind # "infra"
    <3> SUFFICES ASSUME table[j].kind = "infra"
                 PROVE  FALSE
      OBVIOUS
    <3>1. table[j].path \in Infra
      BY <2>8 DEF Rightful
    <3>2. Len(table[j].path) <= 2
      BY <3>1, RoutesAssumption, Zenon
    <3>3. Len(table[j].path) = Len(base) + 3
      BY <2>2, <2>3, <2>8 DEF Fits
    <3>4. QED
      BY <2>2, <3>2, <3>3
  <2>10. ASSUME ~HasParameters(BasePath(table[j].owner))
         PROVE  BasePath(table[j].owner) = base \/ table[j].path = url
    <3> DEFINE other == PathOf(table[j].owner)
    <3>1. table[j].owner \in 1..MaxEndpoints /\ other \in Paths
      BY <2>8, <2>9, ConfigIs DEF Rightful, IInv
    <3>2. BasePath(table[j].owner) = StripEnd(other)
      BY DEF BasePath, PathOf
    <3> HIDE DEF other
    <3>3. CASE table[j].kind = "endpoint"
      <4>1. table[j].path = other
        BY <2>8, <3>3 DEF Rightful, other
      <4>2. ~HasParameters(other)
        BY <3>1, <3>2, <2>10, BaseKeepsParameters
      <4>3. QED
        BY <4>1, <4>2, <3>1, <2>3, <2>8, OnlyFit
    <3>4. CASE table[j].kind = "download"
      <4> DEFINE first == StripEnd(other)
      <4>1. /\ table[j].path \in Paths
            /\ Len(table[j].path) = Len(first) + 3
            /\ \A k \in 1..Len(first) : table[j].path[k] = first[k]
        <5>1. table[j].path = DownloadPath(other, DownloadTail)
          BY <2>8, <3>4 DEF Rightful, other
        <5>2. QED
          BY <5>1, <3>1, DownloadPathIs
      <4>2. /\ first \in Paths /\ Len(first) \in Nat
            /\ \A k \in 1..Len(first) : first[k] \notin AllParameters
        <5>1. first \in Paths
          BY <3>1, StripEndIs
        <5>2. ~HasParameters(first)
          BY <3>2, <2>10
        <5> HIDE DEF first
        <5>3. QED
          BY <5>1, <5>2, NamedIs DEF HasParameters, ToSet
      <4> HIDE DEF first
      <4>3. Len(first) = Len(base)
        <5>1. Len(first) + 3 = Len(base) + 3
          BY <4>1, <2>2, <2>3, <2>8 DEF Fits
        <5>2. QED
          BY <5>1, <4>2, <2>2
      <4>4. \A k \in 1..Len(first) : first[k] = base[k]
        <5> SUFFICES ASSUME NEW k \in 1..Len(first)
                     PROVE  first[k] = base[k]
          OBVIOUS
        <5>1. k \in DOMAIN url
          <6>1. DOMAIN url = 1..Len(base) + 3
            BY <2>2, <2>3, NamedIs
          <6>2. QED
            BY <6>1, <4>2, <4>3
        <5>2. table[j].path[k] \notin AllParameters /\ table[j].path[k] = first[k]
          BY <4>1, <4>2
        <5>3. url[k] = first[k]
          BY <5>1, <5>2, <2>8 DEF Fits
        <5>4. url[k] = base[k]
          BY <4>3, <2>4
        <5>5. QED
          BY <5>3, <5>4
      <4>5. first = base
        BY <4>2, <4>3, <4>4, <2>2, SeqEqual DEF Paths
      <4>6. QED
        BY <4>5, <3>2 DEF first
    <3>5. QED
      BY <3>3, <3>4, <2>8, <2>9 DEF Entries
  <2>11. QED
    BY <2>6, <2>7, <2>10 DEF base, url, path
<1>2. QED
  BY <1>1, IInvHolds, PTL
=============================================================================
