-------------------------- MODULE KnownHostsProofs --------------------------
(* Proofs about KnownHosts, for any verifiers, targets, keys and files and *)
(* any number of connections.  What a file says is the set of its lines.   *)
(* A key is vouched for because every line that is on file, or is about to *)
(* be written back, names only what was trusted.  While no replacement has *)
(* failed or met another access (clean), the lines a verifier relies on    *)
(* are those the others keep: what was saved is on file, or in what is     *)
(* being written; no revoked line appears behind a prompt; and a line is   *)
(* appended only behind the end of another.                                *)
EXTENDS KnownHosts, FiniteSetTheorems, WellFoundedInduction, TLAPS

-----------------------------------------------------------------------------
(* The operators of the model.                                             *)
Lines(f) == {f[i] : i \in DOMAIN f}

\* A set of naturals has a least element.
LEMMA LeastOne ==
  ASSUME NEW S \in SUBSET Nat, S # {}
  PROVE  \E m \in S : \A k \in S : m <= k
<1>. PICK n \in S : TRUE
  OBVIOUS
<1>. DEFINE segments == {0 .. k : k \in {j \in S : j <= n}}
<1>1. segments \subseteq FiniteSubsetsOf(0 .. n)
  <2>. SUFFICES ASSUME NEW k \in S, k <= n PROVE 0 .. k \in FiniteSubsetsOf(0 .. n)
    OBVIOUS
  <2>1. IsFiniteSet(0 .. k)
    BY FS_Interval
  <2>. QED BY <2>1 DEF FiniteSubsetsOf
<1>2. segments # {}
  <2>1. 0 .. n \in segments
    OBVIOUS
  <2>. QED BY <2>1
<1>3. PICK A \in segments : \A B \in segments : <<B, A>> \notin StrictSubsetOrdering(0 .. n)
  <2>. HIDE DEF segments
  <2>. QED BY <1>1, <1>2, FS_StrictSubsetOrderingWellFounded, WFMin, Zenon
<1>4. PICK m \in S : m <= n /\ A = 0 .. m
  OBVIOUS
<1>5. ASSUME NEW k \in S, k < m PROVE FALSE
  <2>1. 0 .. k \in segments
    BY <1>4, <1>5
  <2>2. 0 .. k \subseteq 0 .. m /\ 0 .. k # 0 .. m
    BY <1>5, m \in 0 .. m, m \notin 0 .. k
  <2>3. 0 .. k \in SUBSET (0 .. n) /\ 0 .. m \in SUBSET (0 .. n)
    BY <1>4, <1>5
  <2>. QED BY <2>1, <2>2, <2>3, <1>3, <1>4 DEF StrictSubsetOrdering
<1>. QED BY <1>5

\* The recursive function of Others exists, on every prefix of the file.
LEMMA KeptExists ==
  ASSUME NEW f \in Seq(LineType), NEW t, NEW k
  PROVE  \E g \in [0 .. Len(f) -> Seq(LineType)] :
            /\ g[0] = <<>>
            /\ \A i \in 1 .. Len(f) :
                  g[i] = IF Replaced(f[i], t, k) THEN g[i - 1] ELSE Append(g[i - 1], f[i])
<1>. DEFINE Has(n) == \E g \in [0 .. n -> Seq(LineType)] :
            /\ g[0] = <<>>
            /\ \A i \in 1 .. n :
                  g[i] = IF Replaced(f[i], t, k) THEN g[i - 1] ELSE Append(g[i - 1], f[i])
            not == {n \in 0 .. Len(f) : ~Has(n)}
<1>1. ASSUME not # {} PROVE FALSE
  <2>0. not \subseteq Nat
    OBVIOUS
  <2>1. PICK m \in not : \A n \in not : m <= n
    <3>. HIDE DEF not
    <3>. QED BY <1>1, <2>0, LeastOne
  <2>2. m # 0
    <3>. DEFINE z == [i \in 0 .. 0 |-> <<>>]
    <3>1. z \in [0 .. 0 -> Seq(LineType)] /\ z[0] = <<>>
      OBVIOUS
    <3>2. 1 .. 0 = {}
      OBVIOUS
    <3>. HIDE DEF z
    <3>3. Has(0)
      BY <3>1, <3>2, Zenon
    <3>. QED BY <3>3
  <2>3. m \in 1 .. Len(f) /\ m - 1 \in 0 .. Len(f)
    BY <2>2
  <2>4. Has(m - 1)
    <3>. HIDE DEF Has
    <3>. QED BY <2>1, <2>3
  <2>5. PICK g \in [0 .. m - 1 -> Seq(LineType)] :
            /\ g[0] = <<>>
            /\ \A i \in 1 .. m - 1 :
                  g[i] = IF Replaced(f[i], t, k) THEN g[i - 1] ELSE Append(g[i - 1], f[i])
    BY <2>4
  <2>. DEFINE last == IF Replaced(f[m], t, k) THEN g[m - 1] ELSE Append(g[m - 1], f[m])
              h == [i \in 0 .. m |-> IF i = m THEN last ELSE g[i]]
  <2>6. last \in Seq(LineType)
    <3>1. f[m] \in LineType /\ g[m - 1] \in Seq(LineType)
      BY <2>3
    <3>. HIDE DEF LineType
    <3>. QED BY <3>1
  <2>7. h \in [0 .. m -> Seq(LineType)] /\ h[0] = <<>>
    <3>. HIDE DEF last
    <3>. QED BY <2>3, <2>5, <2>6
  <2>8. \A i \in 1 .. m : h[i] = IF Replaced(f[i], t, k) THEN h[i - 1] ELSE Append(h[i - 1], f[i])
    <3>1. h[m] = last /\ h[m - 1] = g[m - 1]
      BY <2>3
    <3>2. \A i \in 1 .. m - 1 : h[i] = g[i] /\ h[i - 1] = g[i - 1]
      BY <2>3
    <3>. HIDE DEF h
    <3>3. ASSUME NEW i \in 1 .. m - 1
          PROVE  h[i] = IF Replaced(f[i], t, k) THEN h[i - 1] ELSE Append(h[i - 1], f[i])
      <4>1. g[i] = IF Replaced(f[i], t, k) THEN g[i - 1] ELSE Append(g[i - 1], f[i])
        BY <2>5
      <4>. QED BY <3>2, <4>1
    <3>4. h[m] = IF Replaced(f[m], t, k) THEN h[m - 1] ELSE Append(h[m - 1], f[m])
      BY <3>1
    <3>5. 1 .. m = (1 .. m - 1) \cup {m}
      BY <2>3
    <3>. QED BY <3>3, <3>4, <3>5
  <2>9. Has(m)
    <3>. HIDE DEF h
    <3>. QED BY <2>7, <2>8
  <2>. QED BY <2>9
<1>2. Has(Len(f))
  BY <1>1
<1>. QED BY <1>2

\* What removeKnownHost keeps is every line that is not replaced.
LEMMA OthersKeep ==
  ASSUME NEW f \in Seq(LineType), NEW t, NEW k
  PROVE  /\ Others(f, t, k) \in Seq(LineType)
         /\ Lines(Others(f, t, k)) = {l \in Lines(f) : ~Replaced(l, t, k)}
<1>. DEFINE g == CHOOSE g : g = [i \in 0 .. Len(f) |->
                IF i = 0 THEN <<>>
                ELSE IF Replaced(f[i], t, k) THEN g[i - 1] ELSE Append(g[i - 1], f[i])]
<1>1. g = [i \in 0 .. Len(f) |->
                IF i = 0 THEN <<>>
                ELSE IF Replaced(f[i], t, k) THEN g[i - 1] ELSE Append(g[i - 1], f[i])]
  <2>1. PICK h \in [0 .. Len(f) -> Seq(LineType)] :
            /\ h[0] = <<>>
            /\ \A i \in 1 .. Len(f) :
                  h[i] = IF Replaced(f[i], t, k) THEN h[i - 1] ELSE Append(h[i - 1], f[i])
    BY KeptExists
  <2>2. h = [i \in 0 .. Len(f) |->
                IF i = 0 THEN <<>>
                ELSE IF Replaced(f[i], t, k) THEN h[i - 1] ELSE Append(h[i - 1], f[i])]
    <3>1. 0 .. Len(f) = {0} \cup 1 .. Len(f) /\ 0 \notin 1 .. Len(f)
      OBVIOUS
    <3>2. \A i \in 0 .. Len(f) :
             h[i] = IF i = 0 THEN <<>>
                    ELSE IF Replaced(f[i], t, k) THEN h[i - 1] ELSE Append(h[i - 1], f[i])
      BY <2>1, <3>1, Zenon
    <3>. QED BY <3>2
  <2>. QED BY <2>2, Zenon
<1>2. Others(f, t, k) = g[Len(f)]
  BY DEF Others
<1>. HIDE DEF g
<1>3. /\ g[0] = <<>>
      /\ \A i \in 1 .. Len(f) :
            g[i] = IF Replaced(f[i], t, k) THEN g[i - 1] ELSE Append(g[i - 1], f[i])
  <2>1. 0 .. Len(f) = {0} \cup 1 .. Len(f) /\ 0 \notin 1 .. Len(f)
    OBVIOUS
  <2>2. \A i \in 0 .. Len(f) :
           g[i] = IF i = 0 THEN <<>>
                  ELSE IF Replaced(f[i], t, k) THEN g[i - 1] ELSE Append(g[i - 1], f[i])
    BY <1>1, Zenon
  <2>. QED BY <2>1, <2>2, Zenon
<1>. DEFINE Kept(n) == /\ g[n] \in Seq(LineType)
                       /\ Lines(g[n]) = {l \in Lines(SubSeq(f, 1, n)) : ~Replaced(l, t, k)}
            not == {n \in 0 .. Len(f) : ~Kept(n)}
<1>4. ASSUME not # {} PROVE FALSE
  <2>0. not \subseteq Nat
    OBVIOUS
  <2>1. PICK m \in not : \A n \in not : m <= n
    <3>. HIDE DEF not
    <3>. QED BY <1>4, <2>0, LeastOne
  <2>2. m # 0
    <3>1. Lines(g[0]) = {} /\ Lines(SubSeq(f, 1, 0)) = {}
      BY <1>3 DEF Lines
    <3>2. g[0] \in Seq(LineType)
      BY <1>3
    <3>. QED BY <3>1, <3>2
  <2>3. m \in 1 .. Len(f) /\ m - 1 \in 0 .. Len(f)
    BY <2>2
  <2>4. Kept(m - 1)
    BY <2>1, <2>3
  <2>5. f[m] \in LineType
    BY <2>3
  <2>6. Lines(SubSeq(f, 1, m)) = Lines(SubSeq(f, 1, m - 1)) \cup {f[m]}
    <3>1. \A i \in 1 .. m : SubSeq(f, 1, m)[i] = f[i]
      BY <2>3
    <3>2. \A i \in 1 .. m - 1 : SubSeq(f, 1, m - 1)[i] = f[i]
      BY <2>3
    <3>3. DOMAIN SubSeq(f, 1, m) = 1 .. m /\ DOMAIN SubSeq(f, 1, m - 1) = 1 .. m - 1
      BY <2>3
    <3>4. 1 .. m = (1 .. m - 1) \cup {m}
      BY <2>3
    <3>. QED BY <3>1, <3>2, <3>3, <3>4 DEF Lines
  <2>7. CASE Replaced(f[m], t, k)
    <3>1. g[m] = g[m - 1]
      BY <1>3, <2>3, <2>7
    <3>. QED BY <3>1, <2>4, <2>6, <2>7
  <2>8. CASE ~Replaced(f[m], t, k)
    <3>1. g[m] = Append(g[m - 1], f[m])
      BY <1>3, <2>3, <2>8
    <3>2. Lines(g[m]) = Lines(g[m - 1]) \cup {f[m]} /\ g[m] \in Seq(LineType)
      <4>. DEFINE s == g[m - 1]
      <4>1. s \in Seq(LineType)
        BY <2>4
      <4>. HIDE DEF s, LineType
      <4>2. /\ Append(s, f[m]) \in Seq(LineType)
            /\ DOMAIN Append(s, f[m]) = DOMAIN s \cup {Len(s) + 1}
            /\ Append(s, f[m])[Len(s) + 1] = f[m]
            /\ \A i \in DOMAIN s : Append(s, f[m])[i] = s[i]
        BY <4>1, <2>5
      <4>3. Lines(Append(s, f[m])) = Lines(s) \cup {f[m]}
        BY <4>2 DEF Lines
      <4>. QED BY <4>2, <4>3, <3>1 DEF s
    <3>. QED BY <3>2, <2>4, <2>6, <2>8
  <2>. QED BY <2>7, <2>8
<1>5. Kept(Len(f))
  BY <1>4
<1>6. SubSeq(f, 1, Len(f)) = f
  OBVIOUS
<1>. QED BY <1>2, <1>5, <1>6

\* Appending a line to a file that ends with its last line.
LEMMA LinesAppend ==
  ASSUME NEW f \in Seq(LineType), NEW l \in LineType
  PROVE  Append(f, l) \in Seq(LineType) /\ Lines(Append(f, l)) = Lines(f) \cup {l}
<1>. HIDE DEF LineType
<1>1. /\ Append(f, l) \in Seq(LineType)
      /\ DOMAIN Append(f, l) = DOMAIN f \cup {Len(f) + 1}
      /\ Append(f, l)[Len(f) + 1] = l
      /\ \A i \in DOMAIN f : Append(f, l)[i] = f[i]
  OBVIOUS
<1>. QED BY <1>1 DEF Lines

\* What is on file after appendFile was there before, or is the new line; it is all
\* of that when the last line was terminated.
LEMMA LinesAppended ==
  ASSUME NEW f \in Seq(LineType), NEW l \in LineType, NEW ended \in BOOLEAN
  PROVE  /\ Appended(f, ended, l) \in Seq(LineType)
         /\ Lines(Appended(f, ended, l)) \subseteq Lines(f) \cup {l}
         /\ f = <<>> \/ ended => Lines(Appended(f, ended, l)) = Lines(f) \cup {l}
<1>1. CASE f = <<>> \/ ended
  <2>1. Appended(f, ended, l) = Append(f, l)
    BY <1>1 DEF Appended
  <2>. QED BY <2>1, LinesAppend
<1>2. CASE ~(f = <<>> \/ ended)
  <2>. DEFINE s == SubSeq(f, 1, Len(f) - 1)
  <2>1. Appended(f, ended, l) = s
    BY <1>2 DEF Appended
  <2>2. Len(f) - 1 \in 0 .. Len(f)
    BY <1>2
  <2>. HIDE DEF LineType
  <2>3. s \in Seq(LineType) /\ DOMAIN s \subseteq DOMAIN f /\ \A i \in DOMAIN s : s[i] = f[i]
    BY <2>2
  <2>. HIDE DEF s
  <2>4. Lines(s) \subseteq Lines(f)
    BY <2>3 DEF Lines
  <2>. QED BY <1>2, <2>1, <2>3, <2>4
<1>. QED BY <1>1, <1>2

LEMMA EmptyLines == Lines(<<>>) = {}
  BY DEF Lines

\* The lines checkKnownHosts looks for, and the one that revokes the key.
Names(l, t, k) == Matches(l, t) /\ l.key = k
Revokes(l, t, k) == Names(l, t, k) /\ l.marker = "@revoked"

\* A match is a line of the file with this very key.
LEMMA MatchIsOnFile ==
  ASSUME NEW f, NEW t, NEW k, Status(f, t, k) = "match"
  PROVE  \E l \in Lines(f) : Names(l, t, k)
<1>. DEFINE same == {i \in DOMAIN f : Matches(f[i], t) /\ f[i].key.type = k.type}
            exact == {i \in same : SameKey(f[i].key, k)}
<1>1. exact # {}
  BY DEF Status
<1>2. PICK i \in DOMAIN f : Matches(f[i], t) /\ SameKey(f[i].key, k)
  BY <1>1
<1>. QED BY <1>2 DEF Lines, Names, SameKey

\* Who is asked about a key has no line with it.
LEMMA AskedIsUnlisted ==
  ASSUME NEW f, NEW t, NEW k, Status(f, t, k) \in {"mismatch", "not-found"}
  PROVE  \A l \in Lines(f) : ~Names(l, t, k)
<1>. DEFINE same == {i \in DOMAIN f : Matches(f[i], t) /\ f[i].key.type = k.type}
            exact == {i \in same : SameKey(f[i].key, k)}
<1>1. exact = {}
  BY DEF Status
<1>2. \A i \in DOMAIN f : ~(Matches(f[i], t) /\ f[i].key = k)
  BY <1>1 DEF SameKey
<1>. QED BY <1>2 DEF Lines, Names

\* A key that is not found has no line with a key of its type either.
LEMMA NotFoundIsNew ==
  ASSUME NEW f, NEW t, NEW k, Status(f, t, k) = "not-found"
  PROVE  \A l \in Lines(f) : ~Replaced(l, t, k)
<1>. DEFINE same == {i \in DOMAIN f : Matches(f[i], t) /\ f[i].key.type = k.type}
<1>1. same = {}
  BY DEF Status
<1>2. \A i \in DOMAIN f : ~(Matches(f[i], t) /\ f[i].key.type = k.type)
  BY <1>1
<1>. QED BY <1>2 DEF Lines, Replaced

\* A key on file that no line revokes is a match.
LEMMA OnFileIsMatch ==
  ASSUME NEW f \in Seq(LineType), NEW t, NEW k,
         \E l \in Lines(f) : Names(l, t, k), \A l \in Lines(f) : ~Revokes(l, t, k)
  PROVE  Status(f, t, k) = "match"
<1>. DEFINE same == {i \in DOMAIN f : Matches(f[i], t) /\ f[i].key.type = k.type}
            exact == {i \in same : SameKey(f[i].key, k)}
            first == CHOOSE i \in exact : \A j \in exact : i <= j
<1>1. exact # {}
  <2>1. PICK i \in DOMAIN f : Names(f[i], t, k)
    BY DEF Lines
  <2>2. i \in exact
    BY <2>1 DEF Names, SameKey
  <2>. QED BY <2>2
<1>2. exact \in SUBSET Nat
  <2>1. DOMAIN f \subseteq Nat
    OBVIOUS
  <2>. QED BY <2>1
<1>3. first \in exact
  <2>. HIDE DEF exact
  <2>. QED BY <1>1, <1>2, LeastOne
<1>4. f[first].marker # "@revoked"
  <2>1. first \in DOMAIN f /\ Names(f[first], t, k)
    <3>. HIDE DEF first
    <3>. QED BY <1>3 DEF Names, SameKey
  <2>. HIDE DEF first
  <2>. QED BY <2>1 DEF Lines, Revokes
<1>5. Status(f, t, k) = IF exact # {} THEN IF f[first].marker = "@revoked" THEN "revoked" ELSE "match"
                        ELSE IF same # {} THEN "mismatch" ELSE "not-found"
  BY DEF Status
<1>. HIDE DEF exact, first
<1>. QED BY <1>1, <1>4, <1>5

\* The line of a target and key: it is a line, it matches that target, and the
\* targets it matches are of that host.
LEMMA LineIsLine ==
  ASSUME NEW t \in Target, NEW k \in Key
  PROVE  /\ Line(t, k) \in LineType
         /\ Line(t, k).key = k /\ Line(t, k).marker = None
         /\ Matches(Line(t, k), t)
         /\ \A u \in Target : Matches(Line(t, k), u) => u.host = t.host
<1>1. HostToken(t) \in Candidates(t)
  BY DEF HostToken, Candidates
<1>2. HostToken(t) \in UNION {{<<u.host, 0>>, <<u.host, u.port>>} : u \in Target}
  BY <1>1 DEF Candidates
<1>3. /\ Line(t, k).hosts = {HostToken(t)} /\ Line(t, k).except = {}
      /\ Line(t, k).key = k /\ Line(t, k).marker = None
  BY DEF Line
<1>4. Line(t, k) \in LineType
  BY <1>2 DEF Line, LineType
<1>5. ASSUME NEW u \in Target, Matches(Line(t, k), u) PROVE u.host = t.host
  <2>1. HostToken(t) \in Candidates(u)
    BY <1>3, <1>5 DEF Matches
  <2>. QED BY <2>1 DEF HostToken, Candidates
<1>6. Matches(Line(t, k), t)
  BY <1>1, <1>3 DEF Matches
<1>. QED BY <1>3, <1>4, <1>5, <1>6

-----------------------------------------------------------------------------
(* The inductive invariant.                                                *)
Saving == {"remove", "truncate", "write", "prefix", "append"}
Rewriting(v) == pc[v] \in {"truncate", "write"}

\* Whoever works has no verdict yet, and rewrites the file only for a changed key.
FlowInv ==
  \A v \in Verifier : /\ pc[v] \notin {"idle", "over"} => verdict[v] = None
                      /\ pc[v] \in {"remove", "truncate", "write"} => asked[v] = "changed"

\* Every line that is on file, or goes back to it, names what was trusted.
Backed(f) == \A l \in Lines(f), t \in Target : Matches(l, t) => <<t.host, l.key>> \in trusted
VouchInv ==
  /\ Backed(file) /\ \A v \in Verifier : Backed(content[v])
  /\ \A v \in Verifier : pc[v] \in Saving => <<target[v].host, key[v]>> \in trusted
  /\ Vouched

\* No line that revokes a key appears on file behind its prompt.
NotRevoked(f, v) == \A l \in Lines(f) : ~Revokes(l, target[v], key[v])
RevokeInv ==
  clean => \A v \in Verifier : pc[v] \in Saving \cup {"ask"} =>
              /\ NotRevoked(file, v)
              /\ \A u \in Verifier : Rewriting(u) => NotRevoked(content[u], v)

\* An append finds the file empty or its last line terminated.
EndInv ==
  clean => \A v \in Verifier : pc[v] = "append" =>
              \/ newline \/ needsNewline[v]
              \/ file = <<>> /\ \A u \in Verifier : ~Rewriting(u)

\* What was saved is on file, or in what is being written, or about to be replaced.
SavedInv ==
  clean => \A p \in saved :
    /\ (\A u \in Verifier : pc[u] # "write") => Line(p[1], p[2]) \in Lines(file)
    /\ \A u \in Verifier : pc[u] = "write" => Line(p[1], p[2]) \in Lines(content[u])
    /\ \A u \in Verifier : pc[u] = "truncate" =>
          \/ Line(p[1], p[2]) \in Lines(content[u])
          \/ Replaced(Line(p[1], p[2]), target[u], key[u])

IInv == TypeOK /\ FlowInv /\ VouchInv /\ RevokeInv /\ EndInv /\ SavedInv

LEMMA InitIInv == Init => IInv
<1>. SUFFICES ASSUME Init PROVE IInv
  OBVIOUS
<1>1. TypeOK
  <2>1. (CHOOSE t \in Target : TRUE) \in Target /\ (CHOOSE k \in Key : TRUE) \in Key
    BY KnownHostsAssumption
  <2>2. <<>> \in Seq(LineType) /\ file \in Seq(LineType)
    BY KnownHostsAssumption DEF Init
  <2>3. conns \in 0 .. MaxConns
    BY KnownHostsAssumption DEF Init
  <2>. QED BY <2>1, <2>2, <2>3 DEF Init, TypeOK, None
<1>2. \A v \in Verifier : pc[v] = "idle" /\ verdict[v] = None /\ content[v] = <<>>
  BY DEF Init
<1>3. Backed(file)
  <2>. SUFFICES ASSUME NEW i \in DOMAIN file, NEW t \in Target, Matches(file[i], t)
                PROVE  <<t.host, file[i].key>> \in trusted
    BY DEF Backed, Lines
  <2>. QED BY DEF Init
<1>4. VouchInv
  BY <1>2, <1>3, EmptyLines DEF VouchInv, Backed, Saving, Vouched, None
<1>5. saved = {}
  BY DEF Init
<1>. QED BY <1>1, <1>2, <1>4, <1>5 DEF IInv, FlowInv, RevokeInv, EndInv, SavedInv, Saving

\* The types, step by step.
LEMMA TypesNext == TypeOK /\ [Next]_vars => TypeOK'
<1>. SUFFICES ASSUME TypeOK, [Next]_vars PROVE TypeOK'
  OBVIOUS
<1>. USE DEF TypeOK, Go, Verify, Access, Same, fileVars, None
<1>1. CASE UNCHANGED vars
  BY <1>1 DEF vars, history
<1>2. ASSUME NEW v \in Verifier, Connect(v) PROVE TypeOK'
  <2>1. conns' \in 0 .. MaxConns
    BY <1>2, KnownHostsAssumption DEF Connect
  <2>. QED BY <1>2, <2>1 DEF Connect
<1>3. ASSUME NEW v \in Verifier, Check(v) PROVE TypeOK'
  BY <1>3 DEF Check, Prompt
<1>4. ASSUME NEW v \in Verifier, CheckFails(v) \/ Reject(v) PROVE TypeOK'
  BY <1>4 DEF CheckFails, Reject
<1>5. ASSUME NEW v \in Verifier, Accept(v) PROVE TypeOK'
  BY <1>5 DEF Accept
<1>6. ASSUME NEW v \in Verifier, Remove(v) PROVE TypeOK'
  <2>1. Others(file, target[v], key[v]) \in Seq(LineType)
    BY OthersKeep
  <2>. QED BY <1>6, <2>1 DEF Remove
<1>7. ASSUME NEW v \in Verifier, Truncate(v) PROVE TypeOK'
  <2>1. <<>> \in Seq(LineType)
    OBVIOUS
  <2>. QED BY <1>7, <2>1 DEF Truncate
<1>8. ASSUME NEW v \in Verifier, Write(v) PROVE TypeOK'
  <2>1. <<>> \in Seq(LineType)
    OBVIOUS
  <2>. QED BY <1>8, <2>1 DEF Write
<1>9. ASSUME NEW v \in Verifier, Prefix(v) PROVE TypeOK'
  BY <1>9 DEF Prefix, Unterminated
<1>10. ASSUME NEW v \in Verifier, AppendLine(v) PROVE TypeOK'
  <2>. DEFINE line  == Line(target[v], key[v])
              ended == newline \/ needsNewline[v]
  <2>1. line \in LineType /\ ended \in BOOLEAN /\ file \in Seq(LineType)
    BY LineIsLine
  <2>2. file' = Appended(file, ended, line) /\ newline' = TRUE
    BY <1>10 DEF AppendLine
  <2>. HIDE DEF line, ended
  <2>3. file' \in Seq(LineType)
    BY <2>1, <2>2, LinesAppended, Zenon
  <2>. QED BY <1>10, <2>2, <2>3 DEF AppendLine
<1>11. ASSUME NEW v \in Verifier, SaveFails(v) PROVE TypeOK'
  <2>1. <<>> \in Seq(LineType)
    OBVIOUS
  <2>. QED BY <1>11, <2>1 DEF SaveFails
<1>. QED BY <1>1, <1>2, <1>3, <1>4, <1>5, <1>6, <1>7, <1>8, <1>9, <1>10, <1>11 DEF Next, Step

\* What the verifiers are at, step by step.
LEMMA FlowNext == TypeOK /\ FlowInv /\ [Next]_vars => FlowInv'
<1>. SUFFICES ASSUME TypeOK, FlowInv, [Next]_vars PROVE FlowInv'
  OBVIOUS
<1>. USE DEF TypeOK, FlowInv, Go, Verify, Same
<1>1. CASE UNCHANGED vars
  BY <1>1 DEF vars
<1>2. ASSUME NEW v \in Verifier, Connect(v) PROVE FlowInv'
  BY <1>2 DEF Connect
<1>3. ASSUME NEW v \in Verifier, Check(v) \/ CheckFails(v) \/ Reject(v) \/ Accept(v) PROVE FlowInv'
  BY <1>3 DEF Check, CheckFails, Reject, Accept
<1>4. ASSUME NEW v \in Verifier, Remove(v) \/ Truncate(v) \/ Write(v) \/ Prefix(v) PROVE FlowInv'
  BY <1>4 DEF Remove, Truncate, Write, Prefix
<1>5. ASSUME NEW v \in Verifier, AppendLine(v) \/ SaveFails(v) PROVE FlowInv'
  BY <1>5 DEF AppendLine, SaveFails
<1>. QED BY <1>1, <1>2, <1>3, <1>4, <1>5 DEF Next, Step

\* What is known of the file, of what goes back to it, and of the accepted keys.
LEMMA VouchNext == TypeOK /\ FlowInv /\ VouchInv /\ [Next]_vars => VouchInv'
<1>. SUFFICES ASSUME TypeOK, FlowInv, VouchInv, [Next]_vars PROVE VouchInv'
  OBVIOUS
<1>. USE DEF TypeOK, Saving
<1>1. ASSUME UNCHANGED <<file, content, trusted>>
      PROVE  Backed(file)' /\ \A v \in Verifier : Backed(content[v])'
  BY <1>1 DEF VouchInv, Backed
<1>2. CASE UNCHANGED vars
  BY <1>1, <1>2 DEF vars, fileVars, history, VouchInv, Vouched
<1>3. ASSUME NEW v \in Verifier, Connect(v) PROVE VouchInv'
  <2>1. \A u \in Verifier \ {v} : /\ pc'[u] = pc[u] /\ target'[u] = target[u] /\ key'[u] = key[u]
                                  /\ verdict'[u] = verdict[u]
    BY <1>3 DEF Connect, Go
  <2>2. pc'[v] = "check" /\ verdict'[v] = None
    BY <1>3 DEF Connect, Go
  <2>3. UNCHANGED <<file, content, trusted>>
    BY <1>3 DEF Connect, fileVars
  <2>. QED BY <1>1, <2>1, <2>2, <2>3 DEF VouchInv, Vouched, None
<1>4. ASSUME NEW v \in Verifier, Check(v) PROVE VouchInv'
  <2>1. UNCHANGED <<file, content, trusted, target, key>>
    BY <1>4 DEF Check, Same, fileVars
  <2>2. \A u \in Verifier \ {v} : pc'[u] = pc[u] /\ verdict'[u] = verdict[u]
    BY <1>4 DEF Check, Go, Verify
  <2>3. pc'[v] \in {"over", "ask"}
    BY <1>4 DEF Check, Go, Verify
  <2>4. verdict'[v] = "yes" => <<target[v].host, key[v]>> \in trusted
    <3>1. verdict'[v] = "yes" => Status(file, target[v], key[v]) = "match"
      BY <1>4 DEF Check, Verify, Go, FlowInv, None
    <3>2. Status(file, target[v], key[v]) = "match" => \E l \in Lines(file) : Names(l, target[v], key[v])
      BY MatchIsOnFile
    <3>. QED BY <3>1, <3>2 DEF Names, VouchInv, Backed
  <2>. QED BY <1>1, <2>1, <2>2, <2>3, <2>4 DEF VouchInv, Vouched
<1>5. ASSUME NEW v \in Verifier, CheckFails(v) \/ Reject(v) PROVE VouchInv'
  <2>1. UNCHANGED <<file, content, trusted, target, key>>
    BY <1>5 DEF CheckFails, Reject, Same, fileVars
  <2>2. pc' = [pc EXCEPT ![v] = "over"] /\ verdict' = [verdict EXCEPT ![v] = "no"]
    BY <1>5 DEF CheckFails, Reject, Verify, Go
  <2>. QED BY <1>1, <2>1, <2>2 DEF VouchInv, Vouched
<1>6. ASSUME NEW v \in Verifier, Accept(v) PROVE VouchInv'
  <2>1. UNCHANGED <<file, content, target, key, verdict>> /\ trusted \subseteq trusted'
    BY <1>6 DEF Accept, fileVars
  <2>2. <<target[v].host, key[v]>> \in trusted' /\ \A u \in Verifier \ {v} : pc'[u] = pc[u]
    BY <1>6 DEF Accept, Go
  <2>. QED BY <2>1, <2>2 DEF VouchInv, Backed, Vouched
<1>7. ASSUME NEW v \in Verifier, Remove(v) PROVE VouchInv'
  <2>1. UNCHANGED <<file, trusted, target, key, verdict>>
    BY <1>7 DEF Remove, Same, fileVars
  <2>2. pc[v] \in Saving /\ \A u \in Verifier \ {v} : pc'[u] = pc[u] /\ content'[u] = content[u]
    BY <1>7 DEF Remove, Go
  <2>3. content'[v] = Others(file, target[v], key[v])
    BY <1>7 DEF Remove
  <2>4. Lines(content'[v]) \subseteq Lines(file)
    BY <2>3, OthersKeep
  <2>5. Backed(content[v])'
    BY <2>1, <2>4 DEF VouchInv, Backed
  <2>. QED BY <2>1, <2>2, <2>5 DEF VouchInv, Backed, Vouched
<1>8. ASSUME NEW v \in Verifier, Truncate(v) PROVE VouchInv'
  <2>1. UNCHANGED <<content, trusted, target, key, verdict>> /\ file' = <<>>
    BY <1>8 DEF Truncate
  <2>2. pc[v] \in Saving /\ \A u \in Verifier \ {v} : pc'[u] = pc[u]
    BY <1>8 DEF Truncate, Go
  <2>. QED BY <2>1, <2>2, EmptyLines DEF VouchInv, Backed, Vouched
<1>9. ASSUME NEW v \in Verifier, Write(v) PROVE VouchInv'
  <2>1. UNCHANGED <<trusted, target, key, verdict>> /\ file' = content[v]
    BY <1>9 DEF Write, Same
  <2>2. /\ pc[v] \in Saving /\ content'[v] = <<>>
        /\ \A u \in Verifier \ {v} : pc'[u] = pc[u] /\ content'[u] = content[u]
    BY <1>9 DEF Write, Go
  <2>. QED BY <2>1, <2>2, EmptyLines DEF VouchInv, Backed, Vouched
<1>10. ASSUME NEW v \in Verifier, Prefix(v) PROVE VouchInv'
  <2>1. UNCHANGED <<file, content, trusted, target, key, verdict>>
    BY <1>10 DEF Prefix, Same, fileVars
  <2>2. pc[v] \in Saving /\ \A u \in Verifier \ {v} : pc'[u] = pc[u]
    BY <1>10 DEF Prefix, Go
  <2>. QED BY <1>1, <2>1, <2>2 DEF VouchInv, Vouched
<1>11. ASSUME NEW v \in Verifier, AppendLine(v) PROVE VouchInv'
  <2>1. UNCHANGED <<content, trusted, target, key>> /\ pc[v] = "append"
    BY <1>11 DEF AppendLine
  <2>2. /\ pc'[v] = "over"
        /\ \A u \in Verifier \ {v} : pc'[u] = pc[u] /\ verdict'[u] = verdict[u]
    BY <1>11 DEF AppendLine, Verify, Go
  <2>3. <<target[v].host, key[v]>> \in trusted
    BY <2>1 DEF VouchInv
  <2>. DEFINE line == Line(target[v], key[v])
  <2>4. /\ line \in LineType /\ line.key = key[v]
        /\ \A t \in Target : Matches(line, t) => t.host = target[v].host
    BY LineIsLine
  <2>. HIDE DEF line
  <2>5. Lines(file') \subseteq Lines(file) \cup {line}
    <3>1. (newline \/ needsNewline[v]) \in BOOLEAN
      OBVIOUS
    <3>2. file' = Appended(file, newline \/ needsNewline[v], line)
      BY <1>11 DEF AppendLine, line
    <3>. QED BY <2>4, <3>1, <3>2, LinesAppended
  <2>6. Backed(file)'
    BY <2>1, <2>3, <2>4, <2>5 DEF VouchInv, Backed
  <2>. QED BY <2>1, <2>2, <2>3, <2>6 DEF VouchInv, Backed, Vouched
<1>12. ASSUME NEW v \in Verifier, SaveFails(v) PROVE VouchInv'
  <2>1. UNCHANGED <<file, trusted, target, key>>
    BY <1>12 DEF SaveFails, Same, fileVars
  <2>2. /\ pc' = [pc EXCEPT ![v] = "over"] /\ verdict' = [verdict EXCEPT ![v] = "no"]
        /\ content' = [content EXCEPT ![v] = <<>>]
    BY <1>12 DEF SaveFails, Verify, Go
  <2>. QED BY <2>1, <2>2, EmptyLines DEF VouchInv, Backed, Vouched
<1>. QED BY <1>2, <1>3, <1>4, <1>5, <1>6, <1>7, <1>8, <1>9, <1>10, <1>11, <1>12 DEF Next, Step

-----------------------------------------------------------------------------
(* The three invariants of clean access.                                   *)

\* Whoever looks at the file or changes it while it stays clean is alone.
LEMMA CleanIsAlone ==
  ASSUME NEW v \in Verifier, Access(v), clean'
  PROVE  clean /\ \A u \in Verifier \ {v} : ~Rewriting(u)
  BY DEF Access, Rewriting

\* A save that fails and stays clean was that of a new key.
LEMMA CleanFailure ==
  ASSUME NEW v \in Verifier, FlowInv, SaveFails(v), clean'
  PROVE  clean /\ pc[v] \in {"prefix", "append"}
  BY DEF SaveFails, FlowInv

LEMMA RevokeNext == TypeOK /\ FlowInv /\ RevokeInv /\ [Next]_vars => RevokeInv'
<1>. SUFFICES ASSUME TypeOK, FlowInv, RevokeInv, [Next]_vars, clean' PROVE RevokeInv'
  BY DEF RevokeInv
<1>. USE DEF TypeOK
\* An action that leaves the file alone, asks nobody and reads nothing.
<1>1. ASSUME clean, UNCHANGED <<file, target, key>>,
             \A u \in Verifier : /\ pc'[u] \in Saving \cup {"ask"} => pc[u] \in Saving \cup {"ask"}
                                 /\ Rewriting(u)' => Rewriting(u) /\ content'[u] = content[u]
      PROVE  RevokeInv'
  <2>. SUFFICES ASSUME NEW v \in Verifier, pc'[v] \in Saving \cup {"ask"}
                PROVE  /\ NotRevoked(file, v)'
                       /\ \A u \in Verifier : Rewriting(u)' => NotRevoked(content[u], v)'
    BY DEF RevokeInv
  <2>1. /\ NotRevoked(file, v)
        /\ \A u \in Verifier : Rewriting(u) => NotRevoked(content[u], v)
    BY <1>1 DEF RevokeInv
  <2>. QED BY <1>1, <2>1 DEF NotRevoked
<1>2. CASE UNCHANGED vars
  BY <1>1, <1>2 DEF vars, fileVars, history, Rewriting
<1>3. ASSUME NEW v \in Verifier, Connect(v) PROVE RevokeInv'
  <2>1. UNCHANGED <<file, content, clean>> /\ pc' = [pc EXCEPT ![v] = "check"]
    BY <1>3 DEF Connect, Go, fileVars
  <2>2. \A u \in Verifier \ {v} : /\ pc'[u] = pc[u] /\ target'[u] = target[u] /\ key'[u] = key[u]
    BY <1>3 DEF Connect, Go
  <2>. SUFFICES ASSUME NEW w \in Verifier \ {v}, pc'[w] \in Saving \cup {"ask"}
                PROVE  /\ NotRevoked(file, w)'
                       /\ \A u \in Verifier : Rewriting(u)' => NotRevoked(content[u], w)'
    BY <2>1 DEF RevokeInv, Saving
  <2>3. /\ NotRevoked(file, w)
        /\ \A u \in Verifier : Rewriting(u) => NotRevoked(content[u], w)
    BY <2>1, <2>2 DEF RevokeInv
  <2>4. \A u \in Verifier : Rewriting(u)' => Rewriting(u)
    BY <2>1, <2>2 DEF Rewriting
  <2>. QED BY <2>1, <2>2, <2>3, <2>4 DEF NotRevoked
<1>4. ASSUME NEW v \in Verifier, Check(v) PROVE RevokeInv'
  <2>1. UNCHANGED <<file, content, target, key>> /\ Access(v) /\ pc[v] = "check"
    BY <1>4 DEF Check, Same, fileVars
  <2>2. clean /\ \A u \in Verifier \ {v} : ~Rewriting(u)
    BY <2>1, CleanIsAlone
  <2>3. \A u \in Verifier \ {v} : pc'[u] = pc[u]
    BY <1>4 DEF Check, Go, Verify
  <2>4. pc'[v] \in {"over", "ask"}
    BY <1>4 DEF Check, Go, Verify
  <2>5. pc'[v] = "ask" => NotRevoked(file, v)
    <3>1. pc'[v] = "ask" => Status(file, target[v], key[v]) \in {"mismatch", "not-found"}
      BY <1>4 DEF Check, Go, Verify
    <3>. QED BY <3>1, AskedIsUnlisted DEF NotRevoked, Revokes
  <2>6. \A u \in Verifier : ~Rewriting(u)'
    BY <2>2, <2>3, <2>4 DEF Rewriting
  <2>7. ASSUME NEW w \in Verifier, pc'[w] \in Saving \cup {"ask"} PROVE NotRevoked(file, w)
    <3>1. CASE w = v
      BY <2>4, <2>5, <2>7, <3>1 DEF Saving
    <3>2. CASE w # v
      BY <2>2, <2>3, <2>7, <3>2 DEF RevokeInv
    <3>. QED BY <3>1, <3>2
  <2>. QED BY <2>1, <2>6, <2>7 DEF RevokeInv, NotRevoked
<1>5. ASSUME NEW v \in Verifier, CheckFails(v) \/ Reject(v) PROVE RevokeInv'
  <2>1. /\ UNCHANGED <<file, content, target, key, clean>>
        /\ pc' = [pc EXCEPT ![v] = "over"]
    BY <1>5 DEF CheckFails, Reject, Same, Verify, Go, fileVars
  <2>. QED BY <1>1, <2>1 DEF Rewriting, Saving
<1>6. ASSUME NEW v \in Verifier, Accept(v) PROVE RevokeInv'
  <2>1. UNCHANGED <<file, content, target, key, clean>> /\ pc[v] = "ask"
    BY <1>6 DEF Accept, fileVars
  <2>2. pc'[v] \in {"remove", "prefix"} /\ \A u \in Verifier \ {v} : pc'[u] = pc[u]
    BY <1>6 DEF Accept, Go
  <2>. QED BY <1>1, <2>1, <2>2 DEF Rewriting
<1>7. ASSUME NEW v \in Verifier, Remove(v) PROVE RevokeInv'
  <2>1. UNCHANGED <<file, target, key>> /\ Access(v) /\ pc[v] = "remove"
    BY <1>7 DEF Remove, Same, fileVars
  <2>2. clean /\ \A u \in Verifier \ {v} : ~Rewriting(u)
    BY <2>1, CleanIsAlone
  <2>3. \A u \in Verifier \ {v} : pc'[u] = pc[u] /\ content'[u] = content[u]
    BY <1>7 DEF Remove, Go
  <2>4. Lines(content'[v]) \subseteq Lines(file)
    <3>1. content'[v] = Others(file, target[v], key[v])
      BY <1>7 DEF Remove
    <3>. QED BY <3>1, OthersKeep
  <2>5. ASSUME NEW w \in Verifier, pc'[w] \in Saving \cup {"ask"} PROVE NotRevoked(file, w)
    <3>1. pc[w] \in Saving \cup {"ask"}
      BY <2>1, <2>3, <2>5 DEF Saving
    <3>. QED BY <2>2, <3>1 DEF RevokeInv
  <2>6. \A u \in Verifier : Rewriting(u)' => u = v
    BY <2>2, <2>3 DEF Rewriting
  <2>. QED BY <2>1, <2>4, <2>5, <2>6 DEF RevokeInv, NotRevoked
<1>8. ASSUME NEW v \in Verifier, Truncate(v) PROVE RevokeInv'
  <2>1. UNCHANGED <<content, target, key>> /\ file' = <<>> /\ Access(v) /\ pc[v] = "truncate"
    BY <1>8 DEF Truncate
  <2>2. clean
    BY <2>1, CleanIsAlone
  <2>3. pc' = [pc EXCEPT ![v] = "write"]
    BY <1>8 DEF Truncate, Go
  <2>4. \A u \in Verifier : /\ pc'[u] \in Saving \cup {"ask"} => pc[u] \in Saving \cup {"ask"}
                            /\ Rewriting(u)' => Rewriting(u)
    BY <2>1, <2>3 DEF Saving, Rewriting
  <2>. QED BY <2>1, <2>2, <2>4, EmptyLines DEF RevokeInv, NotRevoked
<1>9. ASSUME NEW v \in Verifier, Write(v) PROVE RevokeInv'
  <2>1. UNCHANGED <<target, key>> /\ file' = content[v] /\ Access(v) /\ pc[v] = "write"
    BY <1>9 DEF Write, Same
  <2>2. clean /\ Rewriting(v) /\ \A u \in Verifier \ {v} : ~Rewriting(u)
    BY <2>1, CleanIsAlone DEF Rewriting
  <2>3. pc' = [pc EXCEPT ![v] = "prefix"]
    BY <1>9 DEF Write, Go
  <2>4. \A u \in Verifier : /\ pc'[u] \in Saving \cup {"ask"} => pc[u] \in Saving \cup {"ask"}
                            /\ ~Rewriting(u)'
    BY <2>1, <2>2, <2>3 DEF Saving, Rewriting
  <2>. QED BY <2>1, <2>2, <2>4 DEF RevokeInv, NotRevoked
<1>10. ASSUME NEW v \in Verifier, Prefix(v) PROVE RevokeInv'
  <2>1. UNCHANGED <<file, content, target, key>> /\ Access(v) /\ pc[v] = "prefix"
    BY <1>10 DEF Prefix, Same, fileVars
  <2>2. clean
    BY <2>1, CleanIsAlone
  <2>3. pc' = [pc EXCEPT ![v] = "append"]
    BY <1>10 DEF Prefix, Go
  <2>. QED BY <1>1, <2>1, <2>2, <2>3 DEF Rewriting, Saving
<1>11. ASSUME NEW v \in Verifier, AppendLine(v) PROVE RevokeInv'
  <2>1. UNCHANGED <<content, target, key>> /\ Access(v) /\ pc[v] = "append"
    BY <1>11 DEF AppendLine
  <2>2. clean
    BY <2>1, CleanIsAlone
  <2>3. pc' = [pc EXCEPT ![v] = "over"]
    BY <1>11 DEF AppendLine, Verify, Go
  <2>. DEFINE line == Line(target[v], key[v])
  <2>4. line \in LineType /\ line.marker = None
    BY LineIsLine
  <2>. HIDE DEF line
  <2>5. Lines(file') \subseteq Lines(file) \cup {line}
    <3>1. (newline \/ needsNewline[v]) \in BOOLEAN
      OBVIOUS
    <3>2. file' = Appended(file, newline \/ needsNewline[v], line)
      BY <1>11 DEF AppendLine, line
    <3>. QED BY <2>4, <3>1, <3>2, LinesAppended
  <2>6. \A t, k : ~Revokes(line, t, k)
    BY <2>4 DEF Revokes, None
  <2>7. \A u \in Verifier : /\ pc'[u] \in Saving \cup {"ask"} => pc[u] \in Saving \cup {"ask"}
                            /\ Rewriting(u)' => Rewriting(u)
    BY <2>1, <2>3 DEF Saving, Rewriting
  <2>8. ASSUME NEW w \in Verifier, pc'[w] \in Saving \cup {"ask"}
        PROVE  /\ NotRevoked(file, w)'
               /\ \A u \in Verifier : Rewriting(u)' => NotRevoked(content[u], w)'
    <3>1. /\ NotRevoked(file, w)
          /\ \A u \in Verifier : Rewriting(u) => NotRevoked(content[u], w)
      BY <2>2, <2>7, <2>8 DEF RevokeInv
    <3>2. NotRevoked(file, w)'
      BY <2>1, <2>5, <2>6, <3>1 DEF NotRevoked
    <3>. QED BY <2>1, <2>7, <3>1, <3>2 DEF NotRevoked
  <2>. QED BY <2>8 DEF RevokeInv
<1>12. ASSUME NEW v \in Verifier, SaveFails(v) PROVE RevokeInv'
  <2>1. clean /\ pc[v] \in {"prefix", "append"}
    BY <1>12, CleanFailure
  <2>2. UNCHANGED <<file, target, key>> /\ pc' = [pc EXCEPT ![v] = "over"]
    BY <1>12 DEF SaveFails, Same, Verify, Go, fileVars
  <2>3. \A u \in Verifier \ {v} : content'[u] = content[u]
    BY <1>12 DEF SaveFails
  <2>. QED BY <1>1, <2>1, <2>2, <2>3 DEF Rewriting, Saving
<1>. QED BY <1>2, <1>3, <1>4, <1>5, <1>6, <1>7, <1>8, <1>9, <1>10, <1>11, <1>12 DEF Next, Step

\* How the file ends when a line is appended, step by step.
LEMMA EndNext == TypeOK /\ FlowInv /\ EndInv /\ [Next]_vars => EndInv'
<1>. SUFFICES ASSUME TypeOK, FlowInv, EndInv, [Next]_vars, clean' PROVE EndInv'
  BY DEF EndInv
<1>. USE DEF TypeOK, Rewriting
<1>1. CASE UNCHANGED vars
  BY <1>1 DEF vars, fileVars, history, EndInv
<1>2. ASSUME NEW v \in Verifier,
             Connect(v) \/ Check(v) \/ CheckFails(v) \/ Reject(v) \/ Accept(v)
      PROVE  EndInv'
  <2>1. UNCHANGED <<file, newline, needsNewline>> /\ clean
    BY <1>2 DEF Connect, Check, CheckFails, Reject, Accept, fileVars, Access
  <2>2. /\ pc'[v] \in {"check", "over", "ask", "remove", "prefix"}
        /\ \A u \in Verifier \ {v} : pc'[u] = pc[u]
    BY <1>2 DEF Connect, Check, CheckFails, Reject, Accept, Go, Verify
  <2>. QED BY <2>1, <2>2 DEF EndInv
<1>3. ASSUME NEW v \in Verifier, Remove(v) PROVE EndInv'
  <2>1. UNCHANGED <<file, newline, needsNewline>> /\ clean
    BY <1>3 DEF Remove, Access, fileVars
  <2>2. /\ pc'[v] = IF file = <<>> THEN "prefix" ELSE "truncate"
        /\ \A u \in Verifier \ {v} : pc'[u] = pc[u]
    BY <1>3 DEF Remove, Go
  <2>. QED BY <2>1, <2>2 DEF EndInv
<1>4. ASSUME NEW v \in Verifier, Truncate(v) \/ Write(v) PROVE EndInv'
  <2>1. UNCHANGED <<newline, needsNewline>> /\ clean /\ Rewriting(v)
    BY <1>4 DEF Truncate, Write, Access
  <2>2. /\ pc'[v] \in {"write", "prefix"}
        /\ \A u \in Verifier \ {v} : pc'[u] = pc[u]
    BY <1>4 DEF Truncate, Write, Go
  <2>. QED BY <2>1, <2>2 DEF EndInv
<1>5. ASSUME NEW v \in Verifier, Prefix(v) PROVE EndInv'
  <2>1. UNCHANGED <<file, newline>> /\ Access(v) /\ pc[v] = "prefix"
    BY <1>5 DEF Prefix, fileVars
  <2>2. clean /\ \A u \in Verifier \ {v} : ~Rewriting(u)
    BY <2>1, CleanIsAlone
  <2>3. pc' = [pc EXCEPT ![v] = "append"]
    BY <1>5 DEF Prefix, Go
  <2>4. needsNewline' = [needsNewline EXCEPT ![v] = (file # <<>> /\ ~newline)]
    BY <1>5 DEF Prefix, Unterminated
  <2>5. newline \/ needsNewline'[v] \/ (file = <<>> /\ \A u \in Verifier : ~Rewriting(u)')
    BY <2>2, <2>3, <2>4
  <2>6. ASSUME NEW w \in Verifier \ {v}, pc'[w] = "append"
        PROVE  newline \/ needsNewline'[w] \/ (file = <<>> /\ \A u \in Verifier : ~Rewriting(u)')
    BY <2>1, <2>2, <2>3, <2>4, <2>6 DEF EndInv
  <2>. QED BY <2>1, <2>5, <2>6 DEF EndInv
<1>6. ASSUME NEW v \in Verifier, AppendLine(v) PROVE EndInv'
  BY <1>6 DEF AppendLine, EndInv
<1>7. ASSUME NEW v \in Verifier, SaveFails(v) PROVE EndInv'
  <2>1. UNCHANGED <<file, newline, needsNewline>> /\ clean
    BY <1>7 DEF SaveFails, fileVars
  <2>2. pc' = [pc EXCEPT ![v] = "over"]
    BY <1>7 DEF SaveFails, Verify, Go
  <2>. QED BY <2>1, <2>2 DEF EndInv
<1>. QED BY <1>1, <1>2, <1>3, <1>4, <1>5, <1>6, <1>7 DEF Next, Step

\* Where the saved lines are, step by step.
LEMMA SavedNext ==
  TypeOK /\ FlowInv /\ EndInv /\ SavedInv /\ [Next]_vars => SavedInv'
<1>. SUFFICES ASSUME TypeOK, FlowInv, EndInv, SavedInv, [Next]_vars, clean' PROVE SavedInv'
  BY DEF SavedInv
<1>. USE DEF TypeOK
\* An action that leaves the file, what is written and what was saved alone.
<1>1. ASSUME clean, UNCHANGED <<file, saved>>,
             \A u \in Verifier : pc[u] = "write" <=> pc'[u] = "write",
             \A u \in Verifier : pc'[u] \in {"truncate", "write"} =>
                /\ pc[u] = pc'[u] /\ content'[u] = content[u]
                /\ target'[u] = target[u] /\ key'[u] = key[u]
      PROVE  SavedInv'
  <2>. SUFFICES ASSUME NEW p \in saved
       PROVE  /\ (\A u \in Verifier : pc'[u] # "write") => Line(p[1], p[2]) \in Lines(file)
              /\ \A u \in Verifier : pc'[u] = "write" => Line(p[1], p[2]) \in Lines(content'[u])
              /\ \A u \in Verifier : pc'[u] = "truncate" =>
                    \/ Line(p[1], p[2]) \in Lines(content'[u])
                    \/ Replaced(Line(p[1], p[2]), target'[u], key'[u])
    BY <1>1, Zenon DEF SavedInv
  <2>1. /\ (\A u \in Verifier : pc[u] # "write") => Line(p[1], p[2]) \in Lines(file)
        /\ \A u \in Verifier : pc[u] = "write" => Line(p[1], p[2]) \in Lines(content[u])
        /\ \A u \in Verifier : pc[u] = "truncate" =>
              \/ Line(p[1], p[2]) \in Lines(content[u])
              \/ Replaced(Line(p[1], p[2]), target[u], key[u])
    BY <1>1 DEF SavedInv
  <2>. QED BY <1>1, <2>1
<1>2. CASE UNCHANGED vars
  BY <1>1, <1>2 DEF vars, fileVars, history
<1>3. ASSUME NEW v \in Verifier, Connect(v) PROVE SavedInv'
  <2>1. UNCHANGED <<file, content, saved, clean>> /\ pc[v] \in {"idle", "over"}
    BY <1>3 DEF Connect, fileVars
  <2>2. pc' = [pc EXCEPT ![v] = "check"]
    BY <1>3 DEF Connect, Go
  <2>3. \A u \in Verifier \ {v} : target'[u] = target[u] /\ key'[u] = key[u]
    BY <1>3 DEF Connect
  <2>. QED BY <1>1, <2>1, <2>2, <2>3
<1>4. ASSUME NEW v \in Verifier, Check(v) \/ CheckFails(v) \/ Reject(v) \/ Accept(v) PROVE SavedInv'
  <2>1. UNCHANGED <<file, content, saved, target, key>> /\ clean /\ pc[v] \in {"check", "ask"}
    BY <1>4 DEF Check, CheckFails, Reject, Accept, Same, Access, fileVars
  <2>2. /\ pc'[v] \in {"over", "ask", "remove", "prefix"}
        /\ \A u \in Verifier \ {v} : pc'[u] = pc[u]
    BY <1>4 DEF Check, CheckFails, Reject, Accept, Go, Verify
  <2>. QED BY <1>1, <2>1, <2>2
<1>5. ASSUME NEW v \in Verifier, Remove(v) PROVE SavedInv'
  <2>1. UNCHANGED <<file, saved, target, key>> /\ Access(v) /\ pc[v] = "remove"
    BY <1>5 DEF Remove, Same, fileVars
  <2>2. clean /\ \A u \in Verifier \ {v} : ~Rewriting(u)
    BY <2>1, CleanIsAlone
  <2>3. /\ pc'[v] = IF file = <<>> THEN "prefix" ELSE "truncate"
        /\ \A u \in Verifier \ {v} : pc'[u] = pc[u]
    BY <1>5 DEF Remove, Go
  <2>4. \A u \in Verifier : pc[u] # "write"
    BY <2>1, <2>2 DEF Rewriting
  <2>5. \A u \in Verifier : pc'[u] # "write" /\ (pc'[u] = "truncate" => u = v)
    BY <2>2, <2>3 DEF Rewriting
  <2>6. Lines(content'[v]) = {l \in Lines(file) : ~Replaced(l, target[v], key[v])}
    <3>1. content'[v] = Others(file, target[v], key[v])
      BY <1>5 DEF Remove
    <3>. QED BY <3>1, OthersKeep
  <2>7. \A p \in saved : Line(p[1], p[2]) \in Lines(file)
    BY <2>2, <2>4 DEF SavedInv
  <2>. QED BY <2>1, <2>5, <2>6, <2>7 DEF SavedInv
<1>6. ASSUME NEW v \in Verifier, Truncate(v) PROVE SavedInv'
  <2>1. UNCHANGED <<content, target, key>> /\ Access(v) /\ pc[v] = "truncate"
    BY <1>6 DEF Truncate
  <2>2. clean /\ \A u \in Verifier \ {v} : ~Rewriting(u)
    BY <2>1, CleanIsAlone
  <2>3. pc' = [pc EXCEPT ![v] = "write"]
    BY <1>6 DEF Truncate, Go
  <2>4. \A u \in Verifier : pc'[u] # "truncate" /\ (pc'[u] = "write" <=> u = v)
    BY <2>2, <2>3 DEF Rewriting
  <2>5. ASSUME NEW p \in saved' PROVE Line(p[1], p[2]) \in Lines(content[v])
    <3>1. p \in saved /\ ~(Matches(Line(p[1], p[2]), target[v]) /\ p[2].type = key[v].type)
      BY <1>6 DEF Truncate
    <3>2. Line(p[1], p[2]).key = p[2]
      BY DEF Line
    <3>3. ~Replaced(Line(p[1], p[2]), target[v], key[v])
      BY <3>1, <3>2 DEF Replaced
    <3>. QED BY <2>1, <2>2, <3>1, <3>3 DEF SavedInv
  <2>. QED BY <2>1, <2>4, <2>5 DEF SavedInv
<1>7. ASSUME NEW v \in Verifier, Write(v) PROVE SavedInv'
  <2>1. UNCHANGED saved /\ file' = content[v] /\ Access(v) /\ pc[v] = "write"
    BY <1>7 DEF Write, Same
  <2>2. clean /\ \A u \in Verifier \ {v} : ~Rewriting(u)
    BY <2>1, CleanIsAlone
  <2>3. pc' = [pc EXCEPT ![v] = "prefix"]
    BY <1>7 DEF Write, Go
  <2>4. \A u \in Verifier : pc'[u] \notin {"truncate", "write"}
    BY <2>2, <2>3 DEF Rewriting
  <2>. QED BY <2>1, <2>2, <2>4 DEF SavedInv
<1>8. ASSUME NEW v \in Verifier, Prefix(v) PROVE SavedInv'
  <2>1. UNCHANGED <<file, content, saved, target, key>> /\ clean /\ pc[v] = "prefix"
    BY <1>8 DEF Prefix, Same, Access, fileVars
  <2>2. pc' = [pc EXCEPT ![v] = "append"]
    BY <1>8 DEF Prefix, Go
  <2>. QED BY <1>1, <2>1, <2>2
<1>9. ASSUME NEW v \in Verifier, AppendLine(v) PROVE SavedInv'
  <2>1. Access(v) /\ pc[v] = "append" /\ saved' = saved \cup {<<target[v], key[v]>>}
    BY <1>9 DEF AppendLine
  <2>2. clean /\ \A u \in Verifier \ {v} : ~Rewriting(u)
    BY <2>1, CleanIsAlone
  <2>3. pc' = [pc EXCEPT ![v] = "over"]
    BY <1>9 DEF AppendLine, Verify, Go
  <2>4. \A u \in Verifier : pc[u] # "write" /\ pc'[u] \notin {"truncate", "write"}
    BY <2>1, <2>2, <2>3 DEF Rewriting
  <2>. DEFINE line == Line(target[v], key[v])
  <2>5. Lines(file') = Lines(file) \cup {line}
    <3>1. line \in LineType /\ (newline \/ needsNewline[v]) \in BOOLEAN
      BY LineIsLine
    <3>2. file' = Appended(file, newline \/ needsNewline[v], line)
      BY <1>9 DEF AppendLine
    <3>3. file = <<>> \/ newline \/ needsNewline[v]
      BY <2>1, <2>2 DEF EndInv
    <3>. HIDE DEF line
    <3>. QED BY <3>1, <3>2, <3>3, LinesAppended
  <2>6. \A p \in saved' : Line(p[1], p[2]) \in Lines(file')
    <3>1. \A p \in saved : Line(p[1], p[2]) \in Lines(file)
      BY <2>2, <2>4 DEF SavedInv
    <3>2. <<target[v], key[v]>>[1] = target[v] /\ <<target[v], key[v]>>[2] = key[v]
      OBVIOUS
    <3>. QED BY <2>1, <2>5, <3>1, <3>2
  <2>. QED BY <2>4, <2>6 DEF SavedInv
<1>10. ASSUME NEW v \in Verifier, SaveFails(v) PROVE SavedInv'
  <2>1. clean /\ pc[v] \in {"prefix", "append"}
    BY <1>10, CleanFailure
  <2>2. UNCHANGED <<file, saved, target, key>> /\ pc' = [pc EXCEPT ![v] = "over"]
    BY <1>10 DEF SaveFails, Same, Verify, Go, fileVars
  <2>3. \A u \in Verifier \ {v} : content'[u] = content[u]
    BY <1>10 DEF SaveFails
  <2>. QED BY <1>1, <2>1, <2>2, <2>3
<1>. QED BY <1>2, <1>3, <1>4, <1>5, <1>6, <1>7, <1>8, <1>9, <1>10 DEF Next, Step

LEMMA IInvNext == IInv /\ [Next]_vars => IInv'
  BY TypesNext, FlowNext, VouchNext, RevokeNext, EndNext, SavedNext DEF IInv

LEMMA IInvAlways == Spec => []IInv
  BY InitIInv, IInvNext, PTL DEF Spec

-----------------------------------------------------------------------------
(* The theorems.                                                           *)

\* A key is accepted only when it was on file at first or the user has accepted it,
\* for any number of connections that read, filter, write and append to known_hosts
\* without a lock (createHostVerifier).
THEOREM KnownHostsInvHolds == Spec => []KnownHostsInv
<1>1. IInv => KnownHostsInv
  BY DEF IInv, VouchInv, KnownHostsInv
<1>. QED BY <1>1, IInvAlways, PTL

\* Who is told that a host is unknown has saved no other key of that type for it,
\* unless it was replaced or a replacement failed or met another access.
THEOREM ChangeIsAnnouncedHolds == Spec => ChangeIsAnnounced
<1>1. ASSUME IInv, [Next]_vars, NEW v \in Verifier,
             asked[v] # "unknown", asked'[v] = "unknown", clean',
             NEW p \in saved, p[1] = target[v]
      PROVE  p[2].type # key[v].type
  <2>0. TypeOK /\ FlowInv /\ RevokeInv /\ EndInv /\ SavedInv
    BY <1>1 DEF IInv
  <2>. USE <2>0 DEF TypeOK
  <2>1. Check(v)
    <3>1. ASSUME ~Check(v) PROVE asked'[v] # "unknown"
      <4>1. CASE UNCHANGED vars
        BY <1>1, <4>1 DEF vars
      <4>2. ASSUME NEW u \in Verifier, Connect(u) PROVE asked'[v] # "unknown"
        BY <1>1, <4>2 DEF Connect, None
      <4>3. ASSUME NEW u \in Verifier, Check(u) PROVE asked'[v] # "unknown"
        BY <1>1, <3>1, <4>3 DEF Check
      <4>4. ASSUME NEW u \in Verifier, CheckFails(u) \/ Reject(u) \/ Accept(u) PROVE asked' = asked
        BY <4>4 DEF CheckFails, Reject, Accept
      <4>5. ASSUME NEW u \in Verifier, Remove(u) \/ Truncate(u) \/ Write(u) PROVE asked' = asked
        BY <4>5 DEF Remove, Truncate, Write
      <4>6. ASSUME NEW u \in Verifier, Prefix(u) \/ AppendLine(u) \/ SaveFails(u) PROVE asked' = asked
        BY <4>6 DEF Prefix, AppendLine, SaveFails
      <4>. QED BY <1>1, <4>1, <4>2, <4>3, <4>4, <4>5, <4>6 DEF Next, Step
    <3>. QED BY <1>1, <3>1
  <2>2. Status(file, target[v], key[v]) = "not-found"
    BY <1>1, <2>1 DEF Check, Prompt
  <2>3. Access(v) /\ pc[v] = "check"
    BY <2>1 DEF Check
  <2>4. clean /\ \A u \in Verifier : pc[u] # "write"
    BY <1>1, <2>3, CleanIsAlone DEF Rewriting
  <2>5. Line(p[1], p[2]) \in Lines(file)
    BY <2>4 DEF SavedInv
  <2>6. ~Replaced(Line(p[1], p[2]), target[v], key[v])
    BY <2>2, <2>5, NotFoundIsNew
  <2>7. p[1] \in Target /\ p[2] \in Key
    OBVIOUS
  <2>8. Line(p[1], p[2]).key = p[2] /\ Matches(Line(p[1], p[2]), target[v])
    BY <1>1, <2>7, LineIsLine
  <2>. QED BY <2>6, <2>8 DEF Replaced
<1>2. IInv /\ [Next]_vars =>
        [\A v \in Verifier : asked[v] # "unknown" /\ asked'[v] = "unknown" /\ clean'
            => \A p \in saved : p[1] = target[v] => p[2].type # key[v].type]_vars
  BY <1>1
<1>. QED BY <1>2, IInvAlways, PTL DEF Spec, ChangeIsAnnounced

\* What the user has just accepted is known from then on: its line is on file, and no
\* earlier line revokes it.
THEOREM TrustIsKnownHolds == Spec => TrustIsKnown
<1>1. ASSUME IInv, [Next]_vars, NEW v \in Verifier,
             pc[v] = "append", verdict'[v] = "yes", clean'
      PROVE  Status(file', target[v], key[v]) = "match"
  <2>0. TypeOK /\ FlowInv /\ RevokeInv /\ EndInv /\ SavedInv
    BY <1>1 DEF IInv
  <2>. USE <2>0 DEF TypeOK
  <2>1. AppendLine(v)
    <3>1. verdict[v] = None
      BY <1>1 DEF FlowInv
    <3>2. ASSUME ~AppendLine(v) PROVE verdict'[v] # "yes"
      <4>1. CASE UNCHANGED vars
        BY <4>1, <3>1 DEF vars, None
      <4>2. ASSUME NEW u \in Verifier \ {v},
                   Connect(u) \/ Step(u) \/ Accept(u) \/ Reject(u)
            PROVE  verdict'[v] # "yes"
        BY <4>2, <3>1 DEF Step, Connect, Check, CheckFails, Reject, Accept, Remove, Truncate,
           Write, Prefix, AppendLine, SaveFails, Same, Go, Verify, None
      <4>3. ASSUME Connect(v) \/ Step(v) \/ Accept(v) \/ Reject(v)
            PROVE  verdict'[v] # "yes"
        BY <1>1, <4>3, <3>1, <3>2 DEF Step, Connect, Check, CheckFails, Reject, Accept, Remove,
           Truncate, Write, Prefix, SaveFails, Same, Go, Verify, None
      <4>. QED BY <1>1, <4>1, <4>2, <4>3 DEF Next
    <3>. QED BY <1>1, <3>2
  <2>2. Access(v) /\ clean
    BY <1>1, <2>1, CleanIsAlone DEF AppendLine
  <2>. DEFINE line == Line(target[v], key[v])
  <2>3. /\ line \in LineType /\ line.key = key[v] /\ line.marker = None
        /\ Matches(line, target[v])
    BY LineIsLine
  <2>4. (newline \/ needsNewline[v]) \in BOOLEAN /\ (file = <<>> \/ newline \/ needsNewline[v])
    BY <1>1, <2>2 DEF EndInv
  <2>5. file' = Appended(file, newline \/ needsNewline[v], line)
    BY <2>1 DEF AppendLine
  <2>. HIDE DEF line
  <2>6. file' \in Seq(LineType) /\ Lines(file') = Lines(file) \cup {line}
    BY <2>3, <2>4, <2>5, LinesAppended
  <2>7. Names(line, target[v], key[v]) /\ ~Revokes(line, target[v], key[v])
    BY <2>3 DEF Names, Revokes, None
  <2>8. \A l \in Lines(file) : ~Revokes(l, target[v], key[v])
    BY <1>1, <2>2 DEF RevokeInv, Saving, NotRevoked
  <2>. QED BY <2>6, <2>7, <2>8, OnFileIsMatch
<1>2. IInv /\ [Next]_vars =>
        [\A v \in Verifier : pc[v] = "append" /\ verdict'[v] = "yes" /\ clean'
            => Status(file', target[v], key[v]) = "match"]_vars
  BY <1>1
<1>. QED BY <1>2, IInvAlways, PTL DEF Spec, TrustIsKnown
=============================================================================
