----------------------------- MODULE KnownHosts -----------------------------
(***************************************************************************)
(* Verification of host keys against ~/.ssh/known_hosts                    *)
(* (server/ssh-known-hosts.js).                                            *)
(*                                                                         *)
(* Every SSH connection, and every hop of one, has a verifier.  Verifiers  *)
(* work on the same file, which they read and write in steps with awaits   *)
(* in between, and they wait for the user.                                 *)
(*                                                                         *)
(* A line stands for the names it matches (hashes and patterns included),  *)
(* the names it negates, a marker and a key.  Lines that do not parse are  *)
(* kept by every operation and are left out.                               *)
(***************************************************************************)
EXTENDS Naturals, Sequences

CONSTANTS
    Verifier,
    Target,         \* [host, port]
    Key,            \* [type, data]
    InitialFiles,   \* contents of the file there may be: sequences of lines
    MaxConns        \* bound on connections

None == "none"
LineType == [hosts : SUBSET UNION {{<<t.host, 0>>, <<t.host, t.port>>} : t \in Target},
             except : SUBSET UNION {{<<t.host, 0>>, <<t.host, t.port>>} : t \in Target},
             marker : {None, "@revoked", "broken pattern"}, key : Key]
ASSUME KnownHostsAssumption ==
    /\ Target # {} /\ Key # {} /\ InitialFiles \subseteq Seq(LineType)
    /\ MaxConns \in Nat

VARIABLES
    file,       \* the lines of the file
    newline,    \* the last line is terminated
    pc,         \* what a verifier does next
    target, key,    \* what it verifies
    asked,      \* the prompt of the user: none, unknown, changed
    content,    \* what removeKnownHost is going to write
    needsNewline,
    verdict,    \* none, yes, no
    trusted,    \* (history) host and key: on file at first, or accepted by the user
    saved,      \* (history) target and key: saved, and not replaced since
    clean,      \* (history) no replacement has failed or met another access to the file
    conns

fileVars == <<file, newline>>
history == <<trusted, saved, clean, conns>>
vars == <<fileVars, pc, target, key, asked, content, needsNewline, verdict, history>>

-----------------------------------------------------------------------------
(* Names and lines.                                                        *)

\* getKnownHostCandidates: the host, with whatever port, and the host with its port.
Candidates(t) == {<<t.host, 0>>, <<t.host, t.port>>}

\* The name appendKnownHost writes: the port only when it is not 22.
HostToken(t) == <<t.host, IF t.port = 22 THEN 0 ELSE t.port>>

\* matchesKnownHostField: one name must match, and no negated one may.
Matches(line, t) ==
    line.hosts \cap Candidates(t) # {} /\ line.except \cap Candidates(t) = {}

Line(t, k) == [hosts |-> {HostToken(t)}, except |-> {}, marker |-> None, key |-> k]

\* wildcardToRegExp leaves a "*" unescaped: a pattern that begins with one is no
\* regular expression, and whoever tries it throws.
Throws(f) == \E i \in DOMAIN f : f[i].marker = "broken pattern"

\* (Mutant) A line with a key of the same type will do.
SameType(a, b) == a.type = b.type

SameKey(a, b) == a = b

\* buildHostMismatchPrompt, buildUnknownHostPrompt
Prompt(status) == IF status = "mismatch" THEN "changed" ELSE "unknown"

\* checkKnownHosts: the first line with this very key, or else any of its type.
Status(f, t, k) ==
    LET same == {i \in DOMAIN f : Matches(f[i], t) /\ f[i].key.type = k.type}
        exact == {i \in same : SameKey(f[i].key, k)}
        first == CHOOSE i \in exact : \A j \in exact : i <= j
    IN  IF exact # {} THEN IF f[first].marker = "@revoked" THEN "revoked" ELSE "match"
        ELSE IF same # {} THEN "mismatch" ELSE "not-found"

\* The lines a new key replaces.
Replaced(l, t, k) == Matches(l, t) /\ l.key.type = k.type

\* (Mutant) The filter of removeKnownHost is the wrong way round.
OthersNot(f, t, k) == SelectSeq(f, LAMBDA l : Replaced(l, t, k))

\* What removeKnownHost keeps (a recursive function: SelectSeq has no facts to prove by).
Others(f, t, k) ==
    LET kept[i \in 0 .. Len(f)] ==
            IF i = 0 THEN <<>>
            ELSE IF Replaced(f[i], t, k) THEN kept[i - 1] ELSE Append(kept[i - 1], f[i])
    IN  kept[Len(f)]

\* appendFile: a last line that is not terminated swallows the new one, and neither
\* can be read again.
Appended(f, terminated, line) ==
    IF f = <<>> \/ terminated THEN Append(f, line) ELSE SubSeq(f, 1, Len(f) - 1)

-----------------------------------------------------------------------------
TypeOK ==
    /\ file \in Seq(LineType) /\ newline \in BOOLEAN
    /\ pc \in [Verifier -> {"idle", "check", "ask", "remove", "truncate", "write",
                            "prefix", "append", "over"}]
    /\ target \in [Verifier -> Target] /\ key \in [Verifier -> Key]
    /\ asked \in [Verifier -> {None, "unknown", "changed"}]
    /\ content \in [Verifier -> Seq(LineType)]
    /\ needsNewline \in [Verifier -> BOOLEAN]
    /\ verdict \in [Verifier -> {None, "yes", "no"}]
    /\ saved \subseteq Target \X Key /\ clean \in BOOLEAN /\ conns \in 0 .. MaxConns

Init ==
    /\ file \in InitialFiles /\ newline \in BOOLEAN
    /\ pc = [v \in Verifier |-> "idle"]
    /\ target = [v \in Verifier |-> CHOOSE t \in Target : TRUE]
    /\ key = [v \in Verifier |-> CHOOSE k \in Key : TRUE]
    /\ asked = [v \in Verifier |-> None]
    /\ content = [v \in Verifier |-> <<>>]
    /\ needsNewline = [v \in Verifier |-> FALSE]
    /\ verdict = [v \in Verifier |-> None]
    /\ trusted = UNION {{<<t.host, file[i].key>> : i \in {j \in DOMAIN file : Matches(file[j], t)}}
                        : t \in Target}
    /\ saved = {} /\ clean = TRUE /\ conns = 0

Go(v, to) == pc' = [pc EXCEPT ![v] = to]
Verify(v, answer) == Go(v, "over") /\ verdict' = [verdict EXCEPT ![v] = answer]

\* The file is looked at or changed while another verifier rewrites it.
Access(v) ==
    clean' = (clean /\ \A u \in Verifier \ {v} : pc[u] \notin {"truncate", "write"})

Same(v) == UNCHANGED <<target, key, trusted, saved, conns>>

\* A connection, or a hop: the key the server presents may be any.
Connect(v) ==
    /\ pc[v] \in {"idle", "over"} /\ conns < MaxConns
    /\ \E t \in Target, k \in Key : target' = [target EXCEPT ![v] = t] /\ key' = [key EXCEPT ![v] = k]
    /\ Go(v, "check") /\ conns' = conns + 1
    /\ asked' = [asked EXCEPT ![v] = None] /\ verdict' = [verdict EXCEPT ![v] = None]
    /\ UNCHANGED <<fileVars, content, needsNewline, trusted, saved, clean>>

Check(v) ==
    LET status == Status(file, target[v], key[v]) IN
    /\ pc[v] = "check" /\ ~Throws(file)
    /\ \/ status = "match" /\ Verify(v, "yes") /\ UNCHANGED asked
       \/ status = "revoked" /\ Verify(v, "no") /\ UNCHANGED asked
       \/ /\ status \in {"mismatch", "not-found"} /\ Go(v, "ask") /\ UNCHANGED verdict
          /\ asked' = [asked EXCEPT ![v] = Prompt(status)]
    /\ Access(v) /\ Same(v) /\ UNCHANGED <<fileVars, content, needsNewline>>

\* The file cannot be read, its patterns cannot be used, the key cannot be parsed.
CheckFails(v) ==
    /\ pc[v] = "check" /\ Verify(v, "no")
    /\ Same(v) /\ UNCHANGED <<fileVars, asked, content, needsNewline, clean>>

Reject(v) ==
    /\ pc[v] = "ask" /\ Verify(v, "no")
    /\ Same(v) /\ UNCHANGED <<fileVars, asked, content, needsNewline, clean>>

Accept(v) ==
    /\ pc[v] = "ask" /\ Go(v, IF asked[v] = "changed" THEN "remove" ELSE "prefix")
    /\ trusted' = trusted \cup {<<target[v].host, key[v]>>}
    /\ UNCHANGED <<fileVars, target, key, asked, content, needsNewline, verdict, saved, clean, conns>>

\* removeKnownHost reads the file; there is nothing to do in an empty one.
Remove(v) ==
    /\ pc[v] = "remove" /\ Go(v, IF file = <<>> THEN "prefix" ELSE "truncate")
    /\ content' = [content EXCEPT ![v] = Others(file, target[v], key[v])]
    /\ Access(v) /\ Same(v) /\ UNCHANGED <<fileVars, asked, needsNewline, verdict>>

\* writeFile empties the file first.
Truncate(v) ==
    /\ pc[v] = "truncate" /\ Go(v, "write") /\ file' = <<>>
    /\ saved' = {p \in saved : ~(Matches(Line(p[1], p[2]), target[v]) /\ p[2].type = key[v].type)}
    /\ Access(v)
    /\ UNCHANGED <<newline, target, key, asked, content, needsNewline, verdict, trusted, conns>>

\* What others have written since then is overwritten.
Write(v) ==
    /\ pc[v] = "write" /\ Go(v, "prefix")
    /\ file' = content[v] /\ content' = [content EXCEPT ![v] = <<>>]
    /\ Access(v) /\ Same(v) /\ UNCHANGED <<newline, asked, needsNewline, verdict>>

\* (Mutant) Nobody looks how the file ends.
UnterminatedNever == FALSE

Unterminated == file # <<>> /\ ~newline

\* appendKnownHost reads the file to see how it ends.
Prefix(v) ==
    /\ pc[v] = "prefix" /\ Go(v, "append")
    /\ needsNewline' = [needsNewline EXCEPT ![v] = Unterminated]
    /\ Access(v) /\ Same(v) /\ UNCHANGED <<fileVars, asked, content, verdict>>

AppendLine(v) ==
    /\ pc[v] = "append" /\ Verify(v, "yes")
    /\ file' = Appended(file, newline \/ needsNewline[v], Line(target[v], key[v]))
    /\ newline' = TRUE
    /\ saved' = saved \cup {<<target[v], key[v]>>}
    /\ Access(v) /\ UNCHANGED <<target, key, asked, content, needsNewline, trusted, conns>>

\* A read or a write fails: the file stays as it is by then.
SaveFails(v) ==
    /\ pc[v] \in {"remove", "truncate", "write", "prefix", "append"} /\ Verify(v, "no")
    /\ clean' = (clean /\ asked[v] = "unknown")
    /\ content' = [content EXCEPT ![v] = <<>>]
    /\ Same(v) /\ UNCHANGED <<fileVars, asked, needsNewline>>

Step(v) ==
    \/ Check(v) \/ CheckFails(v) \/ Remove(v) \/ Truncate(v) \/ Write(v)
    \/ Prefix(v) \/ AppendLine(v) \/ SaveFails(v)
Next == \E v \in Verifier : Connect(v) \/ Step(v) \/ Accept(v) \/ Reject(v)

Spec == Init /\ [][Next]_vars

-----------------------------------------------------------------------------
(* Properties.                                                             *)

\* A key is accepted for a host only when the file had it for that host at first or
\* the user has accepted it, whatever the verifiers did to the file in the meantime.
Vouched ==
    \A v \in Verifier : verdict[v] = "yes" => <<target[v].host, key[v]>> \in trusted

KnownHostsInv == TypeOK /\ Vouched

\* The user who is told that a host is unknown has not saved another key of this type
\* for it, unless that was replaced, or a replacement failed or met another access.
ChangeIsAnnounced ==
    [][\A v \in Verifier : asked[v] # "unknown" /\ asked'[v] = "unknown" /\ clean'
          => \A p \in saved : p[1] = target[v] => p[2].type # key[v].type]_vars

\* What the user has just accepted is known from then on.
TrustIsKnown ==
    [][\A v \in Verifier : pc[v] = "append" /\ verdict'[v] = "yes" /\ clean'
          => Status(file', target[v], key[v]) = "match"]_vars
=============================================================================
