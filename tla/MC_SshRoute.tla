---------------------------- MODULE MC_SshRoute ----------------------------
(* Model-checking constants for SshRoute: every bookmark with or without   *)
(* saved credentials, at most two key files, every kind of server, and     *)
(* routes of at most two hops.                                             *)
EXTENDS SshRoute

\* A missing file is not told apart by whether its key is known.
Keys == {k \in Key : k.kind = "missing" => ~k.known}
UpToTwo(S) == {<<>>} \cup [1 .. 1 -> S] \cup [1 .. 2 -> S]

Bookmarks(key_files, saved, passwords) ==
  [files : key_files, saved : saved, username : BOOLEAN, password : passwords, mfa : {FALSE},
   server : {"keys", "password", "code", "both"}, ciphers : {TRUE},
   purpose : {"terminal"}, hops : {FALSE}]

\* Nothing saved: the key files are used.
FromFiles == Bookmarks(UpToTwo(Keys), {NoKey}, {"none"})

\* A key or a password saved: they are not.
SavedKeys == {k \in Keys : k.kind # "missing"}
FromBookmark ==
  Bookmarks({<<>>}, SavedKeys, {"none", "right", "wrong"})
    \cup Bookmarks({<<>>}, {NoKey}, {"right", "wrong"})

\* The other purposes, a server without a common cipher, a required code.
Variants ==
  {[w EXCEPT !.purpose = p] : w \in FromBookmark, p \in {"sftp", "test"}}
    \cup {[w EXCEPT !.ciphers = FALSE] : w \in Bookmarks([1 .. 2 -> Keys], {NoKey}, {"none"})}
    \cup {[w EXCEPT !.mfa = TRUE] : w \in FromBookmark}

\* With hops: a login that may be retried, one that may not, a saved password.
Opening == [kind |-> "open", known |-> TRUE]
Locked  == [kind |-> "locked", known |-> TRUE]
ThroughHops ==
  {w \in Bookmarks({<<>>, <<Locked>>, <<Locked, Opening>>}, {NoKey}, {"none", "right"}) :
     /\ w.username /\ w.server \in {"keys", "password"}
     /\ (w.files = <<>>) <=> (w.password = "right")
     /\ (w.files = <<>>) <=> (w.server = "password")}

AllWorlds ==
  FromFiles \cup FromBookmark \cup Variants \cup {[w EXCEPT !.hops = TRUE] : w \in ThroughHops}

Hops(key_files, saved, passwords, agents) ==
  [files : key_files, saved : saved, password : passwords, agent : agents,
   server : {"keys", "password"}]

OneHop ==
  Hops(UpToTwo(Keys), {NoKey}, {"none"}, {"none", "refused", "taken"})
    \cup Hops({<<>>}, SavedKeys \cup {NoKey}, {"right", "wrong", "none"}, {"none"})

FirstOfTwo ==
  Hops({<<Locked>>}, {NoKey}, {"none"}, {"none", "taken"}) \cup Hops({<<>>}, {Locked}, {"none"}, {"none"})
SecondOfTwo == Hops({<<Opening, Locked>>, <<>>}, {NoKey, Opening}, {"none"}, {"none"})

AllRoutes ==
  {<<>>} \cup {<<h>> : h \in OneHop} \cup {<<g, h>> : g \in FirstOfTwo, h \in SecondOfTwo}
=============================================================================
