---------------------------- MODULE CaseDispatch ----------------------------
(***************************************************************************)
(* The case dispatcher of the camera daemon (src/ap2p/legacy_cases.c):     *)
(* legacy_message_arrived on paho's receive thread, one message after the  *)
(* other, beside the keep-alive thread.  Its cases read and write settings *)
(* through the camera's own web server, change and synchronise the web     *)
(* account, move the camera, play audio, restart P2Pambicam and replace    *)
(* the software in flash.                                                  *)
(*                                                                         *)
(* A request is a case number and a payload.  What an answer says is the   *)
(* subject of LegacyCases; here an answer is one more publication.  The    *)
(* web server accepts a request that carries the account it has.           *)
(***************************************************************************)
EXTENDS Naturals, FiniteSets

CONSTANTS
    Users, Passwords,
    EmptyPassword,  \* the empty password
    Factory,        \* the account a daemon starts with: CAM_USERNAME, CAM_PASSWORD
    Archives,       \* firmware archives by URL, for case 36
    Named,          \* those whose URL ends in Augentix.tar.gz
    Rooted,         \* those with all their files, ambicam.sh too, in AugenTix/
    CaseMixes,      \* the cases the server draws on in one behaviour
    OwnerMixes,     \* bound: the mixes beside which the owner is active
    MaxBoots,       \* bound: restarts of the camera
    MaxProcesses,   \* bound: P2Pambicam processes
    Nothing

Accounts == [user : Users, pass : Passwords]

ASSUME DispatchAssumption ==
    /\ EmptyPassword \in Passwords /\ Factory \in Accounts
    /\ Named \subseteq Archives /\ Rooted \subseteq Archives
    /\ MaxBoots \in Nat /\ MaxProcesses \in Nat
    /\ Nothing \notin Users \union Passwords \union Archives
    /\ {"factory", "part"} \intersect Archives = {}
    /\ CaseMixes \subseteq SUBSET Nat /\ OwnerMixes \subseteq CaseMixes
    /\ Nothing \notin {"callback", "keepalive"}

VARIABLES
    asked,          \* the mix of this behaviour
    cb,             \* legacy_message_arrived: where, case, payload, account copied
    ka,             \* the keep-alive thread: where, account copied
    cred, held,     \* CAM_USERNAME, CAM_PASSWORD, CAM_AUTH_BASIC; cred_mutex
    web,            \* the camera's web account and whether it is moving
    p2p,            \* P2Pambicam processes, whether the last kill spared one,
                    \* last_status, offline_handled
    audio,          \* sockfd of case 56, sockets it has open, whether its peer lives
    tmp, flash,     \* /tmp and /mny/mtd/ipc
    boots,
    said, drift, installed   \* for the properties

threads == <<cb, ka>>
account == <<cred, held>>
disk == <<tmp, flash>>
ghosts == <<said, drift, installed>>
dispatchVars == <<asked, threads, account, web, p2p, audio, disk, boots, ghosts>>

Idle == [pc |-> "idle", n |-> 0, arg |-> Nothing, copy |-> Factory]

(* A directory: whose files are in it, and the archive, if any, that has   *)
(* all its files there, none overwritten by another's.                     *)
Tree(holds, whole) == [holds |-> holds, whole |-> whole]
NoTree == Tree({}, Nothing)
EmptyTmp == [archive |-> Nothing, tree |-> NoTree, staged |-> NoTree]
FactoryFlash == [prog |-> Tree({"factory"}, "factory"), launcher |-> "factory"]
NoP2P == [running |-> 0, spared |-> FALSE, last |-> "", handled |-> FALSE]
Pair(c) == [user |-> c.user, pass |-> c.pass]

DispatchInit ==
    /\ asked \in CaseMixes
    /\ cb = Idle /\ ka = [pc |-> "rest", copy |-> Factory]
    /\ cred = [user |-> Factory.user, pass |-> Factory.pass, basic |-> Factory]
    /\ held = Nothing
    /\ web = [account |-> Factory, moving |-> FALSE]
    /\ p2p = NoP2P
    /\ audio = [fd |-> FALSE, open |-> 0, peer |-> FALSE]
    /\ tmp = EmptyTmp /\ flash = FactoryFlash
    /\ boots = 0
    /\ said = 0 /\ drift = FALSE /\ installed = {Factory}

-----------------------------------------------------------------------------
(* The switch.  Most cases make one request of the web server and publish  *)
(* whatever comes back.                                                    *)
StatusReads == {2} \union 4..11
SettingWrites == (19..33) \ {22}
InfoReads == {35, 38, 39}
AudioAndEvents == (41..48) \ {44}
AlarmCases == {52, 54, 55}
TimeAndDetection == 58..66
CardReads == {68, 69}
SystemCases == 72..78
QcReads == {81, 83}
Plain == StatusReads \union SettingWrites \union InfoReads \union AudioAndEvents
         \union AlarmCases \union TimeAndDetection \union CardReads
         \union SystemCases \union QcReads

(* Cases answered with a fixed sentence.                                   *)
Unsupported == {3, 22, 34, 44} \union 12..18

(* Cases whose JSON payload is looked at before anything is done.          *)
Parsed == {53, 70, 71, 80}

(* Cases that answer only if the request went through.                     *)
OnSuccess == {49, 50, 67}

At(pc) == cb.pc = pc
Goes(pc) == cb' = [cb EXCEPT !.pc = pc]
Says(k) == said' = said + k

First(n) ==
    IF n \in Plain \union OnSuccess \union {51, 53, 70, 71} THEN "request"
    ELSE CASE n \in Unsupported -> "publish"
           [] n = 0 -> "status" [] n = 1 -> "return" [] n = 36 -> "sd"
           [] n = 37 -> "sysinfo" [] n = 40 -> "raw" [] n = 56 -> "audio"
           [] n = 57 -> "return" [] n = 80 -> "lock" [] OTHER -> "return"

(* What a payload can be, for the cases that depend on it.                 *)
Payload(n) ==
    CASE n = 0 -> {"online", "offline"}
      [] n = 36 -> Archives
      [] n = 56 -> {"frame", "huge", "Streamend"}
      [] n = 71 -> [old : Passwords, new : Passwords]
      [] n = 80 -> [user : Users \union {Nothing}, pass : Passwords \union {Nothing}]
      [] OTHER -> {Nothing}

legacy_message_arrived(n, payload) ==
    /\ At("idle")
    /\ cb' = [cb EXCEPT !.pc = First(n), !.n = n, !.arg = payload]
    /\ said' = 0
    /\ UNCHANGED <<asked, ka, account, web, p2p, audio, disk, boots, drift, installed>>

(* JSON it cannot use.  (That memory runs out is left out.)                *)
PayloadRejected(n) ==
    /\ At("idle") /\ n \in Parsed
    /\ cb' = [cb EXCEPT !.pc = "return", !.n = n]
    /\ said' = 0
    /\ UNCHANGED <<asked, ka, account, web, p2p, audio, disk, boots, drift, installed>>

Return ==
    /\ At("return")
    /\ cb' = Idle
    /\ UNCHANGED <<asked, ka, account, web, p2p, audio, disk, boots, ghosts>>

Publish ==
    /\ At("publish") /\ Goes("return") /\ Says(1)
    /\ UNCHANGED <<asked, ka, account, web, p2p, audio, disk, boots, drift, installed>>

(* Case 37 publishes if the thermal zone, the card and /proc/stat are read.*)
SystemInfo ==
    /\ At("sysinfo")
    /\ Goes("publish") \/ Goes("return")
    /\ UNCHANGED <<asked, ka, account, web, p2p, audio, disk, boots, ghosts>>

-----------------------------------------------------------------------------
(* send_https_request: a copy of the account, then the request.            *)
get_cam_credentials ==
    /\ At("request") /\ held = Nothing
    /\ cb' = [cb EXCEPT !.pc = "perform", !.copy = Pair(cred)]
    /\ UNCHANGED <<asked, ka, account, web, p2p, audio, disk, boots, ghosts>>

(* The web server's side of a request: what it may do with one that        *)
(* carries its account.  It may refuse a new password.                     *)
Effects ==
    IF cb.copy # web.account THEN {web}
    ELSE CASE cb.n = 51 -> {[web EXCEPT !.moving = TRUE]}
           [] cb.n = 71 /\ cb.arg.old = web.account.pass ->
                 {web, [web EXCEPT !.account.pass = cb.arg.new]}
           [] OTHER -> {web}

\* Faulty variant: every case waits for success.
AfterRequest_OnSuccess(ok) ==
    CASE ~ok -> "return"
      [] cb.n = 51 -> "stop"
      [] cb.n = 53 -> IF cb.arg = "second" THEN "return" ELSE "second"
      [] OTHER -> "publish"

(* Where a case goes on from its request.                                  *)
AfterRequest(ok) ==
    CASE cb.n \in OnSuccess -> IF ok THEN "publish" ELSE "return"
      [] cb.n = 51 -> "stop"
      [] cb.n = 53 -> IF cb.arg = "second" THEN "return" ELSE "second"
      [] OTHER -> "publish"

\* Faulty variant: what the camera answered is not looked at.
Accepted_AnyAnswer(marked) == cb.n = 71

(* is_password_change_success: "<success>" or "200" somewhere in the answer*)
Accepted(marked) == cb.n = 71 /\ marked

(* The answer has such a mark although the camera has another password, or *)
(* has none although it took the new one.                                  *)
Misleads(marked) ==
    cb.n = 71 /\ IF marked THEN web'.account.pass # cb.arg.new ELSE web'.account # web.account

Performed ==
    /\ At("perform")
    /\ web' \in Effects
    /\ \E marked \in BOOLEAN :
          /\ Goes(IF Accepted(marked) THEN "update" ELSE AfterRequest(TRUE))
          /\ drift' = (drift \/ Misleads(marked))
    /\ UNCHANGED <<asked, ka, account, p2p, audio, disk, boots, said, installed>>

(* curl fails: before the request has had its effect, or after.            *)
PerformFails ==
    /\ At("perform") /\ Goes(AfterRequest(FALSE))
    /\ web' \in Effects \union {web}
    /\ drift' = (drift \/ web'.account.pass # cred.pass)
    /\ UNCHANGED <<asked, ka, account, p2p, audio, disk, boots, said, installed>>

(* Case 53 publishes the first answer, whatever it was, and makes a second *)
(* request, whose answer or failure it only logs.                          *)
SecondRequest ==
    /\ At("second") /\ Says(1)
    /\ cb' = [cb EXCEPT !.pc = "request", !.arg = "second"]
    /\ UNCHANGED <<asked, ka, account, web, p2p, audio, disk, boots, drift, installed>>

(* send_https_request_case40: a request of its own with CAM_AUTH_BASIC.    *)
RawRequest ==
    /\ At("raw") /\ held = Nothing /\ Goes("publish")
    /\ UNCHANGED <<asked, ka, account, web, p2p, audio, disk, boots, ghosts>>

(* send_PTZ_request("stop") with CAM_AUTH_BASIC, half a second later.      *)
Stop ==
    /\ At("stop") /\ held = Nothing /\ Goes("publish")
    /\ web' = IF cred.basic = web.account THEN [web EXCEPT !.moving = FALSE] ELSE web
    /\ UNCHANGED <<asked, ka, account, p2p, audio, disk, boots, ghosts>>

StopFails ==
    /\ At("stop")
    /\ cb' = [cb EXCEPT !.pc = "publish", !.arg = "lost"]
    /\ UNCHANGED <<asked, ka, account, web, p2p, audio, disk, boots, ghosts>>

-----------------------------------------------------------------------------
(* Changes of the account the daemon uses, under cred_mutex.               *)
Given(x, else) == IF x = Nothing THEN else ELSE x

\* Faulty variant: the header is left as it was.
UpdatePassword_NoRebuild ==
    /\ At("update") /\ cb.arg.new # EmptyPassword /\ held = Nothing /\ Goes("publish")
    /\ cred' = [cred EXCEPT !.pass = cb.arg.new]
    /\ installed' = installed \union {Pair(cred')}
    /\ UNCHANGED <<asked, ka, held, web, p2p, audio, disk, boots, said, drift>>

update_password ==
    /\ At("update") /\ cb.arg.new # EmptyPassword /\ held = Nothing /\ Goes("publish")
    /\ LET c == [cred EXCEPT !.pass = cb.arg.new] IN
         /\ cred' = [c EXCEPT !.basic = Pair(c)]
         /\ installed' = installed \union {Pair(c)}
    /\ UNCHANGED <<asked, ka, held, web, p2p, audio, disk, boots, said, drift>>

(* It refuses an empty password, which the camera now has: "Camera         *)
(* password changed, but local password update failed".                    *)
UpdateRefused ==
    /\ At("update") /\ cb.arg.new = EmptyPassword /\ Goes("publish")
    /\ drift' = (drift \/ cred.pass # EmptyPassword)
    /\ UNCHANGED <<asked, ka, account, web, p2p, audio, disk, boots, said, installed>>

\* Faulty variant: the fields are written without cred_mutex.
SyncLock_None ==
    /\ At("lock") /\ Goes("user")
    /\ UNCHANGED <<asked, ka, account, web, p2p, audio, disk, boots, ghosts>>

(* Case 80: one field, the other, the header, unlock.                      *)
SyncLock ==
    /\ At("lock") /\ held = Nothing /\ Goes("user")
    /\ held' = "callback"
    /\ UNCHANGED <<asked, ka, cred, web, p2p, audio, disk, boots, ghosts>>

SyncUser ==
    /\ At("user") /\ Goes("pass")
    /\ cred' = [cred EXCEPT !.user = Given(cb.arg.user, @)]
    /\ UNCHANGED <<asked, ka, held, web, p2p, audio, disk, boots, ghosts>>

SyncPass ==
    /\ At("pass") /\ Goes("rebuild")
    /\ cred' = [cred EXCEPT !.pass = Given(cb.arg.pass, @)]
    /\ installed' = installed \union {Pair(cred')}
    /\ UNCHANGED <<asked, ka, held, web, p2p, audio, disk, boots, said, drift>>

rebuild_basic_auth ==
    /\ At("rebuild") /\ Goes("return")
    /\ cred' = [cred EXCEPT !.basic = Pair(cred)]
    /\ held' = Nothing
    /\ drift' = (cred.pass # web.account.pass)
    /\ UNCHANGED <<asked, ka, web, p2p, audio, disk, boots, said, installed>>

(* The owner changes the account in the camera's own web page.             *)
OwnerChanges(a) ==
    /\ asked \in OwnerMixes /\ a # web.account
    /\ web' = [web EXCEPT !.account = a]
    /\ drift' = TRUE
    /\ UNCHANGED <<asked, threads, account, p2p, audio, disk, boots, said, installed>>

-----------------------------------------------------------------------------
(* The keep-alive thread: handle_case_34 copies the account field by field *)
(* and asks; handle_case_0 asks nobody.  Both publish.                     *)
KeepaliveLock ==
    /\ ka.pc = "rest" /\ held = Nothing
    /\ held' = "keepalive"
    /\ ka' = [ka EXCEPT !.pc = "user"]
    /\ UNCHANGED <<asked, cb, cred, web, p2p, audio, disk, boots, ghosts>>

KeepaliveUser ==
    /\ ka.pc = "user"
    /\ ka' = [pc |-> "pass", copy |-> [ka.copy EXCEPT !.user = cred.user]]
    /\ UNCHANGED <<asked, cb, account, web, p2p, audio, disk, boots, ghosts>>

KeepalivePass ==
    /\ ka.pc = "pass"
    /\ ka' = [pc |-> "perform", copy |-> [ka.copy EXCEPT !.pass = cred.pass]]
    /\ held' = Nothing
    /\ UNCHANGED <<asked, cb, cred, web, p2p, audio, disk, boots, ghosts>>

KeepalivePerforms ==
    /\ ka.pc = "perform"
    /\ ka' = [pc |-> "rest", copy |-> Factory]
    /\ UNCHANGED <<asked, cb, account, web, p2p, audio, disk, boots, ghosts>>

-----------------------------------------------------------------------------
(* Case 0: on the edge to offline P2Pambicam is killed and started again.  *)
Status ==
    /\ At("status")
    /\ LET edge == cb.arg # p2p.last
           restart == edge /\ cb.arg = "offline" /\ ~p2p.handled IN
         /\ p2p' = [p2p EXCEPT !.last = cb.arg,
                      !.handled = CASE restart -> TRUE
                                    [] edge /\ cb.arg = "online" -> FALSE
                                    [] OTHER -> @]
         /\ Goes(IF restart THEN "kill" ELSE "return")
    /\ UNCHANGED <<asked, ka, account, web, audio, disk, boots, ghosts>>

(* What kills the P2Pambicam processes may miss some, or all: nobody looks *)
(* at the result of popen, of the kill commands or of the script's xargs.  *)
Killed == \E left \in 0 .. p2p.running : p2p' = [p2p EXCEPT !.running = left, !.spared = left > 0]

(* P2P_Kill, whose -1 is ignored, and get_ini_files after it.              *)
P2P_Kill ==
    /\ At("kill") /\ Goes("start") /\ Says(1)
    /\ Killed
    /\ UNCHANGED <<asked, ka, account, web, audio, disk, boots, drift, installed>>

StartP2P ==
    /\ At("start") /\ Goes("return")
    /\ \/ UNCHANGED p2p
       \/ /\ flash.prog # NoTree /\ p2p.running < MaxProcesses
          /\ p2p' = [p2p EXCEPT !.running = @ + 1]
    /\ UNCHANGED <<asked, ka, account, web, audio, disk, boots, ghosts>>

-----------------------------------------------------------------------------
(* Case 56: open the socket if there is none, send, close on Streamend.    *)
AudioConnects ==
    /\ At("audio") /\ ~audio.fd
    /\ audio' = [fd |-> TRUE, open |-> audio.open + 1, peer |-> TRUE]
    /\ Goes("handshake")
    /\ UNCHANGED <<asked, ka, account, web, p2p, disk, boots, ghosts>>

AudioConnectFails ==
    /\ At("audio") /\ ~audio.fd /\ Goes("return")
    /\ UNCHANGED <<asked, ka, account, web, p2p, audio, disk, boots, ghosts>>

\* Faulty variant: a failed handshake forgets the socket without closing it.
HandshakeFails_NoClose ==
    /\ At("handshake") /\ Goes("return")
    /\ audio' = [audio EXCEPT !.fd = FALSE]
    /\ UNCHANGED <<asked, ka, account, web, p2p, disk, boots, ghosts>>

HandshakeFails ==
    /\ At("handshake") /\ Goes("return")
    /\ audio' = [fd |-> FALSE, open |-> audio.open - 1, peer |-> FALSE]
    /\ UNCHANGED <<asked, ka, account, web, p2p, disk, boots, ghosts>>

(* send_websocket_frame drops what does not fit and ignores a dead peer.   *)
AudioSends ==
    /\ At("handshake") \/ (At("audio") /\ audio.fd)
    /\ Goes("return")
    /\ audio' = IF cb.arg # "Streamend" THEN audio
                ELSE [fd |-> FALSE, open |-> audio.open - 1, peer |-> FALSE]
    /\ UNCHANGED <<asked, ka, account, web, p2p, disk, boots, ghosts>>

AudioPeerEnds ==
    /\ audio.peer
    /\ audio' = [audio EXCEPT !.peer = FALSE]
    /\ UNCHANGED <<asked, threads, account, web, p2p, disk, boots, ghosts>>

-----------------------------------------------------------------------------
(* Case 36, the OTA update.  Until the script runs a failure is published  *)
(* and ends the case; in the script set -e ends it.                        *)
OtaFails(at) == At(at) /\ Goes("return") /\ Says(1)

Checks ==
    /\ \/ At("sd") /\ Goes("url") /\ Says(1)
       \/ OtaFails("sd")
       \/ At("url") /\ Goes("lib") /\ UNCHANGED said
       \/ OtaFails("url")
       \/ At("lib") /\ Goes("fetch") /\ Says(1)
       \/ OtaFails("lib")
    /\ UNCHANGED <<asked, ka, account, web, p2p, audio, disk, boots, drift, installed>>

(* wget -P saves the archive under the name its URL ends in.               *)
Saved == IF cb.arg \in Named THEN cb.arg ELSE Nothing

\* Faulty variant: an archive that is there already is not removed, and wget
\* saves the new one beside it under another name.
Fetch_KeepsOld ==
    /\ \/ /\ At("fetch") /\ Goes("script") /\ Says(1)
          /\ tmp' = [tmp EXCEPT !.archive = IF @ # Nothing THEN @ ELSE Saved]
       \/ /\ OtaFails("fetch")
          /\ tmp' = [tmp EXCEPT !.archive = IF @ # Nothing THEN @ ELSE "part"]
    /\ UNCHANGED <<asked, ka, account, web, p2p, audio, flash, boots, drift, installed>>

(* The old archive is removed and the new one fetched.  If rm cannot       *)
(* remove it wget saves the new one beside it, and the case goes on with   *)
(* another archive than it was asked for.                                  *)
Fetch ==
    /\ \/ /\ At("fetch") /\ Goes("script") /\ Says(1)
          /\ tmp' = [tmp EXCEPT !.archive = Saved]
       \/ /\ At("fetch") /\ tmp.archive # Nothing /\ Says(1) /\ UNCHANGED tmp
          /\ cb' = [cb EXCEPT !.pc = "script", !.arg = Nothing]
       \/ /\ OtaFails("fetch")
          /\ \E left \in {Nothing, "part", tmp.archive} : tmp' = [tmp EXCEPT !.archive = left]
    /\ UNCHANGED <<asked, ka, account, web, p2p, audio, flash, boots, drift, installed>>

(* OTA.sh is written, made executable and started; it kills P2Pambicam.    *)
Script ==
    /\ \/ /\ At("script") /\ Goes("extract") /\ UNCHANGED said
          /\ Killed
       \/ OtaFails("script") /\ UNCHANGED p2p
    /\ UNCHANGED <<asked, ka, account, web, audio, disk, boots, drift, installed>>

(* tar writes over what is in /tmp/AugenTix already, which no step of an   *)
(* earlier attempt that failed has removed.  An archive with another root  *)
(* leaves it as it is; one that lacks a file takes that file from there.   *)
Partly(a) == Tree(tmp.tree.holds \union {a}, Nothing)
Unpacked(a) == IF a \in Rooted THEN {Tree(tmp.tree.holds \union {a}, a)} ELSE {tmp.tree, Partly(a)}

(* set -e ends the script if tar fails, the test if no directory is there. *)
Extract ==
    /\ \/ /\ At("extract") /\ tmp.archive \in Archives
          /\ \E t \in Unpacked(tmp.archive) :
                /\ tmp' = [tmp EXCEPT !.tree = t]
                /\ IF t # NoTree THEN Goes("stage") /\ UNCHANGED said ELSE OtaFails("extract")
       \/ OtaFails("extract") /\ UNCHANGED tmp
       \/ /\ OtaFails("extract") /\ tmp.archive \in Archives
          /\ tmp' = [tmp EXCEPT !.tree = Partly(tmp.archive)]
    /\ UNCHANGED <<asked, ka, account, web, p2p, audio, flash, boots, drift, installed>>

(* The tree takes the place of an older one; certificates are copied.      *)
(* What a failed attempt leaves in /tmp/ambicam is not kept in the model:  *)
(* the next one removes it here before it is looked at.                    *)
Stage ==
    /\ \/ /\ At("stage") /\ Goes("wipe") /\ UNCHANGED said
          /\ tmp' = [tmp EXCEPT !.staged = tmp.tree, !.tree = NoTree]
       \/ OtaFails("stage") /\ UNCHANGED tmp
    /\ UNCHANGED <<asked, ka, account, web, p2p, audio, flash, boots, drift, installed>>

Wipe ==
    /\ \/ /\ At("wipe") /\ Goes("move") /\ UNCHANGED said
          /\ flash' = [prog |-> NoTree, launcher |-> Nothing] /\ UNCHANGED tmp
       \/ /\ OtaFails("wipe") /\ flash' = [flash EXCEPT !.prog = Tree(@.holds, Nothing)]
          /\ tmp' = [tmp EXCEPT !.staged = NoTree]
    /\ UNCHANGED <<asked, ka, account, web, p2p, audio, boots, drift, installed>>

Move ==
    /\ \/ /\ At("move") /\ Goes("launcher") /\ UNCHANGED said
          /\ flash' = [flash EXCEPT !.prog = tmp.staged]
       \/ OtaFails("move") /\ flash' = [flash EXCEPT !.prog = Tree(tmp.staged.holds, Nothing)]
    /\ tmp' = [tmp EXCEPT !.staged = NoTree]
    /\ UNCHANGED <<asked, ka, account, web, p2p, audio, boots, drift, installed>>

(* ambicam.sh is moved out of the new tree, whoever's it is.               *)
Launcher ==
    /\ \/ /\ At("launcher") /\ Goes("reboot") /\ UNCHANGED said
          /\ \E a \in IF flash.prog.whole # Nothing THEN {flash.prog.whole} ELSE flash.prog.holds :
                flash' = [flash EXCEPT !.launcher = a]
       \/ OtaFails("launcher") /\ UNCHANGED flash
    /\ UNCHANGED <<asked, ka, account, web, p2p, audio, tmp, boots, drift, installed>>

(* Both the script and the case ask for a reboot.                          *)
RebootFails ==
    /\ OtaFails("reboot")
    /\ UNCHANGED <<asked, ka, account, web, p2p, audio, disk, boots, drift, installed>>

(* A restart: memory and /tmp are gone, flash and the web account stay.    *)
Boot ==
    /\ boots < MaxBoots
    /\ boots' = boots + 1
    /\ cb' = Idle /\ ka' = [pc |-> "rest", copy |-> Factory]
    /\ cred' = [user |-> Factory.user, pass |-> Factory.pass, basic |-> Factory]
    /\ held' = Nothing
    /\ web' = [web EXCEPT !.moving = FALSE]
    /\ p2p' = NoP2P
    /\ audio' = [fd |-> FALSE, open |-> 0, peer |-> FALSE]
    /\ tmp' = EmptyTmp
    /\ said' = 0 /\ drift' = (Factory.pass # web.account.pass) /\ installed' = {Factory}
    /\ UNCHANGED <<asked, flash>>

-----------------------------------------------------------------------------
Deliver ==
    \E n \in asked :
        \/ \E payload \in Payload(n) : legacy_message_arrived(n, payload)
        \/ PayloadRejected(n)

Requests ==
    \/ get_cam_credentials \/ Performed \/ PerformFails \/ SecondRequest \/ RawRequest
    \/ Stop \/ StopFails \/ SystemInfo \/ Publish \/ Return

AccountSteps ==
    update_password \/ UpdateRefused \/ SyncLock \/ SyncUser \/ SyncPass \/ rebuild_basic_auth

Keepalive == KeepaliveLock \/ KeepaliveUser \/ KeepalivePass \/ KeepalivePerforms

Devices ==
    \/ Status \/ P2P_Kill \/ StartP2P
    \/ AudioConnects \/ AudioConnectFails \/ HandshakeFails \/ AudioSends

Ota == Checks \/ Fetch \/ Script \/ Extract \/ Stage \/ Wipe \/ Move \/ Launcher
       \/ RebootFails

DispatchNext ==
    \/ Deliver \/ Requests \/ AccountSteps \/ Keepalive \/ Devices \/ Ota
    \/ AudioPeerEnds \/ Boot
    \/ \E a \in Accounts : OwnerChanges(a)

DispatchSpec == DispatchInit /\ [][DispatchNext]_dispatchVars

-----------------------------------------------------------------------------
(* Every status and setting request is answered exactly once on its topic, *)
(* whether or not the web server could be reached.                         *)
AnsweredOnce ==
    At("return") /\ cb.n \in Plain \union Unsupported \union {40, 51} => said = 1

(* Whatever account a request carries was in force as a whole:             *)
(* no user name with another user's password (get_cam_credentials,         *)
(* "thread-safe").                                                         *)
CredentialsWhole ==
    /\ ka.pc = "perform" => ka.copy \in installed
    /\ At("perform") => cb.copy \in installed

(* After case 71 the daemon has the camera's password or both have the old *)
(* one, unless the answer got lost or misled is_password_change_success,   *)
(* the new password was empty (update_password refuses it), the owner or   *)
(* the server named another one, or the camera restarted.                  *)
CredentialsFollow ==
    ~drift /\ cb.pc \notin {"update", "rebuild"} => cred.pass = web.account.pass

(* Case 51 moves and stops: if the account the move was sent with is still *)
(* the camera's, a stop that arrives stops it, although it authenticates   *)
(* another way.                                                            *)
MoveStops ==
    [][At("stop") /\ cb'.pc = "publish" /\ cb'.arg # "lost" /\ cb.copy = web.account
       => ~web'.moving]_dispatchVars

(* Case 56 has one socket open if it remembers one and none otherwise, and *)
(* case 0 leaves two P2Pambicam processes only if the last kill, of case 0 *)
(* or of an update, spared one.                                            *)
ResourcesSingle ==
    /\ audio.open = IF audio.fd THEN 1 ELSE 0
    /\ p2p.running > 1 => p2p.spared

(* Case 36 reboots into the archive it was asked for, complete and with    *)
(* its launcher, whatever earlier attempts left in /tmp or in flash, if    *)
(* the archive has the layout the script expects and the old one could be  *)
(* removed.                                                                *)
UpdateIsWhole ==
    At("reboot") /\ cb.arg \in Rooted
        => flash.prog.whole = cb.arg /\ flash.launcher = cb.arg

(* That nothing else is in flash then is more than the script ensures.     *)
UpdateIsPure == At("reboot") => flash.prog.holds = {cb.arg}
=============================================================================
