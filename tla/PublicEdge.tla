------------------------------ MODULE PublicEdge ------------------------------
(* acmeip.PublicManager, the process that owns the public HTTPS listener: it *)
(* has certificates issued and renewed, installs each in a directory of its  *)
(* own, points Nginx to it, and closes the listener when nothing valid is    *)
(* served (acmeip/public.go).                                                *)
(*                                                                           *)
(* The manager is one goroutine; around it Nginx reloads late, or dies,      *)
(* certificates expire, files cannot be written, and the process crashes.    *)
(* A certificate is a number, a generation the directory it is installed in. *)
EXTENDS Naturals

CONSTANTS
    MaxCertificates, \* bound: certificates the CA issues
    MaxGenerations,  \* bound: directories made
    MaxFailures      \* bound: crashes, and writes of the state that fail

ASSUME EdgeAssumption == {MaxCertificates, MaxGenerations, MaxFailures} \subseteq Nat

VARIABLES
    st,        \* m.state: phase, allowed, certificate, generation
    state,     \* status/state.json
    dirs,      \* the installed certificates, by generation, 0 where removed
    conf,      \* the generation nginx.conf names, 0 for ACME only
    nginx,     \* the process: running, the certificate it has loaded, 0 for
               \* ACME only, and a reload it was asked for and has not done
    handle,    \* m.process # nil
    place,     \* where the manager is; "select" in the loop of Run
    looping,   \* Run is past the first Bootstrap
    before,    \* publish: the state and the configuration to go back to
    lineage,   \* the certificate in Certbot's directory
    expired,   \* certificates up to this one have expired
    generations,  \* directories made
    failed     \* stops: crashes of either process; writes: of the state, failed

control == <<place, looping>>
around  == <<lineage, expired, generations>>
edgeVars == <<st, state, dirs, conf, nginx, handle, control, before, around, failed>>

None   == 0
Fresh  == [phase |-> "acme_only", allowed |-> FALSE, cert |-> None, gen |-> None]
Off    == [up |-> FALSE, loaded |-> None, reload |-> FALSE]
NoBack == [st |-> Fresh, conf |-> None]

EdgeInit ==
    /\ st = Fresh /\ state = Fresh
    /\ dirs = [g \in 1 .. MaxGenerations |-> None]
    /\ conf = None /\ nginx = Off /\ handle = FALSE
    /\ place = "boot" /\ looping = FALSE /\ before = NoBack
    /\ lineage = None /\ expired = 0 /\ generations = 0
    /\ failed = [stops |-> 0, writes |-> 0]

\* The state, with another phase.
Says(s, phase, allowed) ==
    [phase |-> phase, allowed |-> allowed, cert |-> s.cert, gen |-> s.gen]

Valid(c)  == c > expired
CertOf(g) == IF g = None THEN None ELSE dirs[g]
\* Snapshot: what has expired is not allowed.
Masked(s) == [s EXCEPT !.allowed = s.allowed /\ Valid(s.cert)]

Spent      == failed.stops + failed.writes
Stopping   == Spent < MaxFailures /\ failed' = [failed EXCEPT !.stops = @ + 1]
BadWriting == Spent < MaxFailures /\ failed' = [failed EXCEPT !.writes = @ + 1]

-----------------------------------------------------------------------------
(* What the operations are made of.                                          *)

(* writeAtomic of the state: done; or reported as failed, before the rename  *)
(* or after it.                                                              *)
Written(s)    == state' = Masked(s) /\ UNCHANGED failed
WriteFails(s) == state' \in {state, Masked(s)} /\ BadWriting
Save(s)       == st' = s /\ (Written(s) \/ WriteFails(s))

(* fail: what is served stays allowed if it was and the process is there.    *)
Failed(s, alive) ==
    LET keep == Masked(s).allowed /\ alive
    IN  IF keep THEN Says(s, s.phase, TRUE)
        ELSE Says(s, IF s.cert # None /\ ~Valid(s.cert) THEN "expired" ELSE "failed",
                  FALSE)
Fail(s, alive) == Save(Failed(s, alive)) /\ handle' = alive

GoTo(p) == place' = p /\ UNCHANGED looping
(* Back in Run's loop; or out of it, if the first Bootstrap leaves no process. *)
Return(alive) == LET stays == alive \/ looping
                 IN  place' = (IF stays THEN "select" ELSE "down") /\ looping' = stays

Killed     == nginx' = Off
AsksReload == nginx' = [nginx EXCEPT !.reload = nginx.reload \/ nginx.up]

(* tlsProbe: a handshake, verified, that presents the certificate.  Any      *)
(* probe may also time out.                                                  *)
Presents(c) == nginx.up /\ nginx.loaded = c /\ Valid(c)

(* ensureChallenge: ACME only, by a start or a reload; or the configuration  *)
(* is not accepted, or the command fails, its signal sent or not.            *)
Starts(g) == nginx' = [up |-> TRUE, loaded |-> CertOf(g), reload |-> FALSE]
Closes == /\ handle => nginx.up
          /\ conf' = None /\ IF handle THEN AsksReload ELSE Starts(None)
CloseFails == \/ conf' \in {conf, None} /\ UNCHANGED nginx
              \/ conf' = None /\ handle /\ AsksReload
\* ... after which Bootstrap and CheckCurrent kill the process.
CloseOrKill(alive) == \/ Closes /\ alive = TRUE
                      \/ conf' \in {conf, None} /\ Killed /\ alive = FALSE

-----------------------------------------------------------------------------
(* Bootstrap.                                                                *)

Restorable == st.gen # None /\ CertOf(st.gen) # None /\ Valid(CertOf(st.gen))

(* The saved certificate: written to the configuration, tested, and Nginx    *)
(* started unless there is a process.                                        *)
Restore ==
    /\ place = "boot" /\ Restorable
    /\ \/ /\ conf' = st.gen /\ handle' = TRUE /\ GoTo("probe")
          /\ IF handle THEN UNCHANGED nginx ELSE Starts(st.gen)
          /\ UNCHANGED <<st, state, failed>>
       \/ /\ conf' \in {conf, st.gen} /\ UNCHANGED nginx
          /\ Fail(st, handle) /\ Return(handle)
    /\ UNCHANGED <<dirs, before, around>>

Restored ==
    /\ place = "probe" /\ Presents(CertOf(st.gen))
    /\ Save([phase |-> "live_https", allowed |-> TRUE, cert |-> CertOf(st.gen), gen |-> st.gen])
    /\ Return(TRUE)
    /\ UNCHANGED <<dirs, conf, nginx, handle, before, around>>

NotRestored ==
    /\ place = "probe"
    /\ \E alive \in BOOLEAN :
          /\ CloseOrKill(alive) /\ Return(alive)
          /\ Fail(IF alive THEN Says(st, "acme_only", FALSE) ELSE st, alive)
    /\ UNCHANGED <<dirs, before, around>>

(* Nothing to restore: only the challenge is served until a certificate is   *)
(* there.  It may not be answered.                                           *)
Challenge ==
    LET acme == Says(st, "acme_only", FALSE) IN
    /\ place = "boot" /\ ~Restorable
    /\ \/ /\ Closes /\ handle' = TRUE
          /\ st' = Says(st, "issuing", FALSE) /\ Written(st') /\ GoTo("issue")
       \/ Closes /\ Fail(acme, TRUE) /\ Return(TRUE)
       \/ CloseFails /\ Fail(st, handle) /\ Return(handle)
    /\ UNCHANGED <<dirs, before, around>>

(* A run of Certbot leaves the certificate there is or a new one.  It has to *)
(* be valid for a day.                                                       *)
Certbot(c) == c \in {lineage, lineage + 1} /\ c \in 1 .. MaxCertificates /\ lineage' = c
Installable == generations < MaxGenerations

Issue ==
    /\ place = "issue"
    /\ \/ /\ \E c \in 1 .. MaxCertificates : Certbot(c) /\ Valid(c)
          /\ Installable
          /\ st' = [st EXCEPT !.phase = "validating"] /\ Written(st') /\ GoTo("publish")
          /\ UNCHANGED handle
       \/ /\ \E c \in {lineage} \cup 1 .. MaxCertificates : lineage' = lineage \/ Certbot(c)
          /\ Fail(st, handle) /\ Return(handle)
    /\ UNCHANGED <<dirs, conf, nginx, before, expired, generations>>

-----------------------------------------------------------------------------
(* RenewOnce.  The run of Certbot is cancelled when the certificate expires. *)

Renew ==
    /\ place = "select"
    /\ IF Masked(st).allowed
       THEN \/ GoTo("renew") /\ Written(st)
            \/ UNCHANGED control /\ WriteFails(st)
       ELSE GoTo("boot") /\ UNCHANGED <<state, failed>>
    /\ UNCHANGED <<st, dirs, conf, nginx, handle, before, around>>

RenewReturns ==
    /\ place = "renew"
    /\ \/ \E c \in 1 .. MaxCertificates :
             /\ Valid(st.cert) /\ Certbot(c) /\ Valid(c)
             /\ IF c = st.cert
                THEN Save(st) /\ GoTo("select")
                ELSE Installable /\ GoTo("publish") /\ UNCHANGED <<st, state, failed>>
             /\ UNCHANGED handle
       \/ /\ \E c \in {lineage} \cup 1 .. MaxCertificates : lineage' = lineage \/ Certbot(c)
          /\ Fail(st, handle) /\ GoTo("select")
    /\ UNCHANGED <<dirs, conf, nginx, before, expired, generations>>

-----------------------------------------------------------------------------
(* publish.                                                                  *)

(* The files and the configuration that names them; when anything fails the  *)
(* directory is removed, also if the configuration was replaced.             *)
Install ==
    /\ place = "publish" /\ generations' = generations + 1
    /\ \/ /\ dirs' = [dirs EXCEPT ![generations + 1] = lineage]
          /\ before' = [st |-> Masked(st), conf |-> conf]
          /\ conf' = generations + 1 /\ GoTo("reload")
          /\ UNCHANGED <<st, state, handle, failed>>
       \/ /\ conf' \in {conf, generations + 1}
          /\ Fail(st, handle) /\ Return(handle) /\ UNCHANGED <<dirs, before>>
    /\ UNCHANGED <<nginx, lineage, expired>>

Reload ==
    /\ place = "reload" /\ nginx.up /\ AsksReload /\ GoTo("confirm")
    /\ UNCHANGED <<st, state, dirs, conf, handle, before, around, failed>>

(* The command fails: its signal may have arrived all the same.  The old     *)
(* configuration is written back, and stays only if the old certificate is   *)
(* presented.                                                                *)
ReloadFails ==
    /\ place = "reload" /\ (AsksReload \/ UNCHANGED nginx)
    /\ \/ conf' = before.conf /\ GoTo(IF before.st.allowed THEN "keep" ELSE "rollback")
       \/ UNCHANGED conf /\ GoTo("rollback")
    /\ UNCHANGED <<st, state, dirs, handle, before, around, failed>>

\* publish gives up: the directory goes, and the state says why.
GivesUp(alive) ==
    /\ dirs' = [dirs EXCEPT ![generations] = None]
    /\ Fail(before.st, alive) /\ Return(alive) /\ before' = NoBack

(* Mutant: a failed reload is taken to have left the old certificate.        *)
KeptUnproved ==
    /\ place = "keep" /\ GivesUp(handle) /\ UNCHANGED <<conf, nginx, around>>
Kept ==
    /\ place = "keep"
    /\ \/ Presents(before.st.cert) /\ GivesUp(handle)
       \/ GoTo("rollback") /\ UNCHANGED <<st, state, dirs, handle, before, failed>>
    /\ UNCHANGED <<conf, nginx, around>>
RollBack ==
    /\ place = "rollback"
    /\ \/ /\ conf' = before.conf /\ nginx.up /\ AsksReload /\ GoTo("back")
          /\ UNCHANGED <<st, state, dirs, handle, before, failed>>
       \/ conf' \in {conf, before.conf} /\ Killed /\ GivesUp(FALSE)
    /\ UNCHANGED around

RolledBack ==
    /\ place = "back"
    /\ \/ /\ before.st.allowed => Presents(before.st.cert)
          /\ GivesUp(handle) /\ UNCHANGED nginx
       \/ before.st.allowed /\ Killed /\ GivesUp(FALSE)
    /\ UNCHANGED <<conf, around>>

(* The new certificate is presented; then the state is written.              *)
Confirm ==
    /\ place = "confirm"
    /\ \/ /\ Presents(CertOf(generations))
          /\ LET s == [phase |-> "live_https", allowed |-> TRUE, cert |-> CertOf(generations),
                    gen |-> generations]
             IN  \/ Written(s) /\ st' = s /\ GoTo("retire")
                 \/ WriteFails(s) /\ UNCHANGED st /\ GoTo("rollback")
       \/ GoTo("rollback") /\ UNCHANGED <<st, state, failed>>
    /\ UNCHANGED <<dirs, conf, nginx, handle, before, around>>

Retire ==
    /\ place = "retire" /\ Return(TRUE) /\ before' = NoBack
    /\ dirs' = IF before.st.gen = None THEN dirs ELSE [dirs EXCEPT ![before.st.gen] = None]
    /\ UNCHANGED <<st, state, conf, nginx, handle, around, failed>>

-----------------------------------------------------------------------------
(* Mutant: a state that says expired is taken to be closed.                  *)
CheckExpiredOnce ==
    /\ place = "select" /\ st.cert # None /\ ~Valid(st.cert) /\ st.phase # "expired"
    /\ CloseOrKill(handle')
    /\ Save(Says(st, "expired", FALSE))
    /\ UNCHANGED <<dirs, control, before, around>>

(* CheckCurrent: of the hourly ticker, or of the timer that Run sets for the *)
(* expiry while the phase is live_https.                                     *)
CheckExpired ==
    /\ place = "select" /\ st.cert # None /\ ~Valid(st.cert)
    /\ CloseOrKill(handle')
    /\ Save(Says(st, "expired", FALSE))
    /\ UNCHANGED <<dirs, control, before, around>>
\* The process has ended, by itself or killed: Run returns.
ProcessDone ==
    /\ place = "select" /\ ~nginx.up
    /\ Fail(st, FALSE) /\ place' = "down" /\ looping' = FALSE
    /\ UNCHANGED <<dirs, conf, nginx, before, around>>

-----------------------------------------------------------------------------
(* Around the manager.                                                       *)

(* Nginx reads its configuration when it handles the signal, and keeps the   *)
(* one it has if that names files which are not there.                       *)
WillLoad == IF conf = None \/ CertOf(conf) # None THEN CertOf(conf) ELSE nginx.loaded
NginxReloads ==
    /\ nginx.reload /\ nginx' = [up |-> nginx.up, loaded |-> WillLoad, reload |-> FALSE]
    /\ UNCHANGED <<st, state, dirs, conf, handle, control, before, around, failed>>

NginxDies ==
    /\ nginx.up /\ Stopping /\ Killed
    /\ UNCHANGED <<st, state, dirs, conf, handle, control, before, around>>

CertExpires ==
    /\ expired < lineage /\ expired' = expired + 1
    /\ UNCHANGED <<st, state, dirs, conf, nginx, handle, control, before, lineage,
                   generations, failed>>

\* The container stops, with both processes, and is started again.
EdgeStops == /\ place # "down" /\ Stopping /\ Killed
         /\ handle' = FALSE /\ place' = "down" /\ looping' = FALSE /\ before' = NoBack
         /\ UNCHANGED <<st, state, dirs, conf, around>>
EdgeStarts ==
    /\ place = "down" /\ GoTo("boot")
    /\ st' = [state EXCEPT !.allowed = FALSE] /\ handle' = FALSE /\ nginx' = Off
    /\ UNCHANGED <<state, dirs, conf, before, around, failed>>

Manage == \/ Restore \/ Restored \/ NotRestored \/ Challenge \/ Issue
          \/ RenewReturns \/ Install \/ Reload \/ ReloadFails \/ Kept
          \/ RollBack \/ RolledBack \/ Confirm \/ Retire \/ ProcessDone

EdgeNext == \/ Manage \/ Renew \/ CheckExpired
        \/ NginxReloads \/ NginxDies \/ CertExpires \/ EdgeStops \/ EdgeStarts

(* The manager's calls have deadlines; a tick stays in its channel while     *)
(* select takes others, and select takes one at random.                      *)
EdgeFairness == /\ WF_edgeVars(Manage) /\ SF_edgeVars(CheckExpired)
            /\ WF_edgeVars(NginxReloads) /\ WF_edgeVars(EdgeStarts)
EdgeSpec == EdgeInit /\ [][EdgeNext]_edgeVars /\ EdgeFairness

-----------------------------------------------------------------------------
EdgeTypeOK ==
    /\ dirs \in [1 .. MaxGenerations -> 0 .. MaxCertificates]
    /\ conf \in 0 .. MaxGenerations /\ nginx.loaded \in 0 .. MaxCertificates
    /\ handle \in BOOLEAN /\ looping \in BOOLEAN /\ expired <= lineage

Serving == nginx.up /\ nginx.loaded # None

(* While the state says that business is allowed, Nginx presents the very    *)
(* certificate the state names, or it has died and Run is about to see it;   *)
(* a reload that is still to come changes nothing.  Through every failure of *)
(* a publication ("Prove that before claiming keep-old; otherwise reload the *)
(* old config or close", public.go:361-362).                                 *)
AllowedIsServed ==
    (place \in {"select", "renew"} /\ Masked(st).allowed /\ nginx.up) =>
        /\ Presents(st.cert)
        /\ nginx.reload => WillLoad = st.cert

(* The key the state on disk names is there, unless a write of the state was *)
(* reported as failed: a superseded one is removed only when both Nginx and  *)
(* the state name the other (public.go:405-406).                             *)
NamedKeyIsThere ==
    (failed.writes = 0 /\ state.gen # None) => CertOf(state.gen) = state.cert

EdgeIsHonest == AllowedIsServed /\ NamedKeyIsThere

(* A listener whose certificate has expired is closed, though every command  *)
(* that would close it fails.  Of a certificate the state does not name, left *)
(* by a first publication that failed, nobody knows the expiry.              *)
ServesExpired == Serving /\ ~Valid(nginx.loaded)
LeftOpen == ServesExpired /\ nginx.loaded = st.cert
ExpiredCloses == LeftOpen ~> ~ServesExpired

(* Run's loop waits with a timer for the expiry of what Nginx serves.        *)
ListenerIsTimed == (place = "select" /\ Serving /\ ~nginx.reload) => st.phase = "live_https"
=============================================================================
