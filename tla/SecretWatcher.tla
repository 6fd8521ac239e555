---------------------------- MODULE SecretWatcher ----------------------------
(***************************************************************************)
(* The Secret Watcher (src/controllers/graylog/utils/watch-secret.go) and *)
(* the part of GraylogReconciler.Run that shares the Graylog config map    *)
(* with it (src/controllers/graylog/reconciler.go, handler.go).            *)
(*                                                                         *)
(* Every Run that gets past configureGraylog starts one more watcher       *)
(* goroutine (watchSecret); none is ever stopped.  A watcher holds the CR  *)
(* copy of the cycle that started it, whose User and Password it compares *)
(* with each Modified event of the Graylog secret; a changed value is      *)
(* written into that copy, then the config map is read (Get) and written   *)
(* back (Update) with the line of that key rewritten.  The Update carries  *)
(* the resourceVersion of the Get, so it fails on a conflict; the          *)
(* reconciler's own Update of the rendered config map (handleConfigMap)    *)
(* carries none and overwrites unconditionally.                            *)
(*                                                                         *)
(* The config map is abstracted to its two credential lines and its        *)
(* resourceVersion; the other lines are never changed by either writer.    *)
(***************************************************************************)
EXTENDS Naturals, Sequences

CONSTANTS
    Users, Passwords,  \* values the secret's "user" and "password" may hold
    MaxCycles,         \* model bound on reconcile cycles
    MaxRotations,      \* model bound on changes of the secret
    MaxFailures,       \* model bound on failed API calls
    MaxExits           \* model bound on watch channels that end

Creds == [user : Users, password : Passwords]

\* The root_password_sha2 line holds the hex SHA-256 of the password, not
\* the password: a string distinct from every password, one per password.
PasswordLine(p) == "sha256:" \o p

\* The two lines of graylog.conf that hold the credentials.
Lines == [user : Users, password : {PasswordLine(p) : p \in Passwords}]
Render(c) == [user |-> c.user, password |-> PasswordLine(c.password)]

\* Mutant: the password is written without hashing it.
LineUnhashed(f, v) == v

\* Line(f, v): the line of key f written for the value v of the CR field.
Line(f, v) == IF f = "password" THEN PasswordLine(v) ELSE v

\* A watcher: waiting for an event, handling the user or the password of
\* the event `ev` (stage "check" reads the config map, "update" writes it
\* back), or gone: its channel ended, or it never got one (blocked for
\* ever on a nil channel).
WatcherStates == {"wait", "user", "password", "exited", "stuck"}

VARIABLES
    secret,    \* the Graylog secret
    cm,        \* the config map: its credential lines and resourceVersion
    rc,        \* step of GraylogReconciler.Run: "idle", "read", "rendered"
    rcCreds,   \* credentials setCredentials read in this cycle
    queued,    \* a reconcile request waits in the work queue
    w,         \* the watchers, in the order their cycles started them
    cycles, rotations, failures, exits

vars == <<secret, cm, rc, rcCreds, queued, w, cycles, rotations, failures,
          exits>>

Watcher == [known : Creds, inbox : Seq(Creds), pc : WatcherStates,
            stage : {"check", "update"}, ev : Creds,
            seen : [lines : Lines, rv : Nat]]

TypeOK ==
    /\ secret \in Creds
    /\ cm \in [lines : Lines, rv : Nat]
    /\ rc \in {"idle", "read", "rendered"} /\ rcCreds \in Creds
    /\ queued \in BOOLEAN
    /\ w \in Seq(Watcher) /\ Len(w) <= MaxCycles
    /\ cycles \in 0..MaxCycles /\ rotations \in 0..MaxRotations
    /\ failures \in 0..MaxFailures /\ exits \in 0..MaxExits

\* Graylog installed by an earlier cycle; a reconcile is queued.
Init ==
    /\ secret \in Creds
    /\ cm = [lines |-> Render(secret), rv |-> 1]
    /\ rc = "idle" /\ rcCreds = secret
    /\ queued = TRUE /\ w = <<>>
    /\ cycles = 0 /\ rotations = 0 /\ failures = 0 /\ exits = 0

Open(i) == w[i].pc \notin {"exited", "stuck"}

-----------------------------------------------------------------------------
(* The reconciler *)

\* handleConfigMap starts with setCredentials: the secret's user and
\* password are copied into the CR fetched for this cycle.
ReadSecret ==
    /\ rc = "idle" /\ queued /\ cycles < MaxCycles
    /\ rc' = "read" /\ rcCreds' = secret
    /\ queued' = FALSE /\ cycles' = cycles + 1
    /\ UNCHANGED <<secret, cm, w, rotations, failures, exits>>

\* The rendered config map is created, or on AlreadyExists updated with no
\* resourceVersion: it replaces whatever the config map holds.  An error
\* ends Run, and the failed cycle is requeued.
RenderConfigMap ==
    /\ rc = "read"
    /\ \/ /\ cm' = [lines |-> Render(rcCreds), rv |-> cm.rv + 1]
          /\ rc' = "rendered" /\ UNCHANGED <<queued, failures>>
       \/ /\ failures < MaxFailures /\ failures' = failures + 1
          /\ rc' = "idle" /\ queued' = TRUE /\ UNCHANGED cm
    /\ UNCHANGED <<secret, rcCreds, w, cycles, rotations, exits>>

\* The rest of Run (statefulset, service, configureGraylog) fails and the
\* cycle is requeued, or succeeds and watchSecret starts a watcher with this
\* cycle's CR; if prepareWatchChannel fails, the error is only logged and
\* the watcher receives from a nil channel.
FinishRun ==
    /\ rc = "rendered" /\ rc' = "idle"
    /\ \/ /\ failures < MaxFailures /\ failures' = failures + 1
          /\ queued' = TRUE /\ UNCHANGED w
       \/ /\ \E chanFailed \in IF failures < MaxFailures THEN BOOLEAN
                                ELSE {FALSE} :
                /\ w' = Append(w, [known |-> rcCreds, inbox |-> <<>>,
                                   pc |-> IF chanFailed THEN "stuck" ELSE "wait",
                                   stage |-> "check", ev |-> rcCreds,
                                   seen |-> cm])
                /\ failures' = IF chanFailed THEN failures + 1 ELSE failures
          /\ UNCHANGED queued
    /\ UNCHANGED <<secret, cm, rcCreds, cycles, rotations, exits>>

\* A change of the CR's generation queues a reconcile.
EditCR ==
    /\ ~queued /\ cycles < MaxCycles
    /\ queued' = TRUE
    /\ UNCHANGED <<secret, cm, rc, rcCreds, w, cycles, rotations, failures,
                   exits>>
-----------------------------------------------------------------------------
(* A watcher: the loop of Watch and updateUser / updatePassword *)

\* The next key after one is handled, whether it succeeded or not: Watch
\* only logs the error of updateUser and goes on with updatePassword.
Advance(i) ==
    IF w[i].pc = "user"
    THEN [w[i] EXCEPT !.pc = "password", !.stage = "check"]
    ELSE [w[i] EXCEPT !.pc = "wait", !.stage = "check"]

\* A Modified event of the Graylog secret is received.
Receive(i) ==
    /\ w[i].pc = "wait" /\ w[i].inbox # <<>>
    /\ w' = [w EXCEPT ![i].ev = Head(w[i].inbox), ![i].inbox = Tail(@),
                      ![i].pc = "user", ![i].stage = "check"]
    /\ UNCHANGED <<secret, cm, rc, rcCreds, queued, cycles, rotations,
                   failures, exits>>

\* The value is compared with the watcher's CR; a changed one is written
\* into the CR first, and then the config map is read.  If the Get fails
\* the error is returned, the CR keeps the new value.
Compare(i) ==
    /\ w[i].pc \in {"user", "password"} /\ w[i].stage = "check"
    /\ LET f == w[i].pc IN
       \/ /\ w[i].ev[f] = w[i].known[f]            \* "did not change"
          /\ w' = [w EXCEPT ![i] = Advance(i)]
          /\ UNCHANGED failures
       \/ /\ w[i].ev[f] # w[i].known[f]
          /\ w' = [w EXCEPT ![i].known[f] = w[i].ev[f],
                            ![i].seen = cm, ![i].stage = "update"]
          /\ UNCHANGED failures
       \/ /\ w[i].ev[f] # w[i].known[f]            \* Get fails
          /\ failures < MaxFailures /\ failures' = failures + 1
          /\ w' = [w EXCEPT ![i] = [Advance(i) EXCEPT !.known[f] = w[i].ev[f]]]
    /\ UNCHANGED <<secret, cm, rc, rcCreds, queued, cycles, rotations, exits>>

\* Mutant: the Update carries no resourceVersion, like handleConfigMap's.
UpdateIgnoringVersion(i) ==
    /\ w[i].pc \in {"user", "password"} /\ w[i].stage = "update"
    /\ LET f == w[i].pc IN
          cm' = [lines |-> [w[i].seen.lines EXCEPT ![f] = Line(f, w[i].known[f])],
                 rv |-> cm.rv + 1]
    /\ w' = [w EXCEPT ![i] = Advance(i)]
    /\ UNCHANGED <<secret, rc, rcCreds, queued, cycles, rotations, failures,
                   exits>>

\* Every line of the config map read is written back, the line of the key
\* rewritten with the CR's value; the Update is refused if the config map
\* changed since the Get, or fails; the error is only logged.
Update(i) ==
    /\ w[i].pc \in {"user", "password"} /\ w[i].stage = "update"
    /\ LET f == w[i].pc IN
       \/ /\ cm.rv = w[i].seen.rv
          /\ cm' = [lines |-> [w[i].seen.lines EXCEPT ![f] =
                                  Line(f, w[i].known[f])],
                    rv |-> cm.rv + 1]
          /\ UNCHANGED failures
       \/ /\ cm.rv # w[i].seen.rv                   \* conflict
          /\ UNCHANGED <<cm, failures>>
       \/ /\ failures < MaxFailures /\ failures' = failures + 1
          /\ UNCHANGED cm
    /\ w' = [w EXCEPT ![i] = Advance(i)]
    /\ UNCHANGED <<secret, rc, rcCreds, queued, cycles, rotations, exits>>

-----------------------------------------------------------------------------
(* The environment *)

\* The user changes the secret; every open watch channel gets the event.
Rotate ==
    /\ rotations < MaxRotations
    /\ \E c \in Creds \ {secret} :
          /\ secret' = c
          /\ w' = [i \in DOMAIN w |->
                     IF Open(i) THEN [w[i] EXCEPT !.inbox = Append(@, c)]
                     ELSE w[i]]
    /\ rotations' = rotations + 1
    /\ UNCHANGED <<cm, rc, rcCreds, queued, cycles, failures, exits>>

\* The watch channel is closed by the API server, or delivers an event
\* that is not a Secret (an error status) or is for another secret with
\* the label: Watch breaks out of its loop and the goroutine ends.
Exit(i) ==
    /\ w[i].pc = "wait" /\ exits < MaxExits
    /\ w' = [w EXCEPT ![i].pc = "exited", ![i].inbox = <<>>]
    /\ exits' = exits + 1
    /\ UNCHANGED <<secret, cm, rc, rcCreds, queued, cycles, rotations,
                   failures>>

Next ==
    \/ ReadSecret \/ RenderConfigMap \/ FinishRun \/ EditCR \/ Rotate
    \/ \E i \in DOMAIN w : Receive(i)
    \/ \E i \in DOMAIN w : Compare(i)
    \/ \E i \in DOMAIN w : Update(i)
    \/ \E i \in DOMAIN w : Exit(i)

Spec == Init /\ [][Next]_vars

-----------------------------------------------------------------------------
(* Properties *)

\* Every Update of a watcher is based on the config map it read: a step of
\* a watcher changes at most one credential line of the current config
\* map, never reverting the other line to what it was at its Get (another
\* watcher or the reconciler may have written it in between).
WatcherWritesOnlyItsLine ==
    [][rc' = rc =>
         \E f \in {"user", "password"} :
             \A g \in {"user", "password"} \ {f} :
                 cm'.lines[g] = cm.lines[g]]_vars

\* Once everything has settled (no cycle running or queued, every open
\* watcher idle with no event left) and some watcher is still open, the
\* config map holds the secret's credentials (specification 4.6: a rotated
\* password is patched into the live configuration).
ConfigFollowsSecret ==
    (/\ rc = "idle" /\ ~queued
     /\ \A i \in DOMAIN w : Open(i) => w[i].pc = "wait" /\ w[i].inbox = <<>>
     /\ \E i \in DOMAIN w : Open(i))
    => cm.lines = Render(secret)
====
