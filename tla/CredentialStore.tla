--------------------------- MODULE CredentialStore ---------------------------
(***************************************************************************)
(* The credential files of the desktop app and the tray actions on them    *)
(* (desktop/app.go with internal/vault, ccdir, settings): the credential   *)
(* the CLI is logged in with, the exported key, the record of the active   *)
(* account, and the vault's copies.  Each action is a sequence of file     *)
(* operations, any of which may fail, and the app may die between two of   *)
(* them or in the middle of a write.  Every click on the menu runs in a    *)
(* goroutine of its own, as does a confirmed deletion; no lock orders      *)
(* them.  The CLI logs in whenever it likes, and the gateway looks for the *)
(* key of a request in two files, one after the other.                     *)
(***************************************************************************)
EXTENDS Naturals, Sequences

CONSTANTS
    Accounts,    \* sanitized user ids
    Keys,        \* the keys an account may get, one login after the other
    Clicks,      \* the goroutines of the clicks that may be under way at a time
    MaxActions, MaxLogins, MaxMishaps   \* bounds; a mishap is a failure or a crash

ASSUME ClicksAssumption == "dialog" \notin Clicks

\* A credential is of an account and holds a key.
Creds == Accounts \X Keys
AccountOf(c) == c[1]

\* The CLI's auth.json, the vault's active.json, the exported active.key, and the
\* directory, auth.json and meta.json that the vault keeps per account.
AuthJSON == <<"auth.json", "cli">>
ActiveJSON == <<"active.json", "vault">>
KeyFile == <<"active.key", "app">>
Dir(id) == <<"dir", id>>
Saved(id) == <<"saved", id>>
Meta(id) == <<"meta", id>>
PerAccount == {"dir", "saved", "meta"} \X Accounts
Files == {AuthJSON, ActiveJSON, KeyFile} \cup PerAccount

\* What a file may hold besides a credential, or an account in active.json.
None == <<>>
Torn == <<"torn">>
Mixed == <<"mixed">>
Made == <<"directory">>

VARIABLES
    file,      \* what each file holds; Torn is a file truncated or half written, Mixed
               \* what two writes at the same time have left
    pc,        \* per goroutine: "idle", "writing", "checking", "refused", "removing"
    action,    \* what the goroutine does, and to which account
    todo,      \* the file operations left: what to write where
    handle,    \* per click, the file of the first of them: "none", "open" (truncated, to
               \* be written), "gone" (deleted since)
    request,   \* a request at the gateway: "arrived", "fallback" (no auth.json), "answered"
               \* with a key; and as history whether it is safe: the CLI was logged in
               \* when it came and is not logged out, and what was installed since
    settled,   \* history: the last SwitchTo or Deactivate that succeeded with no other,
               \* and no login, meanwhile, as long as nothing has happened since
    throughout,\* history: how the account to delete was in use all the time
    hurt,      \* history: an action failed, the app died, or an account was saved twice
               \* at a time with different credentials
    used       \* what the bounds count

goroutine == <<pc, action, todo, handle>>
vars == <<file, goroutine, request, settled, throughout, hurt, used>>

Goroutines == Clicks \cup {"dialog"}
NoAction == [name |-> "none", account |-> "none"]
Disturbed == [name |-> "disturbed", account |-> "none"]
NoRequest == [at |-> "none", key |-> None, safe |-> FALSE, installed |-> {}]

Init ==
    /\ file = [f \in Files |-> None]
    /\ pc = [g \in Goroutines |-> "idle"] /\ action = [g \in Goroutines |-> NoAction]
    /\ todo = [g \in Goroutines |-> <<>>] /\ handle = [g \in Clicks |-> "none"]
    /\ request = NoRequest /\ settled = NoAction /\ throughout = {} /\ hurt = FALSE
    /\ used = [actions |-> 0, logins |-> 0, mishaps |-> 0]

\* How an account is in use, given the files fs: installed for the CLI, recorded.
InUse(fs, id) ==
    {ground \in {AuthJSON, ActiveJSON} :
        IF ground = AuthJSON THEN fs[ground] \in Creds /\ AccountOf(fs[ground]) = id
                             ELSE fs[ground] = <<id>>}

\* The open files among the handles h, of which those deleted in fs are gone.
Handles(fs, h) ==
    [g \in Clicks |->
        IF h[g] = "open" /\ fs[Head(todo[g]).file] = None THEN "gone" ELSE h[g]]

\* The files become fs, and the handles h: of how the account to delete was in use, the
\* rest remains, and a safe request may be answered with what is installed now, too.
Becomes(fs, h) ==
    /\ file' = fs
    /\ handle' = Handles(fs, h)
    /\ throughout' = throughout \cap InUse(fs, action["dialog"].account)
    /\ request' = IF request.at = "arrived" /\ request.safe
                  THEN [request EXCEPT !.installed = @ \cup ({fs[AuthJSON]} \cap Creds)]
                  ELSE request

-----------------------------------------------------------------------------
(* File operations *)

Whole(f, content) == [file |-> f, content |-> content, atomic |-> TRUE]
Write(f, content) == [file |-> f, content |-> content, atomic |-> FALSE]
Remove(f) == Whole(f, None)

\* A click that changes the credential in use.
Changing(g) == pc[g] = "writing" /\ action[g].name \in {"switch", "deactivate"}

Idle(g) ==
    /\ pc' = [pc EXCEPT ![g] = "idle"] /\ action' = [action EXCEPT ![g] = NoAction]
    /\ todo' = [todo EXCEPT ![g] = <<>>]

Succeeds(g) ==
    /\ Idle(g)
    /\ settled' = IF Changing(g) /\ settled # Disturbed THEN action[g] ELSE settled
    /\ UNCHANGED hurt

Fails(g) == Idle(g) /\ hurt' = TRUE /\ UNCHANGED settled

CanReach(f) == f \in PerAccount /\ f[1] # "dir" => file[Dir(f[2])] # None

\* os.WriteFile truncates the file before it writes.
Truncate(g) ==
    /\ pc[g] = "writing" /\ handle[g] = "none"
    /\ LET op == Head(todo[g]) IN
        /\ ~op.atomic /\ CanReach(op.file)
        /\ Becomes([file EXCEPT ![op.file] = Torn], [handle EXCEPT ![g] = "open"])
    /\ UNCHANGED <<pc, action, todo, settled, hurt, used>>

Advance(g) ==
    IF Len(todo[g]) = 1 THEN Succeeds(g)
    ELSE todo' = [todo EXCEPT ![g] = Tail(@)] /\ UNCHANGED <<pc, action, settled, hurt>>

\* What the file may hold after the operation: a file that was deleted while it was
\* open is gone, and one that somebody else has written meanwhile may be a mixture.
Written(g) ==
    LET op == Head(todo[g]) IN
    IF handle[g] = "gone" THEN {file[op.file]}
    ELSE IF op.atomic \/ file[op.file] \in {Torn, op.content} THEN {op.content}
    ELSE {op.content, Mixed}

Operate(g) ==
    /\ pc[g] = "writing" /\ (Head(todo[g]).atomic \/ handle[g] # "none")
    /\ \E content \in Written(g) :
        Becomes([file EXCEPT ![Head(todo[g]).file] = content], [handle EXCEPT ![g] = "none"])
    /\ Advance(g)
    /\ UNCHANGED used

\* An operation fails, which ends the action; but Deactivate ignores all failures
\* except the first removal's.
OperateFails(g) ==
    /\ pc[g] = "writing"
    /\ LET op == Head(todo[g])
           ignored == action[g].name = "deactivate" /\ op.file # AuthJSON
       IN /\ used.mishaps < MaxMishaps \/ ~CanReach(op.file)
          /\ IF ignored THEN Advance(g) ELSE Fails(g)
    /\ used' = [used EXCEPT !.mishaps = IF @ < MaxMishaps THEN @ + 1 ELSE @]
    /\ handle' = [handle EXCEPT ![g] = "none"]
    /\ UNCHANGED <<file, request, throughout>>

-----------------------------------------------------------------------------
(* The actions of the tray *)

Begins(g, name, id) ==
    /\ pc[g] = "idle" /\ used.actions < MaxActions
    /\ used' = [used EXCEPT !.actions = @ + 1]
    /\ action' = [action EXCEPT ![g] = [name |-> name, account |-> id]]
    /\ settled' = IF name \notin {"switch", "deactivate"} THEN settled
                  ELSE IF \E h \in Clicks : Changing(h) THEN Disturbed ELSE NoAction

Plans(g, ops) ==
    /\ pc' = [pc EXCEPT ![g] = "writing"] /\ todo' = [todo EXCEPT ![g] = ops]
    /\ UNCHANGED <<file, handle, throughout>>

\* Mutant of Install: auth.json is overwritten in place.
InstallInPlace(c) == Write(AuthJSON, c)

\* ccdir.Install: a temporary file renamed to auth.json.
Install(c) == Whole(AuthJSON, c)

\* Mutant of SwitchOps: the key is not exported.
SwitchOpsNoKey(id, c) == <<Install(c), Write(ActiveJSON, <<id>>)>>

SwitchOps(id, c) == <<Install(c), Write(ActiveJSON, <<id>>), Write(KeyFile, c)>>

\* SwitchTo reads the vault's copy first; an account without a valid one is an
\* error that changes nothing.
SwitchTo(g, id) ==
    LET c == file[Saved(id)] IN
    /\ c \in Creds
    /\ Begins(g, "switch", id) /\ Plans(g, SwitchOps(id, c))
    /\ UNCHANGED <<request, hurt>>

\* A request on its way is not promised a key any more.
Deactivate(g) ==
    /\ Begins(g, "deactivate", "none")
    /\ Plans(g, <<Remove(AuthJSON), Remove(ActiveJSON), Remove(KeyFile)>>)
    /\ request' = IF request.at = "answered" THEN request
                  ELSE [request EXCEPT !.safe = FALSE, !.installed = {}]
    /\ UNCHANGED hurt

\* Mutant of PutOps: the metadata of an account that is known is not refreshed.
PutOpsOnce(c) ==
    <<Whole(Dir(AccountOf(c)), Made), Write(Saved(AccountOf(c)), c)>>
    \o IF file[Meta(AccountOf(c))] = None
       THEN <<Write(Meta(AccountOf(c)), c)>> ELSE <<>>

\* Vault.Put: the directory, the credential, then what is shown of it.
PutOps(c) ==
    <<Whole(Dir(AccountOf(c)), Made), Write(Saved(AccountOf(c)), c),
      Write(Meta(AccountOf(c)), c)>>

SaveCurrentCredential(g) ==
    LET c == file[AuthJSON] IN
    /\ c \in Creds
    /\ Begins(g, "save", AccountOf(c)) /\ Plans(g, PutOps(c))
    /\ hurt' = (hurt \/ \E h \in Clicks :
                    /\ action[h] = [name |-> "save", account |-> AccountOf(c)]
                    /\ todo[h][Len(todo[h])].content # c)
    /\ UNCHANGED request

\* DeleteFromVault takes its TrayState: the recorded account first.
DeleteFromVault(id) ==
    /\ Begins("dialog", "delete", id)
    /\ throughout' = InUse(file, id)
    /\ IF file[ActiveJSON] = <<id>>
       THEN pc' = [pc EXCEPT !["dialog"] = "refused"]
       ELSE pc' = [pc EXCEPT !["dialog"] = "checking"]
    /\ UNCHANGED <<file, todo, handle, request, hurt>>

\* Mutant of CheckInstalled: only the recorded account is protected.
CheckInstalledNever ==
    /\ pc["dialog"] = "checking"
    /\ pc' = [pc EXCEPT !["dialog"] = "removing"]
    /\ UNCHANGED <<file, action, todo, handle, request, settled, throughout, hurt, used>>

\* Then the installed one.
CheckInstalled ==
    /\ pc["dialog"] = "checking"
    /\ pc' = [pc EXCEPT !["dialog"] =
                IF AuthJSON \in InUse(file, action["dialog"].account) THEN "refused" ELSE "removing"]
    /\ UNCHANGED <<file, action, todo, handle, request, settled, throughout, hurt, used>>

\* A protected account is not deleted: an error that changes nothing.
Refuse ==
    /\ pc["dialog"] = "refused"
    /\ Idle("dialog")
    /\ UNCHANGED <<file, handle, request, settled, throughout, hurt, used>>

\* os.RemoveAll deletes what it finds, in any order, then the directory.
RemoveEntry ==
    /\ pc["dialog"] = "removing"
    /\ \E f \in {"saved", "meta"} \X {action["dialog"].account} :
        /\ file[f] # None
        /\ Becomes([file EXCEPT ![f] = None], handle)
    /\ UNCHANGED <<pc, action, todo, settled, hurt, used>>

RemoveDir ==
    LET id == action["dialog"].account IN
    /\ pc["dialog"] = "removing"
    /\ file[Saved(id)] = None /\ file[Meta(id)] = None
    /\ Becomes([file EXCEPT ![Dir(id)] = None], handle)
    /\ Succeeds("dialog")
    /\ UNCHANGED used

\* A file cannot be deleted, or appeared after the directory was read.
RemoveFails ==
    /\ pc["dialog"] = "removing"
    /\ \E f \in {"dir", "saved", "meta"} \X {action["dialog"].account} : file[f] # None
    /\ Fails("dialog")
    /\ UNCHANGED <<file, handle, request, throughout, used>>

-----------------------------------------------------------------------------
(* Around the app *)

\* cmdc login
Login(c) ==
    /\ used.logins < MaxLogins
    /\ used' = [used EXCEPT !.logins = @ + 1]
    /\ Becomes([file EXCEPT ![AuthJSON] = c], handle)
    /\ settled' = Disturbed
    /\ UNCHANGED <<pc, action, todo, hurt>>

\* The app dies, and is started again.
Crash ==
    /\ used.mishaps < MaxMishaps /\ \E g \in Goroutines : pc[g] # "idle"
    /\ used' = [used EXCEPT !.mishaps = @ + 1]
    /\ pc' = [g \in Goroutines |-> "idle"] /\ action' = [g \in Goroutines |-> NoAction]
    /\ todo' = [g \in Goroutines |-> <<>>] /\ handle' = [g \in Clicks |-> "none"]
    /\ request' = NoRequest /\ hurt' = TRUE /\ throughout' = {}
    /\ UNCHANGED <<file, settled>>

(* A request at the gateway *)

\* A deactivation is about to remove the CLI's credential.
LoggingOut == \E g \in Clicks : pc[g] = "writing" /\ Head(todo[g]) = Remove(AuthJSON)

\* ServeHTTP asks for the key; requests are independent, so one at a time will do.
Arrive ==
    /\ request.at \in {"none", "answered"}
    /\ LET safe == file[AuthJSON] \in Creds /\ ~LoggingOut IN
        request' = [NoRequest EXCEPT !.at = "arrived", !.safe = safe,
                                     !.installed = IF safe THEN {file[AuthJSON]} ELSE {}]
    /\ UNCHANGED <<file, goroutine, settled, throughout, hurt, used>>

Answer(key) == request' = [request EXCEPT !.at = "answered", !.key = key]

\* Mutant of ReadAuth: the exported key goes before the CLI's credential.
ReadKeyFirst ==
    /\ request.at = "arrived"
    /\ IF file[KeyFile] \in Creds THEN Answer(file[KeyFile])
       ELSE IF file[AuthJSON] \in Creds THEN Answer(file[AuthJSON])
       ELSE request' = [request EXCEPT !.at = "fallback"]
    /\ UNCHANGED <<file, goroutine, settled, throughout, hurt, used>>

\* App.activeKey reads the CLI's credential.
ReadAuth ==
    /\ request.at = "arrived"
    /\ IF file[AuthJSON] \in Creds THEN Answer(file[AuthJSON])
       ELSE request' = [request EXCEPT !.at = "fallback"]
    /\ UNCHANGED <<file, goroutine, settled, throughout, hurt, used>>

\* Without one, it takes what the exported key file holds then, if that is anything:
\* a key, a part of one, or a mixture; None is the error that no account is active.
ReadKey ==
    /\ request.at = "fallback"
    /\ \E key \in IF file[KeyFile] = Torn THEN {None, Torn} ELSE {file[KeyFile]} : Answer(key)
    /\ UNCHANGED <<file, goroutine, settled, throughout, hurt, used>>

-----------------------------------------------------------------------------
Click(g) ==
    \/ Truncate(g) \/ Operate(g) \/ OperateFails(g)
    \/ Deactivate(g) \/ SaveCurrentCredential(g) \/ \E id \in Accounts : SwitchTo(g, id)

Next ==
    \/ \E g \in Clicks : Click(g)
    \/ \E id \in Accounts : DeleteFromVault(id)
    \/ CheckInstalled \/ Refuse \/ RemoveEntry \/ RemoveDir \/ RemoveFails
    \/ Crash \/ \E c \in Creds : Login(c)
    \/ Arrive \/ ReadAuth \/ ReadKey

Spec == Init /\ [][Next]_vars
-----------------------------------------------------------------------------
\* A switch that reported success, with no other and no login while it ran and nothing
\* after it, has moved all three, whatever else was saved or deleted meanwhile: the
\* CLI's credential, the record and the exported key are of the one account.
SwitchIsComplete ==
    settled.name = "switch" =>
        /\ file[AuthJSON] \in Creds /\ AccountOf(file[AuthJSON]) = settled.account
        /\ file[ActiveJSON] = <<settled.account>>
        /\ file[KeyFile] = file[AuthJSON]

\* A request gets the key of a credential that was installed at some time between its
\* arrival and its answer, as long as nobody logs the CLI out: however switches, saves,
\* deletions and logins interleave with its reads, fail, or died with the app earlier,
\* it gets no error, no key that was exported long ago, and no part of one.
RequestIsSeamless ==
    request.at = "answered" /\ request.safe => request.key \in request.installed

\* An account that is installed from the moment its deletion is asked for, or is
\* recorded all that time, keeps its copy, whatever clicks and logins come between.
DeleteProtects == pc["dialog"] = "removing" => throughout = {}

\* When all actions are over, and none failed, what the menu lists can be switched
\* to, and shows the credential that would be installed.
ListedIsUsable ==
    (\A g \in Goroutines : pc[g] = "idle") /\ ~hurt =>
        \A id \in Accounts : file[Meta(id)] # None =>
            /\ file[Saved(id)] \in Creds
            /\ file[Meta(id)] = file[Saved(id)]
=============================================================================
