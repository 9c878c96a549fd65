---------------------------- MODULE Accounts_proofs ----------------------------
(***************************************************************************)
(* What the app does with accounts: their credential files, and the probe  *)
(* of their plans.                                                         *)
(*                                                                         *)
(* For any accounts and keys, any number of clicks at a time, and any      *)
(* number of actions, logins, failures and crashes: a switch is complete,  *)
(* a request gets a key that was installed while it was on its way, an     *)
(* account that is in use all the time is not deleted, and what the menu   *)
(* lists is usable.                                                        *)
(*                                                                         *)
(* For any probe models and any capacity of the semaphore: every model has *)
(* one verdict when Plan returns, and few are asked about after the probe  *)
(* has been called off.                                                    *)
(***************************************************************************)
EXTENDS CredentialStore, PlanProbe, FiniteSetTheorems, TLAPS

(* The credential files *)

Contents == Creds \cup {<<id>> : id \in Accounts} \cup {None, Torn, Mixed, Made}
Operations == [file : Files, content : Contents, atomic : BOOLEAN]

Names == {"none", "disturbed", "save", "switch", "deactivate", "delete"}
Actions == [name : Names, account : Accounts \cup {"none"}]
Steps == {"idle", "writing", "checking", "refused", "removing"}
Usage == [actions : Nat, logins : Nat, mishaps : Nat]

Handled == [Clicks -> {"none", "open", "gone"}]
Asked == [at : {"none", "arrived", "fallback", "answered"}, key : Contents, safe : BOOLEAN,
          installed : SUBSET Creds]

ControlTypes ==
    /\ pc \in [Goroutines -> Steps]
    /\ action \in [Goroutines -> Actions]
    /\ todo \in [Goroutines -> Seq(Operations)]

Types ==
    /\ ControlTypes
    /\ file \in [Files -> Contents]
    /\ handle \in Handled
    /\ request \in Asked
    /\ settled \in Actions
    /\ used \in Usage

\* What is left of a switch, of a deactivation, and of a save.
AfterInstall(id, c) == <<Write(ActiveJSON, <<id>>), Write(KeyFile, c)>>
AfterRecord(c) == <<Write(KeyFile, c)>>
LogoutOps == <<Remove(AuthJSON), Remove(ActiveJSON), Remove(KeyFile)>>
AfterLogout == <<Remove(ActiveJSON), Remove(KeyFile)>>
LastRemoval == <<Remove(KeyFile)>>
AfterDir(c) == <<Write(Saved(AccountOf(c)), c), Write(Meta(AccountOf(c)), c)>>
AfterCopy(c) == <<Write(Meta(AccountOf(c)), c)>>

\* A switch and a save end by writing the credential they are about.
Credential(s) == s[Len(s)].content

SwitchLeft(s, id) ==
    /\ Credential(s) \in Creds /\ AccountOf(Credential(s)) = id
    /\ s \in {SwitchOps(id, Credential(s)), AfterInstall(id, Credential(s)),
              AfterRecord(Credential(s))}

LogoutLeft(s) == s \in {LogoutOps, AfterLogout, LastRemoval}

SaveLeft(s, id) ==
    /\ Credential(s) \in Creds /\ AccountOf(Credential(s)) = id
    /\ s \in {PutOps(Credential(s)), AfterDir(Credential(s)), AfterCopy(Credential(s))}

\* The list s is what is left of the action a of a click.
Doing(s, a) ==
    \/ a.name = "switch" /\ a.account \in Accounts /\ SwitchLeft(s, a.account)
    \/ a.name = "deactivate" /\ LogoutLeft(s)
    \/ a.name = "save" /\ a.account \in Accounts /\ SaveLeft(s, a.account)

\* The dialog only deletes, and the clicks only write; only a file that is written in
\* place is ever open.
Roles ==
    /\ pc["dialog"] # "writing"
    /\ pc["dialog"] # "idle" =>
        action["dialog"].name = "delete" /\ action["dialog"].account \in Accounts
    /\ \A g \in Clicks :
        /\ pc[g] \in {"idle", "writing"}
        /\ pc[g] = "writing" => Doing(todo[g], action[g])
        /\ handle[g] # "none" => pc[g] = "writing" /\ ~Head(todo[g]).atomic

\* As long as nothing has come between, one click at a time changes the credential, and
\* none once one has reported success.
Alone ==
    settled # Disturbed =>
        /\ \A g, h \in Clicks : Changing(g) /\ Changing(h) => g = h
        /\ settled # NoAction => \A g \in Clicks : ~Changing(g)

\* How far such a switch has come: what it has written is there, what it writes is torn.
Progress ==
    settled # Disturbed =>
        \A g \in Clicks :
            Changing(g) /\ action[g].name = "switch" /\ Len(todo[g]) < 3 =>
                /\ file[AuthJSON] = Credential(todo[g])
                /\ Len(todo[g]) = 1 => file[ActiveJSON] = <<action[g].account>>
                /\ handle[g] # "none" =>
                    handle[g] = "open" /\ file[Head(todo[g]).file] = Torn

Moving == Alone /\ Progress /\ SwitchIsComplete

\* The copy of an account is a credential of that account.
Sorted ==
    \A id \in Accounts : file[Saved(id)] \in Creds => AccountOf(file[Saved(id)]) = id

\* What the deletion knows of how its account was in use all the time: at first not
\* recorded, in the end not installed either.
Deleting ==
    /\ pc["dialog"] = "checking" =>
        /\ throughout \subseteq InUse(file, action["dialog"].account)
        /\ ActiveJSON \notin throughout
    /\ DeleteProtects

\* A safe request that has not read a key yet finds the CLI logged in, and nobody is
\* about to log it out.
Requests ==
    /\ request.at = "arrived" /\ request.safe =>
        file[AuthJSON] \in Creds /\ file[AuthJSON] \in request.installed /\ ~LoggingOut
    /\ request.at = "fallback" => ~request.safe
    /\ RequestIsSeamless

IInv == Types /\ Roles /\ Moving /\ Sorted /\ Deleting /\ Requests

-----------------------------------------------------------------------------
LEMMA FilesLemma ==
    /\ {AuthJSON, ActiveJSON, KeyFile} \subseteq Files
    /\ \A id \in Accounts : {Dir(id), Saved(id), Meta(id)} \subseteq PerAccount
    /\ PerAccount \subseteq Files
    /\ AuthJSON # ActiveJSON /\ AuthJSON # KeyFile /\ ActiveJSON # KeyFile
    /\ PerAccount \cap {AuthJSON, ActiveJSON, KeyFile} = {}
  BY DEF Files, AuthJSON, ActiveJSON, KeyFile, PerAccount, Dir, Saved, Meta

LEMMA AccountFiles ==
    /\ \A id, jd : /\ Dir(id) # Saved(jd) /\ Dir(id) # Meta(jd) /\ Saved(id) # Meta(jd)
                   /\ id # jd => /\ Dir(id) # Dir(jd) /\ Saved(id) # Saved(jd)
                                 /\ Meta(id) # Meta(jd)
    /\ None # Torn
  BY DEF Dir, Saved, Meta, None, Torn

LEMMA OpsLemma ==
    /\ \A f, x : /\ Whole(f, x).file = f /\ Whole(f, x).content = x /\ Whole(f, x).atomic = TRUE
                 /\ Write(f, x).file = f /\ Write(f, x).content = x /\ Write(f, x).atomic = FALSE
    /\ \A f \in Files, x \in Contents : Whole(f, x) \in Operations /\ Write(f, x) \in Operations
  BY DEF Whole, Write, Operations

LEMMA CredsLemma ==
    /\ \A c \in Creds : AccountOf(c) \in Accounts /\ c \in Contents
    /\ None \notin Creds /\ Torn \notin Creds /\ Mixed \notin Creds
    /\ \A id \in Accounts : <<id>> \in Contents
    /\ {None, Torn, Mixed, Made} \subseteq Contents
  BY DEF Creds, AccountOf, Contents, None, Torn, Mixed

LEMMA ClicksLemma ==
    /\ "dialog" \in Goroutines /\ "dialog" \notin Clicks
    /\ \A g \in Clicks : g \in Goroutines /\ g # "dialog"
    /\ \A g \in Goroutines : g = "dialog" \/ g \in Clicks
  BY ClicksAssumption DEF Goroutines

LEMMA InUseLemma ==
    ASSUME NEW fs, NEW id
    PROVE  InUse(fs, id) \subseteq {AuthJSON, ActiveJSON}
  BY DEF InUse

-----------------------------------------------------------------------------
(* Lists of operations *)

LEMMA ThreeSteps ==
    ASSUME NEW x \in Operations, NEW y \in Operations, NEW z \in Operations, NEW s
    PROVE  /\ s = <<x, y, z>> =>
                /\ s \in Seq(Operations) /\ Len(s) = 3 /\ Head(s) = x /\ Tail(s) = <<y, z>>
                /\ Len(Tail(s)) = 2 /\ Credential(s) = z.content
                /\ Credential(Tail(s)) = z.content
           /\ s = <<y, z>> =>
                /\ s \in Seq(Operations) /\ Len(s) = 2 /\ Head(s) = y /\ Tail(s) = <<z>>
                /\ Len(Tail(s)) = 1 /\ Credential(s) = z.content
                /\ Credential(Tail(s)) = z.content
           /\ s = <<z>> =>
                /\ s \in Seq(Operations) /\ Len(s) = 1 /\ Head(s) = z
                /\ Credential(s) = z.content
<1>1. /\ <<x, y, z>> \in Seq(Operations) /\ <<y, z>> \in Seq(Operations)
      /\ <<z>> \in Seq(Operations)
  OBVIOUS
<1>2. /\ Len(<<x, y, z>>) = 3 /\ Head(<<x, y, z>>) = x /\ <<x, y, z>>[3] = z
      /\ Len(<<y, z>>) = 2 /\ Head(<<y, z>>) = y /\ <<y, z>>[2] = z
      /\ Len(<<z>>) = 1 /\ Head(<<z>>) = z /\ <<z>>[1] = z
  OBVIOUS
<1>3. Tail(<<x, y, z>>) = <<y, z>>
  OBVIOUS
<1>4. Tail(<<y, z>>) = <<z>>
  OBVIOUS
<1>5. /\ Credential(<<x, y, z>>) = z.content /\ Credential(<<y, z>>) = z.content
      /\ Credential(<<z>>) = z.content
  BY <1>2 DEF Credential
<1>6. ASSUME s = <<x, y, z>>
      PROVE  /\ s \in Seq(Operations) /\ Len(s) = 3 /\ Head(s) = x /\ Tail(s) = <<y, z>>
             /\ Len(Tail(s)) = 2 /\ Credential(s) = z.content
             /\ Credential(Tail(s)) = z.content
  BY <1>1, <1>2, <1>3, <1>5, <1>6, Zenon
<1>7. ASSUME s = <<y, z>>
      PROVE  /\ s \in Seq(Operations) /\ Len(s) = 2 /\ Head(s) = y /\ Tail(s) = <<z>>
             /\ Len(Tail(s)) = 1 /\ Credential(s) = z.content
             /\ Credential(Tail(s)) = z.content
  BY <1>1, <1>2, <1>4, <1>5, <1>7, Zenon
<1>8. ASSUME s = <<z>>
      PROVE  /\ s \in Seq(Operations) /\ Len(s) = 1 /\ Head(s) = z
             /\ Credential(s) = z.content
  BY <1>1, <1>2, <1>5, <1>8, Zenon
<1> QED BY <1>6, <1>7, <1>8

\* What a switch does next.
LEMMA SwitchList ==
    ASSUME NEW id \in Accounts, NEW s, SwitchLeft(s, id)
    PROVE  /\ s \in Seq(Operations) /\ Len(s) \in {1, 2, 3} /\ Head(s) \in Operations
           /\ Len(s) = 3 => /\ Head(s).file = AuthJSON /\ Head(s).content = Credential(s)
                            /\ Head(s).atomic = TRUE
           /\ Len(s) = 2 => /\ Head(s).file = ActiveJSON /\ Head(s).content = <<id>>
                            /\ Head(s).atomic = FALSE
           /\ Len(s) = 1 => /\ Head(s).file = KeyFile /\ Head(s).content = Credential(s)
                            /\ Head(s).atomic = FALSE
           /\ Len(s) # 1 => /\ Len(Tail(s)) = Len(s) - 1 /\ SwitchLeft(Tail(s), id)
                            /\ Credential(Tail(s)) = Credential(s)
<1> DEFINE c == Credential(s)
           x == Install(c) y == Write(ActiveJSON, <<id>>) z == Write(KeyFile, c)
<1>1. c \in Creds /\ AccountOf(c) = id
      /\ s \in {SwitchOps(id, c), AfterInstall(id, c), AfterRecord(c)}
  BY DEF SwitchLeft
<1>2. x \in Operations /\ y \in Operations /\ z \in Operations
  BY <1>1, CredsLemma, OpsLemma, FilesLemma DEF Install
<1>3. /\ SwitchOps(id, c) = <<x, y, z>> /\ AfterInstall(id, c) = <<y, z>>
      /\ AfterRecord(c) = <<z>>
  BY DEF SwitchOps, AfterInstall, AfterRecord
<1>4. /\ x.file = AuthJSON /\ x.content = c /\ x.atomic = TRUE
      /\ y.file = ActiveJSON /\ y.content = <<id>> /\ y.atomic = FALSE
      /\ z.file = KeyFile /\ z.content = c /\ z.atomic = FALSE
  BY OpsLemma DEF Install
<1> HIDE DEF x, y, z
<1>5. CASE s = <<x, y, z>>
  <2>1. SwitchLeft(<<y, z>>, id)
    BY <1>1, <1>2, <1>3, <1>4, ThreeSteps DEF SwitchLeft
  <2>2. /\ s \in Seq(Operations) /\ Len(s) = 3 /\ Head(s) = x /\ Tail(s) = <<y, z>>
        /\ Len(Tail(s)) = 2 /\ Credential(Tail(s)) = Credential(s)
    BY <1>2, <1>5, ThreeSteps
  <2>3. SwitchLeft(Tail(s), id)
    BY <2>1, <2>2, Zenon
  <2> QED BY <1>2, <1>4, <2>2, <2>3
<1>6. CASE s = <<y, z>>
  <2>1. SwitchLeft(<<z>>, id)
    BY <1>1, <1>2, <1>3, <1>4, ThreeSteps DEF SwitchLeft
  <2>2. /\ s \in Seq(Operations) /\ Len(s) = 2 /\ Head(s) = y /\ Tail(s) = <<z>>
        /\ Len(Tail(s)) = 1 /\ Credential(Tail(s)) = Credential(s)
    BY <1>2, <1>6, ThreeSteps
  <2>3. SwitchLeft(Tail(s), id)
    BY <2>1, <2>2, Zenon
  <2> QED BY <1>2, <1>4, <2>2, <2>3
<1>7. CASE s = <<z>>
  <2>1. s \in Seq(Operations) /\ Len(s) = 1 /\ Head(s) = z
    BY <1>2, <1>7, ThreeSteps
  <2> QED BY <1>2, <1>4, <2>1
<1> QED BY <1>1, <1>3, <1>5, <1>6, <1>7

LEMMA LogoutList ==
    ASSUME NEW s, LogoutLeft(s)
    PROVE  /\ s \in Seq(Operations) /\ Len(s) \in {1, 2, 3} /\ Head(s) \in Operations
           /\ Head(s).atomic = TRUE
           /\ Len(s) = 3 => Head(s) = Remove(AuthJSON) /\ Head(s).file = AuthJSON
           /\ Len(s) # 3 => Head(s).file \in {ActiveJSON, KeyFile}
           /\ Len(s) # 1 => Len(Tail(s)) = Len(s) - 1 /\ LogoutLeft(Tail(s))
<1> DEFINE x == Remove(AuthJSON) y == Remove(ActiveJSON) z == Remove(KeyFile)
<1>1. /\ s \in {<<x, y, z>>, <<y, z>>, <<z>>}
      /\ LogoutOps = <<x, y, z>> /\ AfterLogout = <<y, z>> /\ LastRemoval = <<z>>
  BY DEF LogoutLeft, LogoutOps, AfterLogout, LastRemoval
<1>2. x \in Operations /\ y \in Operations /\ z \in Operations
  BY OpsLemma, FilesLemma, CredsLemma DEF Remove
<1>3. /\ x.file = AuthJSON /\ y.file = ActiveJSON /\ z.file = KeyFile
      /\ x.atomic = TRUE /\ y.atomic = TRUE /\ z.atomic = TRUE
  BY OpsLemma DEF Remove
<1>4. x = Remove(AuthJSON)
  OBVIOUS
<1> HIDE DEF x, y, z
<1>5. CASE s = <<x, y, z>>
  <2>1. LogoutLeft(<<y, z>>)
    BY <1>1 DEF LogoutLeft
  <2>2. /\ s \in Seq(Operations) /\ Len(s) = 3 /\ Head(s) = x /\ Tail(s) = <<y, z>>
        /\ Len(Tail(s)) = 2 /\ Credential(Tail(s)) = Credential(s)
    BY <1>2, <1>5, ThreeSteps
  <2>3. LogoutLeft(Tail(s))
    BY <2>1, <2>2, Zenon
  <2> QED BY <1>2, <1>3, <1>4, <2>2, <2>3
<1>6. CASE s = <<y, z>>
  <2>1. LogoutLeft(<<z>>)
    BY <1>1 DEF LogoutLeft
  <2>2. /\ s \in Seq(Operations) /\ Len(s) = 2 /\ Head(s) = y /\ Tail(s) = <<z>>
        /\ Len(Tail(s)) = 1 /\ Credential(Tail(s)) = Credential(s)
    BY <1>2, <1>6, ThreeSteps
  <2>3. LogoutLeft(Tail(s))
    BY <2>1, <2>2, Zenon
  <2> QED BY <1>2, <1>3, <2>2, <2>3
<1>7. CASE s = <<z>>
  <2>1. s \in Seq(Operations) /\ Len(s) = 1 /\ Head(s) = z
    BY <1>2, <1>7, ThreeSteps
  <2> QED BY <1>2, <1>3, <2>1
<1> QED BY <1>1, <1>5, <1>6, <1>7

LEMMA SaveList ==
    ASSUME NEW id \in Accounts, NEW s, SaveLeft(s, id)
    PROVE  /\ s \in Seq(Operations) /\ Len(s) \in {1, 2, 3} /\ Head(s) \in Operations
           /\ Len(s) = 3 => Head(s).file = Dir(id) /\ Head(s).atomic = TRUE
           /\ Len(s) = 2 => /\ Head(s).file = Saved(id) /\ Head(s).content = Credential(s)
                            /\ Head(s).atomic = FALSE
           /\ Len(s) = 1 => /\ Head(s).file = Meta(id) /\ Head(s).content = Credential(s)
                            /\ Head(s).atomic = FALSE
           /\ Len(s) # 1 => /\ Len(Tail(s)) = Len(s) - 1 /\ SaveLeft(Tail(s), id)
                            /\ Credential(Tail(s)) = Credential(s)
<1> DEFINE c == Credential(s)
           x == Whole(Dir(id), Made) y == Write(Saved(id), c) z == Write(Meta(id), c)
<1>1. c \in Creds /\ AccountOf(c) = id /\ s \in {PutOps(c), AfterDir(c), AfterCopy(c)}
  BY DEF SaveLeft
<1>2. x \in Operations /\ y \in Operations /\ z \in Operations
  BY <1>1, CredsLemma, OpsLemma, FilesLemma
<1>3. PutOps(c) = <<x, y, z>> /\ AfterDir(c) = <<y, z>> /\ AfterCopy(c) = <<z>>
  BY <1>1 DEF PutOps, AfterDir, AfterCopy
<1>4. /\ x.file = Dir(id) /\ x.atomic = TRUE
      /\ y.file = Saved(id) /\ y.content = c /\ y.atomic = FALSE
      /\ z.file = Meta(id) /\ z.content = c /\ z.atomic = FALSE
  BY OpsLemma
<1> HIDE DEF x, y, z
<1>5. CASE s = <<x, y, z>>
  <2>1. SaveLeft(<<y, z>>, id)
    BY <1>1, <1>2, <1>3, <1>4, ThreeSteps DEF SaveLeft
  <2>2. /\ s \in Seq(Operations) /\ Len(s) = 3 /\ Head(s) = x /\ Tail(s) = <<y, z>>
        /\ Len(Tail(s)) = 2 /\ Credential(Tail(s)) = Credential(s)
    BY <1>2, <1>5, ThreeSteps
  <2>3. SaveLeft(Tail(s), id)
    BY <2>1, <2>2, Zenon
  <2> QED BY <1>2, <1>4, <2>2, <2>3
<1>6. CASE s = <<y, z>>
  <2>1. SaveLeft(<<z>>, id)
    BY <1>1, <1>2, <1>3, <1>4, ThreeSteps DEF SaveLeft
  <2>2. /\ s \in Seq(Operations) /\ Len(s) = 2 /\ Head(s) = y /\ Tail(s) = <<z>>
        /\ Len(Tail(s)) = 1 /\ Credential(Tail(s)) = Credential(s)
    BY <1>2, <1>6, ThreeSteps
  <2>3. SaveLeft(Tail(s), id)
    BY <2>1, <2>2, Zenon
  <2> QED BY <1>2, <1>4, <2>2, <2>3
<1>7. CASE s = <<z>>
  <2>1. s \in Seq(Operations) /\ Len(s) = 1 /\ Head(s) = z
    BY <1>2, <1>7, ThreeSteps
  <2> QED BY <1>2, <1>4, <2>1
<1> QED BY <1>1, <1>3, <1>5, <1>6, <1>7

\* What any click does next.
LEMMA DoingList ==
    ASSUME NEW s, NEW a, Doing(s, a)
    PROVE  /\ s \in Seq(Operations) /\ Len(s) \in {1, 2, 3} /\ Head(s) \in Operations
           /\ Len(s) # 1 => Doing(Tail(s), a) /\ Len(Tail(s)) = Len(s) - 1
           /\ Head(s) = Remove(AuthJSON) => a.name = "deactivate" /\ Len(s) = 3
           /\ Head(s).file = AuthJSON =>
                Len(s) = 3 /\ Head(s).atomic = TRUE
                /\ (Head(s) = Remove(AuthJSON) \/ Head(s).content \in Creds)
           /\ Head(s).file \in PerAccount <=> a.name = "save"
           /\ \A id \in Accounts : Head(s).file = Saved(id) =>
                Head(s).content \in Creds /\ AccountOf(Head(s).content) = id
<1>1. /\ Remove(AuthJSON).file = AuthJSON /\ Remove(AuthJSON).content \notin Creds
      /\ \A id \in Accounts : Saved(id) \in PerAccount
  BY OpsLemma, CredsLemma, FilesLemma DEF Remove
<1>2. CASE a.name = "switch" /\ a.account \in Accounts /\ SwitchLeft(s, a.account)
  <2>1. Credential(s) \in Creds /\ (Len(s) # 1 => Doing(Tail(s), a))
    BY <1>2, SwitchList DEF SwitchLeft, Doing
  <2>2. Head(s).file \in {AuthJSON, ActiveJSON, KeyFile}
        /\ (Head(s).file = AuthJSON => Len(s) = 3 /\ Head(s).atomic = TRUE
                                       /\ Head(s).content = Credential(s))
    BY <1>2, SwitchList, FilesLemma
  <2>3. Head(s).file \notin PerAccount
    BY <2>2, FilesLemma
  <2>4. Head(s) # Remove(AuthJSON)
    BY <1>1, <2>1, <2>2
  <2> QED BY <1>1, <1>2, <2>1, <2>2, <2>3, <2>4, SwitchList
<1>3. CASE a.name = "deactivate" /\ LogoutLeft(s)
  <2>1. Len(s) # 1 => Doing(Tail(s), a)
    BY <1>3, LogoutList DEF Doing
  <2>2. Head(s).file \in {AuthJSON, ActiveJSON, KeyFile}
        /\ (Head(s).file = AuthJSON => Len(s) = 3)
    BY <1>3, LogoutList, FilesLemma
  <2>3. Head(s).file \notin PerAccount
    BY <2>2, FilesLemma
  <2>4. Head(s) = Remove(AuthJSON) => Len(s) = 3
    BY <1>1, <2>2
  <2> QED BY <1>1, <1>3, <2>1, <2>2, <2>3, <2>4, LogoutList
<1>4. CASE a.name = "save" /\ a.account \in Accounts /\ SaveLeft(s, a.account)
  <2>1. /\ Credential(s) \in Creds /\ AccountOf(Credential(s)) = a.account
        /\ Len(s) # 1 => Doing(Tail(s), a)
    BY <1>4, SaveList DEF SaveLeft, Doing
  <2>2. /\ Len(s) \in {1, 2, 3}
        /\ Len(s) = 3 => Head(s).file = Dir(a.account)
        /\ Len(s) = 2 => /\ Head(s).file = Saved(a.account)
                         /\ Head(s).content = Credential(s)
        /\ Len(s) = 1 => Head(s).file = Meta(a.account)
    BY <1>4, SaveList
  <2>5. Head(s).file \in PerAccount
    BY <1>4, <2>2, FilesLemma
  <2>3. Head(s).file # AuthJSON /\ Head(s) # Remove(AuthJSON)
    BY <1>1, <2>5, FilesLemma
  <2>4. ASSUME NEW id \in Accounts, Head(s).file = Saved(id)
        PROVE  Head(s).content \in Creds /\ AccountOf(Head(s).content) = id
    BY <2>1, <2>2, <2>4, AccountFiles
  <2> QED BY <1>4, <2>1, <2>3, <2>4, <2>5, SaveList
<1> QED BY <1>2, <1>3, <1>4 DEF Doing

LEMMA RecordsLemma ==
    /\ NoAction \in Actions /\ Disturbed \in Actions /\ NoAction # Disturbed
    /\ NoAction.name = "none" /\ Disturbed.name = "disturbed"
    /\ NoRequest \in Asked /\ NoRequest.at = "none"
    /\ \A name \in Names, id \in Accounts \cup {"none"} : [name |-> name, account |-> id] \in Actions
<1>1. NoAction \in Actions /\ Disturbed \in Actions
  BY DEF NoAction, Disturbed, Actions, Names
<1>2. NoAction.name = "none" /\ Disturbed.name = "disturbed"
  BY DEF NoAction, Disturbed
<1>3. NoRequest \in Asked /\ NoRequest.at = "none"
  BY CredsLemma DEF NoRequest, Asked
<1>4. \A name \in Names, id \in Accounts \cup {"none"} : [name |-> name, account |-> id] \in Actions
  BY DEF Actions
<1> QED BY <1>1, <1>2, <1>3, <1>4

LEMMA UsageLemma ==
    ASSUME Types
    PROVE  /\ [used EXCEPT !.actions = @ + 1] \in Usage
           /\ [used EXCEPT !.logins = @ + 1] \in Usage
           /\ [used EXCEPT !.mishaps = @ + 1] \in Usage
<1>1. used \in Usage
  BY DEF Types
<1> QED BY <1>1 DEF Usage

LEMMA InitInv == Init => IInv
<1> SUFFICES ASSUME Init PROVE IInv
  OBVIOUS
<1>1. Types
  <2>1. <<>> \in Seq(Operations)
    OBVIOUS
  <2>2. ControlTypes
    BY <2>1, RecordsLemma DEF Init, ControlTypes, Steps
  <2>3. used \in Usage /\ handle \in Handled
    BY DEF Init, Usage, Handled
  <2>4. file \in [Files -> Contents]
    BY CredsLemma DEF Init
  <2> QED BY <2>2, <2>3, <2>4, RecordsLemma DEF Init, Types
<1>2. Roles
  BY ClicksLemma DEF Init, Roles
<1>3. Moving
  <2>1. \A g \in Clicks : ~Changing(g)
    BY ClicksLemma DEF Init, Changing
  <2> QED BY <2>1, RecordsLemma DEF Init, Moving, Alone, Progress, SwitchIsComplete
<1>4. Sorted
  BY CredsLemma, FilesLemma DEF Init, Sorted
<1>5. Deleting
  BY ClicksLemma DEF Init, Deleting, DeleteProtects
<1>6. Requests
  BY RecordsLemma DEF Init, Requests, RequestIsSeamless
<1> QED BY <1>1, <1>2, <1>3, <1>4, <1>5, <1>6 DEF IInv

-----------------------------------------------------------------------------
(* What the parts of a step do *)

\* The other goroutines stay where they are.
Others(g) ==
    \A h \in Goroutines \ {g} :
        pc'[h] = pc[h] /\ action'[h] = action[h] /\ todo'[h] = todo[h]

\* A file that a click has open may be deleted.
Shut(h) ==
    handle'[h] = IF handle[h] = "open" /\ file'[Head(todo[h]).file] = None
                 THEN "gone" ELSE handle[h]

LEMMA IdleEffect ==
    ASSUME Types, NEW g \in Goroutines, Idle(g)
    PROVE  ControlTypes' /\ pc'[g] = "idle" /\ Others(g)
<1>1. <<>> \in Seq(Operations)
  OBVIOUS
<1>2. /\ pc' = [pc EXCEPT ![g] = "idle"] /\ action' = [action EXCEPT ![g] = NoAction]
      /\ todo' = [todo EXCEPT ![g] = <<>>]
  BY DEF Idle
<1>3. pc \in [Goroutines -> Steps] /\ action \in [Goroutines -> Actions]
      /\ todo \in [Goroutines -> Seq(Operations)]
  BY DEF Types, ControlTypes
<1>4. /\ pc' \in [Goroutines -> Steps] /\ pc'[g] = "idle"
      /\ \A h \in Goroutines \ {g} : pc'[h] = pc[h]
  BY <1>2, <1>3 DEF Steps
<1>5. /\ action' \in [Goroutines -> Actions]
      /\ \A h \in Goroutines \ {g} : action'[h] = action[h]
  BY <1>2, <1>3, RecordsLemma
<1>6. /\ todo' \in [Goroutines -> Seq(Operations)]
      /\ \A h \in Goroutines \ {g} : todo'[h] = todo[h]
  BY <1>1, <1>2, <1>3
<1> QED BY <1>4, <1>5, <1>6 DEF ControlTypes, Others

\* The operation at hand.
LEMMA AtHand ==
    ASSUME Types, Roles, NEW g \in Clicks, pc[g] = "writing"
    PROVE  /\ g \in Goroutines /\ Doing(todo[g], action[g])
           /\ todo[g] \in Seq(Operations) /\ Len(todo[g]) \in {1, 2, 3}
           /\ Head(todo[g]) \in Operations /\ Head(todo[g]).file \in Files
           /\ Head(todo[g]).content \in Contents
           /\ Head(todo[g]).atomic => handle[g] = "none"
<1>1. g \in Goroutines /\ Doing(todo[g], action[g])
      /\ (Head(todo[g]).atomic => handle[g] = "none")
  BY ClicksLemma DEF Roles
<1> QED BY <1>1, DoingList DEF Operations

\* An action that goes on has done one more operation.
LEMMA AdvanceEffect ==
    ASSUME Types, Roles, NEW g \in Clicks, pc[g] = "writing", Advance(g)
    PROVE  /\ ControlTypes' /\ Others(g) /\ settled' \in Actions
           /\ Len(todo[g]) = 1 => pc'[g] = "idle" /\ Succeeds(g)
           /\ Len(todo[g]) # 1 => /\ pc'[g] = "writing" /\ action'[g] = action[g]
                                  /\ todo'[g] = Tail(todo[g]) /\ Doing(todo'[g], action'[g])
                                  /\ Len(todo'[g]) = Len(todo[g]) - 1
                                  /\ UNCHANGED <<settled, hurt>>
<1>1. g \in Goroutines /\ Doing(todo[g], action[g]) /\ todo[g] \in Seq(Operations)
  BY AtHand
<1>2. CASE Len(todo[g]) = 1
  <2>1. Succeeds(g) /\ Idle(g) /\ settled' \in {settled, action[g]}
    BY <1>2 DEF Advance, Succeeds
  <2>2. settled' \in Actions
    BY <1>1, <2>1 DEF Types, ControlTypes
  <2> QED BY <1>1, <1>2, <2>1, <2>2, IdleEffect
<1>3. CASE Len(todo[g]) # 1
  <2>1. todo' = [todo EXCEPT ![g] = Tail(@)] /\ UNCHANGED <<pc, action, settled, hurt>>
    BY <1>3 DEF Advance
  <2>2. todo \in [Goroutines -> Seq(Operations)]
    BY DEF Types, ControlTypes
  <2>3. Doing(Tail(todo[g]), action[g]) /\ Len(Tail(todo[g])) = Len(todo[g]) - 1
    BY <1>1, <1>3, DoingList
  <2>4. Tail(todo[g]) \in Seq(Operations)
    BY <2>3, DoingList
  <2>5. /\ todo' \in [Goroutines -> Seq(Operations)] /\ todo'[g] = Tail(todo[g])
        /\ \A h \in Goroutines \ {g} : todo'[h] = todo[h]
    BY <1>1, <2>1, <2>2, <2>4
  <2>6. ControlTypes' /\ Others(g)
    BY <2>1, <2>5 DEF Types, ControlTypes, Others
  <2> QED BY <1>3, <2>1, <2>3, <2>5, <2>6 DEF Types
<1> QED BY <1>2, <1>3

LEMMA BecomesEffect ==
    ASSUME Types, NEW fs, NEW hs \in Handled, Becomes(fs, hs)
    PROVE  /\ file' = fs /\ handle' \in Handled /\ request' \in Asked
           /\ \A h \in Clicks :
                handle'[h] = IF hs[h] = "open" /\ file'[Head(todo[h]).file] = None
                             THEN "gone" ELSE hs[h]
<1>1. file' = fs /\ handle' = Handles(fs, hs)
  BY DEF Becomes
<1>2. request' \in Asked
  <2>1. request \in Asked
    BY DEF Types
  <2>2. \/ request' = request
        \/ request' = [request EXCEPT !.installed = @ \cup ({fs[AuthJSON]} \cap Creds)]
    BY DEF Becomes
  <2> QED BY <2>1, <2>2 DEF Asked
<1>3. handle' \in Handled
  BY <1>1 DEF Handles, Handled
<1> QED BY <1>1, <1>2, <1>3 DEF Handles

LEMMA TruncateEffect ==
    ASSUME Types, Roles, NEW g \in Clicks, Truncate(g)
    PROVE  LET op == Head(todo[g]) IN
           /\ pc[g] = "writing" /\ ~op.atomic /\ CanReach(op.file)
           /\ handle[g] = "none" /\ handle'[g] = "open" /\ handle' \in Handled
           /\ file' \in [Files -> Contents] /\ file'[op.file] = Torn
           /\ \A f \in Files : f # op.file => file'[f] = file[f]
           /\ \A h \in Clicks \ {g} : Shut(h)
           /\ \E fs, hs : Becomes(fs, hs)
           /\ request' \in Asked /\ UNCHANGED <<pc, action, todo, settled, hurt, used>>
<1> DEFINE op == Head(todo[g])
           fs == [file EXCEPT ![op.file] = Torn]
           hs == [handle EXCEPT ![g] = "open"]
<1>1. /\ pc[g] = "writing" /\ handle[g] = "none" /\ ~op.atomic /\ CanReach(op.file)
      /\ Becomes(fs, hs) /\ UNCHANGED <<pc, action, todo, settled, hurt, used>>
  BY DEF Truncate
<1>2. op.file \in Files
  BY <1>1, AtHand
<1>3. file \in [Files -> Contents] /\ handle \in Handled /\ Torn \in Contents
  BY CredsLemma DEF Types
<1> HIDE DEF op
<1>4. /\ fs \in [Files -> Contents] /\ fs[op.file] = Torn
      /\ \A f \in Files : f # op.file => fs[f] = file[f]
  BY <1>2, <1>3
<1>5. hs \in Handled /\ hs[g] = "open" /\ \A h \in Clicks \ {g} : hs[h] = handle[h]
  BY <1>3 DEF Handled
<1> HIDE DEF fs, hs
<1>6. /\ file' = fs /\ handle' \in Handled /\ request' \in Asked
      /\ \A h \in Clicks : handle'[h] = IF hs[h] = "open" /\ file'[Head(todo[h]).file] = None
                                        THEN "gone" ELSE hs[h]
  BY <1>1, <1>5, BecomesEffect
<1>7. handle'[g] = "open"
  BY <1>4, <1>5, <1>6, AccountFiles DEF op
<1>8. \A h \in Clicks \ {g} : Shut(h)
  BY <1>5, <1>6 DEF Shut
<1> QED BY <1>1, <1>4, <1>6, <1>7, <1>8 DEF op

LEMMA WrittenLemma ==
    ASSUME NEW g
    PROVE  LET op == Head(todo[g]) IN
           /\ Written(g) \subseteq {op.content, Mixed, file[op.file]}
           /\ handle[g] = "gone" => Written(g) = {file[op.file]}
           /\ handle[g] # "gone" /\ (op.atomic \/ file[op.file] \in {Torn, op.content})
                => Written(g) = {op.content}
<1> DEFINE op == Head(todo[g])
<1>1. CASE handle[g] = "gone"
  BY <1>1 DEF Written
<1>2. CASE handle[g] # "gone" /\ (op.atomic \/ file[op.file] \in {Torn, op.content})
  BY <1>2 DEF Written
<1>3. CASE handle[g] # "gone" /\ ~(op.atomic \/ file[op.file] \in {Torn, op.content})
  BY <1>3 DEF Written
<1> QED BY <1>1, <1>2, <1>3

LEMMA OperateEffect ==
    ASSUME Types, Roles, NEW g \in Clicks, Operate(g)
    PROVE  LET op == Head(todo[g]) IN
           /\ pc[g] = "writing" /\ (op.atomic \/ handle[g] # "none")
           /\ handle'[g] = "none" /\ handle' \in Handled
           /\ file' \in [Files -> Contents]
           /\ file'[op.file] \in {op.content, Mixed, file[op.file]}
           /\ handle[g] = "gone" => file'[op.file] = file[op.file]
           /\ handle[g] # "gone" /\ (op.atomic \/ file[op.file] \in {Torn, op.content})
                => file'[op.file] = op.content
           /\ \A f \in Files : f # op.file => file'[f] = file[f]
           /\ \A h \in Clicks \ {g} : Shut(h)
           /\ \E fs, hs : Becomes(fs, hs)
           /\ request' \in Asked /\ Advance(g) /\ UNCHANGED used
<1> DEFINE op == Head(todo[g])
           hs == [handle EXCEPT ![g] = "none"]
<1>1. PICK content \in Written(g) : Becomes([file EXCEPT ![op.file] = content], hs)
  BY DEF Operate
<1>2. pc[g] = "writing" /\ (op.atomic \/ handle[g] # "none") /\ Advance(g) /\ UNCHANGED used
  BY DEF Operate
<1> DEFINE fs == [file EXCEPT ![op.file] = content]
<1>3. op.file \in Files /\ op.content \in Contents
  BY <1>2, AtHand
<1>4. file \in [Files -> Contents] /\ handle \in Handled /\ Mixed \in Contents
  BY CredsLemma DEF Types
<1>5. /\ content \in {op.content, Mixed, file[op.file]}
      /\ handle[g] = "gone" => content = file[op.file]
      /\ handle[g] # "gone" /\ (op.atomic \/ file[op.file] \in {Torn, op.content})
            => content = op.content
  BY <1>1, WrittenLemma
<1> HIDE DEF op
<1>6. /\ fs \in [Files -> Contents] /\ fs[op.file] = content
      /\ \A f \in Files : f # op.file => fs[f] = file[f]
  BY <1>3, <1>4, <1>5
<1>7. hs \in Handled /\ hs[g] = "none" /\ \A h \in Clicks \ {g} : hs[h] = handle[h]
  BY <1>4 DEF Handled
<1>8. Becomes(fs, hs)
  BY <1>1
<1> HIDE DEF fs, hs
<1>9. /\ file' = fs /\ handle' \in Handled /\ request' \in Asked
      /\ \A h \in Clicks : handle'[h] = IF hs[h] = "open" /\ file'[Head(todo[h]).file] = None
                                        THEN "gone" ELSE hs[h]
  BY <1>7, <1>8, BecomesEffect
<1>10. handle'[g] = "none" /\ \A h \in Clicks \ {g} : Shut(h)
  BY <1>7, <1>9 DEF Shut
<1>11. \E gs, ks : Becomes(gs, ks)
  BY <1>8
<1> QED BY <1>2, <1>5, <1>6, <1>9, <1>10, <1>11 DEF op

LEMMA FailsEffect ==
    ASSUME Types, Roles, NEW g \in Clicks, OperateFails(g)
    PROVE  /\ pc[g] = "writing" /\ handle' \in Handled /\ handle'[g] = "none"
           /\ \A h \in Clicks \ {g} : handle'[h] = handle[h]
           /\ UNCHANGED <<file, request, throughout>> /\ used' \in Usage
           /\ Fails(g) \/ (action[g].name = "deactivate" /\ Advance(g))
<1>1. used' \in Usage
  <2>1. used \in Usage /\ used' = [used EXCEPT !.mishaps = IF @ < MaxMishaps THEN @ + 1 ELSE @]
    BY DEF Types, OperateFails
  <2> QED BY <2>1 DEF Usage
<1>2. handle' = [handle EXCEPT ![g] = "none"] /\ handle \in Handled
  BY DEF OperateFails, Types
<1>3. /\ handle' \in Handled /\ handle'[g] = "none"
      /\ \A h \in Clicks \ {g} : handle'[h] = handle[h]
  BY <1>2 DEF Handled
<1> QED BY <1>1, <1>3 DEF OperateFails

-----------------------------------------------------------------------------
(* What a step leaves as it was *)

\* A click has gone on or is over, and what it had open is closed.
LEMMA ClickRoles ==
    ASSUME Roles, NEW g \in Clicks, Others(g), handle'[g] = "none",
           pc'[g] = "idle" \/ (pc'[g] = "writing" /\ Doing(todo'[g], action'[g])),
           \A h \in Clicks \ {g} : Shut(h) \/ handle'[h] = handle[h]
    PROVE  Roles'
<1>1. \A h \in Goroutines \ {g} :
        pc'[h] = pc[h] /\ action'[h] = action[h] /\ todo'[h] = todo[h]
  BY DEF Others
<1>2. /\ pc'["dialog"] = pc["dialog"] /\ action'["dialog"] = action["dialog"]
  BY <1>1, ClicksLemma
<1>3. ASSUME NEW h \in Clicks \ {g}
      PROVE  /\ pc'[h] \in {"idle", "writing"}
             /\ pc'[h] = "writing" => Doing(todo'[h], action'[h])
             /\ handle'[h] # "none" => pc'[h] = "writing" /\ ~Head(todo'[h]).atomic
  <2>1. pc'[h] = pc[h] /\ action'[h] = action[h] /\ todo'[h] = todo[h]
    BY <1>1, ClicksLemma
  <2>2. handle'[h] # "none" => handle[h] # "none"
    BY DEF Shut
  <2> QED BY <2>1, <2>2 DEF Roles
<1>4. \A h \in Clicks :
        /\ pc'[h] \in {"idle", "writing"}
        /\ pc'[h] = "writing" => Doing(todo'[h], action'[h])
        /\ handle'[h] # "none" => pc'[h] = "writing" /\ ~Head(todo'[h]).atomic
  BY <1>3
<1>5. /\ pc["dialog"] # "writing"
      /\ pc["dialog"] # "idle" =>
            action["dialog"].name = "delete" /\ action["dialog"].account \in Accounts
  BY DEF Roles
<1> QED BY <1>2, <1>4, <1>5 DEF Roles

\* Whatever happens to the files, or to nothing, while the dialog stays where it is.
LEMMA DeletingKept ==
    ASSUME Deleting, pc'["dialog"] = pc["dialog"], action'["dialog"] = action["dialog"],
           (\E fs, hs : Becomes(fs, hs)) \/ UNCHANGED <<file, throughout>>
    PROVE  Deleting'
<1>1. CASE UNCHANGED <<file, throughout>>
  BY <1>1 DEF Deleting, DeleteProtects, InUse
<1>2. CASE \E fs, hs : Becomes(fs, hs)
  <2>1. throughout' = throughout \cap InUse(file', action["dialog"].account)
    BY <1>2 DEF Becomes
  <2>2. \A id : InUse(file, id)' = InUse(file', id)
    BY DEF InUse
  <2> QED BY <2>1, <2>2 DEF Deleting, DeleteProtects
<1> QED BY <1>1, <1>2

\* The clicks that change the credential stay where they are, and so do its files.
LEMMA MovingKept ==
    ASSUME Roles, Moving, UNCHANGED settled,
           \A h \in Clicks : Changing(h)' =>
                /\ Changing(h) /\ action'[h] = action[h] /\ todo'[h] = todo[h]
                /\ handle'[h] = handle[h],
           \A f \in {AuthJSON, ActiveJSON, KeyFile} : file'[f] = file[f]
    PROVE  Moving'
<1>1. Alone' /\ SwitchIsComplete'
  BY DEF Moving, Alone, SwitchIsComplete
<1>2. ASSUME settled # Disturbed, NEW g \in Clicks, Changing(g)', action'[g].name = "switch",
             Len(todo'[g]) < 3
      PROVE  /\ file'[AuthJSON] = Credential(todo'[g])
             /\ Len(todo'[g]) = 1 => file'[ActiveJSON] = <<action'[g].account>>
             /\ handle'[g] # "none" =>
                    handle'[g] = "open" /\ file'[Head(todo'[g]).file] = Torn
  <2>1. /\ Changing(g) /\ action'[g] = action[g] /\ todo'[g] = todo[g]
        /\ handle'[g] = handle[g]
    BY <1>2
  <2>2. /\ file[AuthJSON] = Credential(todo[g])
        /\ Len(todo[g]) = 1 => file[ActiveJSON] = <<action[g].account>>
        /\ handle[g] # "none" => handle[g] = "open" /\ file[Head(todo[g]).file] = Torn
    BY <1>2, <2>1 DEF Moving, Progress
  <2>3. Head(todo[g]).file \in {AuthJSON, ActiveJSON, KeyFile}
    <3>1. action[g].account \in Accounts /\ SwitchLeft(todo[g], action[g].account)
      BY <1>2, <2>1 DEF Roles, Doing, Changing
    <3> QED BY <3>1, SwitchList
  <2> QED BY <2>1, <2>2, <2>3
<1>3. Progress'
  BY <1>2 DEF Progress
<1> QED BY <1>1, <1>3 DEF Moving

\* Nothing is promised of what has been disturbed.
LEMMA MovingDisturbed == settled' = Disturbed => Moving'
  BY RecordsLemma DEF Moving, Alone, Progress, SwitchIsComplete

\* Requests do not notice.
LEMMA RequestsKept ==
    ASSUME Types, Requests, LoggingOut' => LoggingOut,
           \/ UNCHANGED request /\ file'[AuthJSON] = file[AuthJSON]
           \/ /\ \E fs, hs : Becomes(fs, hs)
              /\ file'[AuthJSON] = file[AuthJSON] \/ file'[AuthJSON] \in Creds \/ LoggingOut
    PROVE  Requests'
<1>1. CASE UNCHANGED request /\ file'[AuthJSON] = file[AuthJSON]
  BY <1>1 DEF Requests, RequestIsSeamless
<1>2. CASE /\ \E fs, hs : Becomes(fs, hs)
           /\ file'[AuthJSON] = file[AuthJSON] \/ file'[AuthJSON] \in Creds \/ LoggingOut
  <2>1. request' = IF request.at = "arrived" /\ request.safe
                   THEN [request EXCEPT !.installed = @ \cup ({file'[AuthJSON]} \cap Creds)]
                   ELSE request
    BY <1>2 DEF Becomes
  <2>2. request \in Asked
    BY DEF Types
  <2>3. CASE request.at = "arrived" /\ request.safe
    <3>1. /\ request'.at = "arrived" /\ request'.safe
          /\ request'.installed = request.installed \cup ({file'[AuthJSON]} \cap Creds)
      BY <2>1, <2>2, <2>3 DEF Asked
    <3>2. file[AuthJSON] \in Creds /\ file[AuthJSON] \in request.installed /\ ~LoggingOut
      BY <2>3 DEF Requests
    <3>3. file'[AuthJSON] \in Creds /\ file'[AuthJSON] \in request'.installed
      BY <1>2, <3>1, <3>2
    <3> QED BY <3>1, <3>2, <3>3 DEF Requests, RequestIsSeamless
  <2>4. CASE ~(request.at = "arrived" /\ request.safe)
    <3>1. request' = request
      BY <2>1, <2>4
    <3> QED BY <2>4, <3>1 DEF Requests, RequestIsSeamless
  <2> QED BY <2>3, <2>4
<1> QED BY <1>1, <1>2

\* A click that goes on, stays, ends, or starts to write does not begin to log out.
LEMMA LoggingKept ==
    ASSUME NEW g \in Clicks, Others(g),
           pc'[g] = "writing" /\ Head(todo'[g]) = Remove(AuthJSON) =>
                pc[g] = "writing" /\ Head(todo[g]) = Remove(AuthJSON)
    PROVE  LoggingOut' => LoggingOut
<1> SUFFICES ASSUME LoggingOut' PROVE LoggingOut
  OBVIOUS
<1>1. PICK h \in Clicks : pc'[h] = "writing" /\ Head(todo'[h]) = Remove(AuthJSON)
  BY DEF LoggingOut, Remove, Whole, None
<1>2. CASE h = g
  BY <1>1, <1>2 DEF LoggingOut
<1>3. CASE h # g
  <2>1. pc'[h] = pc[h] /\ todo'[h] = todo[h]
    BY <1>3, ClicksLemma DEF Others
  <2> QED BY <1>1, <2>1 DEF LoggingOut
<1> QED BY <1>2, <1>3

\* No other click changes the credential besides one whose way is not disturbed.
LEMMA AloneClick ==
    ASSUME Moving, NEW g \in Clicks, Changing(g), settled # Disturbed
    PROVE  /\ settled = NoAction /\ \A h \in Clicks : Changing(h) => h = g
  BY DEF Moving, Alone

LEMMA OpenTorn ==
    ASSUME Types, Roles, Moving, settled # Disturbed, NEW g \in Clicks, Changing(g),
           handle[g] = "open"
    PROVE  file[Head(todo[g]).file] = Torn
<1>1. pc[g] = "writing" /\ Doing(todo[g], action[g]) /\ ~Head(todo[g]).atomic
  BY AtHand DEF Changing
<1>2. CASE action[g].name = "switch" /\ SwitchLeft(todo[g], action[g].account)
           /\ action[g].account \in Accounts
  <2>1. Len(todo[g]) \in {1, 2, 3} /\ Len(todo[g]) # 3
    BY <1>1, <1>2, SwitchList
  <2>2. Len(todo[g]) < 3
    BY <2>1, SMTT(60)
  <2> QED BY <1>2, <2>2 DEF Moving, Progress
<1>3. CASE action[g].name = "deactivate" /\ LogoutLeft(todo[g])
  BY <1>1, <1>3, LogoutList
<1> QED BY <1>1, <1>2, <1>3 DEF Doing, Changing

LEMMA ChangingOthers ==
    ASSUME NEW g \in Clicks, Others(g)
    PROVE  \A h \in Clicks \ {g} : /\ Changing(h)' <=> Changing(h)
                                  /\ action'[h] = action[h] /\ todo'[h] = todo[h]
  BY ClicksLemma DEF Others, Changing

-----------------------------------------------------------------------------
(* The steps of a click *)

LEMMA TruncateInv == ASSUME IInv, NEW g \in Clicks, Truncate(g) PROVE IInv'
<1> DEFINE op == Head(todo[g])
<1>1. Types /\ Roles /\ Moving /\ Sorted /\ Deleting /\ Requests
  BY DEF IInv
<1>2. /\ pc[g] = "writing" /\ ~op.atomic /\ handle[g] = "none" /\ handle'[g] = "open"
      /\ handle' \in Handled /\ file' \in [Files -> Contents] /\ file'[op.file] = Torn
      /\ \A f \in Files : f # op.file => file'[f] = file[f]
      /\ \A h \in Clicks \ {g} : Shut(h)
      /\ \E fs, hs : Becomes(fs, hs)
      /\ request' \in Asked /\ UNCHANGED <<pc, action, todo, settled, hurt, used>>
  BY <1>1, TruncateEffect
<1>3. Doing(todo[g], action[g]) /\ op.file \in Files /\ op \in Operations
  BY <1>1, <1>2, AtHand
<1>4. op.file # AuthJSON /\ (op.file \in PerAccount <=> action[g].name = "save")
  BY <1>2, <1>3, DoingList
<1> HIDE DEF op
<1>5. Types'
  BY <1>1, <1>2 DEF Types, ControlTypes
<1>6. Roles'
  <2>1. \A h \in Clicks : handle'[h] # "none" =>
            pc[h] = "writing" /\ ~Head(todo[h]).atomic
    BY <1>1, <1>2 DEF Roles, Shut, op
  <2> QED BY <1>1, <1>2, <2>1 DEF Roles
<1>7. Sorted'
  <2>1. \A id \in Accounts : file'[Saved(id)] \in {file[Saved(id)], Torn}
    BY <1>2, FilesLemma
  <2> QED BY <1>1, <2>1, CredsLemma DEF Sorted
<1>8. Deleting' /\ Requests'
  <2>1. file'[AuthJSON] = file[AuthJSON]
    BY <1>2, <1>4, FilesLemma
  <2>2. LoggingOut' => LoggingOut
    BY <1>2 DEF LoggingOut
  <2> QED BY <1>1, <1>2, <2>1, <2>2, DeletingKept, RequestsKept
<1>9. \A h \in Clicks : Changing(h)' <=> Changing(h)
  BY <1>2 DEF Changing
<1>10. Moving'
  <2>1. CASE settled = Disturbed
    BY <1>2, <2>1, MovingDisturbed
  <2>2. CASE settled # Disturbed /\ action[g].name = "save"
    <3>1. \A f \in {AuthJSON, ActiveJSON, KeyFile} : file'[f] = file[f]
      BY <1>2, <1>4, <2>2, FilesLemma
    <3>2. ASSUME NEW h \in Clicks, Changing(h) PROVE handle'[h] = handle[h]
      <4>1. h # g /\ action[h].name \in {"switch", "deactivate"} /\ pc[h] = "writing"
        BY <2>2, <3>2 DEF Changing
      <4>2. Head(todo[h]).file \in Files /\ Head(todo[h]).file \notin PerAccount
        <5>1. Doing(todo[h], action[h]) /\ Head(todo[h]).file \in Files
          BY <1>1, <4>1, AtHand
        <5> QED BY <4>1, <5>1, DoingList
      <4>3. file'[Head(todo[h]).file] = file[Head(todo[h]).file]
        BY <1>2, <1>4, <2>2, <4>2
      <4>4. handle[h] = "open" => file[Head(todo[h]).file] # None
        BY <1>1, <2>2, <3>2, OpenTorn, AccountFiles
      <4> QED BY <1>2, <4>1, <4>3, <4>4 DEF Shut
    <3> QED BY <1>1, <1>2, <1>9, <3>1, <3>2, MovingKept
  <2>3. CASE settled # Disturbed /\ action[g].name # "save"
    <3>1. Changing(g) /\ action[g].name = "switch" /\ action[g].account \in Accounts
          /\ SwitchLeft(todo[g], action[g].account)
      BY <1>2, <1>3, <2>3, LogoutList DEF Doing, Changing, op
    <3>2. settled = NoAction /\ \A h \in Clicks : Changing(h) => h = g
      BY <1>1, <2>3, <3>1, AloneClick
    <3>3. op.file \in {ActiveJSON, KeyFile} /\ (Len(todo[g]) = 1 => op.file = KeyFile)
      BY <1>2, <3>1, SwitchList DEF op
    <3>4. /\ file'[AuthJSON] = file[AuthJSON]
          /\ Len(todo[g]) = 1 => file'[ActiveJSON] = file[ActiveJSON]
      BY <1>2, <3>3, FilesLemma
    <3>5. Alone' /\ SwitchIsComplete'
      BY <1>2, <1>9, <3>2, RecordsLemma DEF Alone, SwitchIsComplete
    <3>6. Progress'
      <4>1. ASSUME NEW h \in Clicks, Changing(h)', action'[h].name = "switch", Len(todo'[h]) < 3
            PROVE  /\ file'[AuthJSON] = Credential(todo'[h])
                   /\ Len(todo'[h]) = 1 => file'[ActiveJSON] = <<action'[h].account>>
                   /\ handle'[h] # "none" =>
                        handle'[h] = "open" /\ file'[Head(todo'[h]).file] = Torn
        <5>1. h = g
          BY <1>9, <3>2, <4>1
        <5>2. /\ file[AuthJSON] = Credential(todo[g])
              /\ Len(todo[g]) = 1 => file[ActiveJSON] = <<action[g].account>>
          BY <1>1, <1>2, <2>3, <3>1, <4>1, <5>1 DEF Moving, Progress
        <5> QED BY <1>2, <3>4, <5>1, <5>2 DEF op
      <4> QED BY <4>1 DEF Progress
    <3> QED BY <3>5, <3>6 DEF Moving
  <2> QED BY <2>1, <2>2, <2>3
<1> QED BY <1>5, <1>6, <1>7, <1>8, <1>10 DEF IInv

\* A deactivation goes on or ends, whatever its operation did to the files.
LEMMA LogoutMoves ==
    ASSUME Types, Roles, Moving, NEW g \in Clicks, Changing(g), Others(g), Advance(g),
           action[g].name = "deactivate"
    PROVE  Moving'
<1>1. pc[g] = "writing"
  BY DEF Changing
<1>2. /\ settled' \in Actions
      /\ Len(todo[g]) = 1 => pc'[g] = "idle" /\ Succeeds(g)
      /\ Len(todo[g]) # 1 => /\ pc'[g] = "writing" /\ action'[g] = action[g]
                             /\ UNCHANGED settled
  BY <1>1, AdvanceEffect
<1>3. CASE settled = Disturbed
  <2>1. settled' = Disturbed
    BY <1>2, <1>3 DEF Succeeds
  <2> QED BY <2>1, MovingDisturbed
<1>4. CASE settled # Disturbed
  <2>1. settled = NoAction /\ \A h \in Clicks : Changing(h) => h = g
    BY <1>4, AloneClick
  <2>2. \A h \in Clicks : Changing(h)' => h = g
    BY <2>1, ChangingOthers
  <2>3. CASE Len(todo[g]) = 1
    <3>1. ~Changing(g)'
      BY <1>2, <2>3 DEF Changing
    <3>2. settled' = action[g]
      BY <1>2, <1>4, <2>3 DEF Succeeds
    <3> QED BY <2>2, <3>1, <3>2 DEF Moving, Alone, Progress, SwitchIsComplete
  <2>4. CASE Len(todo[g]) # 1
    <3>1. settled' = NoAction /\ action'[g].name # "switch"
      BY <1>2, <2>1, <2>4
    <3> QED BY <2>2, <3>1, RecordsLemma DEF Moving, Alone, Progress, SwitchIsComplete
  <2> QED BY <2>3, <2>4
<1> QED BY <1>3, <1>4

\* A switch goes on or ends.
LEMMA SwitchMoves ==
    ASSUME Types, Roles, Moving, NEW g \in Clicks, Operate(g), action[g].name = "switch"
    PROVE  Moving'
<1> DEFINE op == Head(todo[g])
           c == Credential(todo[g])
           id == action[g].account
<1>1. /\ pc[g] = "writing" /\ (op.atomic \/ handle[g] # "none") /\ Advance(g)
      /\ handle'[g] = "none"
      /\ handle[g] # "gone" /\ (op.atomic \/ file[op.file] \in {Torn, op.content})
            => file'[op.file] = op.content
      /\ \A f \in Files : f # op.file => file'[f] = file[f]
  BY OperateEffect
<1>2. /\ Others(g)
      /\ Len(todo[g]) = 1 => pc'[g] = "idle" /\ Succeeds(g)
      /\ Len(todo[g]) # 1 => /\ pc'[g] = "writing" /\ action'[g] = action[g]
                             /\ todo'[g] = Tail(todo[g])
                             /\ UNCHANGED settled
  BY <1>1, AdvanceEffect
<1>3. Changing(g) /\ id \in Accounts /\ SwitchLeft(todo[g], id)
  BY <1>1, AtHand DEF Doing, Changing
<1>4. /\ Len(todo[g]) \in {1, 2, 3}
      /\ Len(todo[g]) = 3 => op.file = AuthJSON /\ op.content = c /\ op.atomic = TRUE
      /\ Len(todo[g]) = 2 => op.file = ActiveJSON /\ op.content = <<id>> /\ op.atomic = FALSE
      /\ Len(todo[g]) = 1 => op.file = KeyFile /\ op.content = c /\ op.atomic = FALSE
      /\ Len(todo[g]) # 1 => /\ Len(Tail(todo[g])) = Len(todo[g]) - 1
                             /\ Credential(Tail(todo[g])) = c
  BY <1>3, SwitchList
<1>5. c \in Creds /\ AccountOf(c) = id
  BY <1>3 DEF SwitchLeft
<1> HIDE DEF op, c, id
<1>6. CASE settled = Disturbed
  <2>1. settled' = Disturbed
    BY <1>2, <1>6 DEF Succeeds
  <2> QED BY <2>1, MovingDisturbed
<1>7. CASE settled # Disturbed
  <2>1. settled = NoAction /\ \A h \in Clicks : Changing(h) => h = g
    BY <1>3, <1>7, AloneClick
  <2>2. \A h \in Clicks : Changing(h)' => h = g
    BY <2>1, <1>2, ChangingOthers
  <2>3. Len(todo[g]) < 3 =>
            /\ file[AuthJSON] = c
            /\ Len(todo[g]) = 1 => file[ActiveJSON] = <<id>>
            /\ handle[g] # "none" => handle[g] = "open" /\ file[op.file] = Torn
    BY <1>3, <1>7 DEF Moving, Progress, op, c, id
  <2>4. file'[op.file] = op.content
    <3>1. CASE Len(todo[g]) = 3
      <4>1. handle[g] # "gone"
        BY <1>1, <1>4, <3>1, AtHand DEF op
      <4> QED BY <1>1, <1>4, <3>1, <4>1
    <3>2. CASE Len(todo[g]) # 3
      <4>1. Len(todo[g]) \in {1, 2, 3} /\ Len(todo[g]) # 3
        BY <1>4, <3>2
      <4>2. Len(todo[g]) < 3
        <5>1. \A n \in {1, 2, 3} : n # 3 => n < 3
          OBVIOUS
        <5> QED BY <4>1, <5>1, Zenon
      <4>3. op.atomic = FALSE
        BY <1>4, <4>1
      <4> QED BY <1>1, <2>3, <4>2, <4>3
    <3> QED BY <3>1, <3>2
  <2>5. CASE Len(todo[g]) # 1
    <3>1. /\ settled' = NoAction /\ todo'[g] = Tail(todo[g]) /\ action'[g] = action[g]
          /\ Len(todo'[g]) = Len(todo[g]) - 1 /\ Credential(todo'[g]) = c
      BY <1>2, <1>4, <2>1, <2>5
    <3>2. file'[AuthJSON] = c /\ (Len(todo'[g]) = 1 => file'[ActiveJSON] = <<id>>)
      <4>1. CASE Len(todo[g]) = 3
        <5>1. Len(todo'[g]) # 1
          BY <3>1, <4>1, SMTT(60)
        <5>2. op.file = AuthJSON /\ op.content = c
          BY <1>4, <4>1
        <5> QED BY <2>4, <5>1, <5>2
      <4>2. CASE Len(todo[g]) = 2
        BY <1>1, <1>4, <2>3, <2>4, <4>2, FilesLemma
      <4> QED BY <1>4, <2>5, <4>1, <4>2
    <3>3. Progress'
      BY <1>1, <2>2, <3>1, <3>2 DEF Progress, id
    <3> QED BY <2>2, <3>1, <3>3, RecordsLemma DEF Moving, Alone, SwitchIsComplete
  <2>6. CASE Len(todo[g]) = 1
    <3>1. ~Changing(g)' /\ settled' = action[g]
      BY <1>2, <1>3, <1>7, <2>6 DEF Succeeds, Changing
    <3>2. file'[KeyFile] = c /\ file'[AuthJSON] = c /\ file'[ActiveJSON] = <<id>>
      BY <1>1, <1>4, <2>3, <2>4, <2>6, FilesLemma
    <3> QED BY <1>5, <2>2, <3>1, <3>2 DEF Moving, Alone, Progress, SwitchIsComplete, id
  <2> QED BY <2>5, <2>6
<1> QED BY <1>6, <1>7

\* A save does not touch the credential in use.
LEMMA SaveMoves ==
    ASSUME Types, Roles, Moving, NEW g \in Clicks, Operate(g), action[g].name = "save"
    PROVE  Moving'
<1> DEFINE op == Head(todo[g])
<1>1. /\ pc[g] = "writing" /\ Advance(g) /\ op.file \in PerAccount
      /\ \A f \in Files : f # op.file => file'[f] = file[f]
      /\ \A h \in Clicks \ {g} : Shut(h)
  <2>1. pc[g] = "writing" /\ Advance(g)
    BY OperateEffect
  <2>2. Doing(todo[g], action[g])
    BY <2>1, AtHand
  <2> QED BY <2>1, <2>2, OperateEffect, DoingList
<1> HIDE DEF op
<1>2. Others(g) /\ ~Changing(g) /\ ~Changing(g)' /\ UNCHANGED settled
  <2>1. /\ Others(g)
        /\ Len(todo[g]) = 1 => pc'[g] = "idle" /\ Succeeds(g)
        /\ Len(todo[g]) # 1 => action'[g] = action[g] /\ UNCHANGED settled
    BY <1>1, AdvanceEffect
  <2> QED BY <2>1 DEF Succeeds, Changing
<1>3. \A f \in {AuthJSON, ActiveJSON, KeyFile} : file'[f] = file[f]
  BY <1>1, FilesLemma
<1>4. ASSUME settled # Disturbed, NEW h \in Clicks, Changing(h)'
      PROVE  /\ Changing(h) /\ action'[h] = action[h] /\ todo'[h] = todo[h]
             /\ handle'[h] = handle[h]
  <2>1. h # g
    BY <1>2, <1>4
  <2>2. Changing(h) /\ action'[h] = action[h] /\ todo'[h] = todo[h]
    BY <1>2, <1>4, <2>1, ChangingOthers
  <2>3. pc[h] = "writing" /\ action[h].name # "save"
    BY <2>2 DEF Changing
  <2>4. Head(todo[h]).file \in Files /\ Head(todo[h]).file \notin PerAccount
    <3>1. Doing(todo[h], action[h]) /\ Head(todo[h]).file \in Files
      BY <2>3, AtHand
    <3> QED BY <2>3, <3>1, DoingList
  <2>5. file'[Head(todo[h]).file] = file[Head(todo[h]).file]
    BY <1>1, <2>4
  <2>6. handle[h] = "open" => file[Head(todo[h]).file] # None
    BY <1>4, <2>2, OpenTorn, AccountFiles
  <2> QED BY <1>1, <2>1, <2>2, <2>5, <2>6 DEF Shut
<1>5. CASE settled = Disturbed
  BY <1>2, <1>5, MovingDisturbed
<1> QED BY <1>2, <1>3, <1>4, <1>5, MovingKept

LEMMA OperateInv == ASSUME IInv, NEW g \in Clicks, Operate(g) PROVE IInv'
<1> DEFINE op == Head(todo[g])
<1>1. Types /\ Roles /\ Moving /\ Sorted /\ Deleting /\ Requests
  BY DEF IInv
<1>2. /\ pc[g] = "writing" /\ (op.atomic \/ handle[g] # "none")
      /\ handle'[g] = "none" /\ handle' \in Handled /\ file' \in [Files -> Contents]
      /\ file'[op.file] \in {op.content, Mixed, file[op.file]}
      /\ handle[g] # "gone" /\ op.atomic => file'[op.file] = op.content
      /\ \A f \in Files : f # op.file => file'[f] = file[f]
      /\ \A h \in Clicks \ {g} : Shut(h)
      /\ \E fs, hs : Becomes(fs, hs)
      /\ request' \in Asked /\ Advance(g) /\ UNCHANGED used
  BY <1>1, OperateEffect
<1>3. /\ ControlTypes' /\ Others(g) /\ settled' \in Actions
      /\ Len(todo[g]) = 1 => pc'[g] = "idle" /\ Succeeds(g)
      /\ Len(todo[g]) # 1 => /\ pc'[g] = "writing" /\ action'[g] = action[g]
                             /\ Doing(todo'[g], action'[g])
                             /\ Len(todo'[g]) = Len(todo[g]) - 1
  BY <1>1, <1>2, AdvanceEffect
<1>4. /\ Doing(todo[g], action[g]) /\ (op.atomic => handle[g] = "none")
      /\ Len(todo[g]) \in {1, 2, 3}
  BY <1>1, <1>2, AtHand
<1>5. Types' /\ Roles'
  BY <1>1, <1>2, <1>3, ClickRoles DEF Types
<1>6. Moving'
  <2>1. CASE action[g].name = "switch"
    BY <1>1, <2>1, SwitchMoves
  <2>2. CASE action[g].name = "deactivate"
    <3>1. Changing(g)
      BY <1>2, <2>2 DEF Changing
    <3> QED BY <1>1, <1>2, <1>3, <2>2, <3>1, LogoutMoves
  <2>3. CASE action[g].name = "save"
    BY <1>1, <2>3, SaveMoves
  <2> QED BY <1>4, <2>1, <2>2, <2>3 DEF Doing
<1>7. Sorted'
  <2> SUFFICES ASSUME NEW id \in Accounts, file'[Saved(id)] \in Creds
               PROVE  AccountOf(file'[Saved(id)]) = id
    BY DEF Sorted
  <2>1. Saved(id) \in Files
    BY FilesLemma
  <2>2. CASE op.file = Saved(id)
    <3>1. op.content \in Creds /\ AccountOf(op.content) = id
      BY <1>4, <2>2, DoingList
    <3> QED BY <1>1, <1>2, <2>2, <3>1, CredsLemma DEF Sorted
  <2>3. CASE op.file # Saved(id)
    BY <1>1, <1>2, <2>1, <2>3 DEF Sorted
  <2> QED BY <2>2, <2>3
<1>8. Deleting'
  BY <1>1, <1>2, <1>3, ClicksLemma, DeletingKept DEF Others
<1>9. Requests'
  <2>1. pc'[g] = "writing" /\ Head(todo'[g]) = Remove(AuthJSON) => FALSE
    <3> SUFFICES ASSUME pc'[g] = "writing", Head(todo'[g]) = Remove(AuthJSON) PROVE FALSE
      OBVIOUS
    <3>1. Doing(todo'[g], action'[g]) /\ Len(todo'[g]) = Len(todo[g]) - 1
      BY <1>3
    <3>2. Len(todo'[g]) = 3
      BY <3>1, DoingList
    <3>3. \A n \in {1, 2, 3} : n - 1 # 3
      OBVIOUS
    <3> QED BY <1>4, <3>1, <3>2, <3>3, Zenon
  <2>2. LoggingOut' => LoggingOut
    BY <1>3, <2>1, LoggingKept
  <2>3. file'[AuthJSON] = file[AuthJSON] \/ file'[AuthJSON] \in Creds \/ LoggingOut
    <3>1. CASE op.file = AuthJSON
      <4>1. op.atomic = TRUE /\ (op = Remove(AuthJSON) \/ op.content \in Creds)
        BY <1>4, <3>1, DoingList
      <4>2. file'[AuthJSON] = op.content
        BY <1>2, <1>4, <3>1, <4>1
      <4> QED BY <1>2, <4>1, <4>2 DEF LoggingOut
    <3>2. CASE op.file # AuthJSON
      BY <1>2, <3>2, FilesLemma
    <3> QED BY <3>1, <3>2
  <2> QED BY <1>1, <1>2, <2>2, <2>3, RequestsKept
<1> QED BY <1>5, <1>6, <1>7, <1>8, <1>9 DEF IInv

LEMMA OperateFailsInv == ASSUME IInv, NEW g \in Clicks, OperateFails(g) PROVE IInv'
<1>1. Types /\ Roles /\ Moving /\ Sorted /\ Deleting /\ Requests
  BY DEF IInv
<1>2. /\ pc[g] = "writing" /\ handle' \in Handled /\ handle'[g] = "none"
      /\ \A h \in Clicks \ {g} : handle'[h] = handle[h]
      /\ UNCHANGED <<file, request, throughout>> /\ used' \in Usage
      /\ Fails(g) \/ (action[g].name = "deactivate" /\ Advance(g))
  BY <1>1, FailsEffect
<1>3. g \in Goroutines /\ Len(todo[g]) \in {1, 2, 3}
  BY <1>1, <1>2, AtHand
<1>4. /\ ControlTypes' /\ Others(g) /\ settled' \in Actions
      /\ \/ pc'[g] = "idle"
         \/ /\ pc'[g] = "writing" /\ Doing(todo'[g], action'[g])
            /\ Len(todo'[g]) = Len(todo[g]) - 1
  <2>1. CASE Fails(g)
    <3>1. Idle(g) /\ UNCHANGED settled
      BY <2>1 DEF Fails
    <3> QED BY <1>1, <1>3, <3>1, IdleEffect DEF Types
  <2>2. CASE Advance(g)
    BY <1>1, <1>2, <2>2, AdvanceEffect
  <2> QED BY <1>2, <2>1, <2>2
<1>5. Types' /\ Roles' /\ Sorted' /\ Deleting'
  <2>1. Types' /\ Roles'
    BY <1>1, <1>2, <1>4, ClickRoles DEF Types
  <2>2. Sorted'
    BY <1>1, <1>2 DEF Sorted
  <2>3. Deleting'
    BY <1>1, <1>2, <1>4, ClicksLemma, DeletingKept DEF Others
  <2> QED BY <2>1, <2>2, <2>3
<1>6. Moving'
  <2>1. CASE Fails(g)
    <3>1. pc'[g] = "idle" /\ UNCHANGED settled
      BY <1>1, <1>3, <2>1, IdleEffect DEF Fails
    <3>2. \A h \in Clicks : Changing(h)' => h # g
      BY <3>1 DEF Changing
    <3> QED BY <1>1, <1>2, <1>4, <3>1, <3>2, ChangingOthers, MovingKept
  <2>2. CASE action[g].name = "deactivate" /\ Advance(g)
    <3>1. Changing(g)
      BY <1>2, <2>2 DEF Changing
    <3> QED BY <1>1, <1>4, <2>2, <3>1, LogoutMoves
  <2> QED BY <1>2, <2>1, <2>2
<1>7. Requests'
  <2>1. pc'[g] = "writing" /\ Head(todo'[g]) = Remove(AuthJSON) => FALSE
    <3> SUFFICES ASSUME pc'[g] = "writing", Head(todo'[g]) = Remove(AuthJSON) PROVE FALSE
      OBVIOUS
    <3>1. Doing(todo'[g], action'[g]) /\ Len(todo'[g]) = Len(todo[g]) - 1
      BY <1>4
    <3>2. Len(todo'[g]) = 3
      BY <3>1, DoingList
    <3>3. \A n \in {1, 2, 3} : n - 1 # 3
      OBVIOUS
    <3> QED BY <1>3, <3>1, <3>2, <3>3, Zenon
  <2>2. LoggingOut' => LoggingOut
    BY <1>4, <2>1, LoggingKept
  <2> QED BY <1>1, <1>2, <2>2, RequestsKept
<1> QED BY <1>5, <1>6, <1>7 DEF IInv

-----------------------------------------------------------------------------
(* A click begins *)

LEMMA ClickBegins ==
    ASSUME IInv, NEW g \in Clicks, NEW name \in {"switch", "deactivate", "save"},
           NEW id \in Accounts \cup {"none"}, Begins(g, name, id),
           NEW ops, Doing(ops, [name |-> name, account |-> id]), Plans(g, ops),
           request' \in Asked
    PROVE  /\ Types' /\ Roles' /\ Deleting' /\ Sorted' /\ Others(g)
           /\ pc[g] = "idle" /\ ~Changing(g) /\ handle'[g] = "none"
           /\ pc'[g] = "writing" /\ action'[g] = [name |-> name, account |-> id]
           /\ todo'[g] = ops /\ UNCHANGED <<file, handle>>
<1> DEFINE a == [name |-> name, account |-> id]
<1>1. Types /\ Roles /\ Sorted /\ Deleting
  BY DEF IInv
<1>2. g \in Goroutines /\ "dialog" \in Goroutines \ {g} /\ a \in Actions /\ ops \in Seq(Operations)
  BY ClicksLemma, RecordsLemma, DoingList DEF Names
<1>3. /\ pc[g] = "idle" /\ pc' = [pc EXCEPT ![g] = "writing"]
      /\ action' = [action EXCEPT ![g] = a] /\ todo' = [todo EXCEPT ![g] = ops]
      /\ UNCHANGED <<file, handle, throughout>>
  BY DEF Begins, Plans
<1>4. settled' \in Actions /\ used' \in Usage
  <2>1. settled' \in {settled, Disturbed, NoAction} /\ used' = [used EXCEPT !.actions = @ + 1]
    BY DEF Begins
  <2> QED BY <1>1, <2>1, RecordsLemma, UsageLemma DEF Types
<1>5. pc \in [Goroutines -> Steps] /\ action \in [Goroutines -> Actions]
      /\ todo \in [Goroutines -> Seq(Operations)]
  BY <1>1 DEF Types, ControlTypes
<1> HIDE DEF a
<1>6. /\ pc' \in [Goroutines -> Steps] /\ pc'[g] = "writing"
      /\ \A h \in Goroutines \ {g} : pc'[h] = pc[h]
  BY <1>2, <1>3, <1>5 DEF Steps
<1>7. /\ action' \in [Goroutines -> Actions] /\ action'[g] = a
      /\ \A h \in Goroutines \ {g} : action'[h] = action[h]
  BY <1>2, <1>3, <1>5
<1>8. /\ todo' \in [Goroutines -> Seq(Operations)] /\ todo'[g] = ops
      /\ \A h \in Goroutines \ {g} : todo'[h] = todo[h]
  BY <1>2, <1>3, <1>5
<1>9. Others(g) /\ Types'
  BY <1>1, <1>3, <1>4, <1>6, <1>7, <1>8 DEF Others, Types, ControlTypes
<1>10. handle[g] = "none" /\ handle'[g] = "none"
  BY <1>1, <1>3 DEF Roles
<1>11. Doing(todo'[g], action'[g])
  BY <1>7, <1>8 DEF a
<1>12. Roles'
  BY <1>1, <1>3, <1>6, <1>9, <1>10, <1>11, ClickRoles
<1>13. Deleting' /\ Sorted'
  BY <1>1, <1>2, <1>3, <1>6, <1>7, DeletingKept DEF Sorted
<1> QED BY <1>3, <1>6, <1>7, <1>8, <1>9, <1>10, <1>12, <1>13 DEF Changing, a

\* A change of the credential begins, with its first operation ahead of it.
LEMMA ChangeBegins ==
    ASSUME Moving, NEW g \in Clicks, NEW name \in {"switch", "deactivate"}, NEW id,
           Begins(g, name, id), Others(g), ~Changing(g), Len(todo'[g]) = 3
    PROVE  Moving'
<1>1. settled' = IF \E h \in Clicks : Changing(h) THEN Disturbed ELSE NoAction
  BY DEF Begins
<1>2. CASE \E h \in Clicks : Changing(h)
  BY <1>1, <1>2, MovingDisturbed
<1>3. CASE \A h \in Clicks : ~Changing(h)
  <2>1. settled' = NoAction
    BY <1>1, <1>3
  <2>2. \A h \in Clicks : Changing(h)' => h = g
    BY <1>3, ChangingOthers
  <2>3. ~(Len(todo'[g]) < 3)
    <3>1. \A n : n = 3 => ~(n < 3)
      OBVIOUS
    <3> QED BY <3>1, Zenon
  <2>4. Progress'
    BY <2>2, <2>3 DEF Progress
  <2> QED BY <2>1, <2>2, <2>4, RecordsLemma DEF Moving, Alone, SwitchIsComplete
<1> QED BY <1>2, <1>3

LEMMA SwitchToInv ==
    ASSUME IInv, NEW g \in Clicks, NEW id \in Accounts, SwitchTo(g, id)
    PROVE  IInv'
<1>1. PICK c \in Creds : /\ c = file[Saved(id)] /\ Begins(g, "switch", id)
                         /\ Plans(g, SwitchOps(id, c)) /\ UNCHANGED request
  BY DEF SwitchTo
<1> DEFINE ops == SwitchOps(id, c)
           a == [name |-> "switch", account |-> id]
<1>2. AccountOf(c) = id
  BY <1>1 DEF IInv, Sorted
<1>3. SwitchLeft(ops, id) /\ Len(ops) = 3
  <2> DEFINE x == Install(c) y == Write(ActiveJSON, <<id>>) z == Write(KeyFile, c)
  <2>1. x \in Operations /\ y \in Operations /\ z \in Operations
    BY CredsLemma, OpsLemma, FilesLemma DEF Install
  <2>2. ops = <<x, y, z>> /\ z.content = c
    BY OpsLemma DEF SwitchOps
  <2> HIDE DEF x, y, z, ops
  <2>3. Credential(ops) = c /\ Len(ops) = 3
    BY <2>1, <2>2, ThreeSteps
  <2> QED BY <1>2, <2>3 DEF SwitchLeft, ops
<1>4. a.name = "switch" /\ a.account = id
  OBVIOUS
<1>5. Doing(ops, a)
  BY <1>3, <1>4 DEF Doing
<1>6. request' \in Asked
  BY <1>1 DEF IInv, Types
<1> HIDE DEF ops
<1>7. /\ Types' /\ Roles' /\ Deleting' /\ Sorted' /\ Others(g) /\ ~Changing(g)
      /\ todo'[g] = ops /\ action'[g] = a /\ UNCHANGED file
  BY <1>1, <1>5, <1>6, ClickBegins DEF ops
<1>8. Moving'
  <2>1. Len(todo'[g]) = 3 /\ Moving
    BY <1>3, <1>7 DEF IInv
  <2> QED BY <1>1, <1>7, <2>1, ChangeBegins
<1>9. Requests'
  <2>1. Head(todo'[g]) # Remove(AuthJSON)
    BY <1>4, <1>5, <1>7, DoingList
  <2>2. LoggingOut' => LoggingOut
    BY <1>7, <2>1, LoggingKept
  <2> QED BY <1>1, <1>7, <2>2, RequestsKept DEF IInv
<1> QED BY <1>7, <1>8, <1>9 DEF IInv

LEMMA DeactivateInv == ASSUME IInv, NEW g \in Clicks, Deactivate(g) PROVE IInv'
<1> DEFINE a == [name |-> "deactivate", account |-> "none"]
<1>1. /\ Begins(g, "deactivate", "none") /\ Plans(g, LogoutOps)
      /\ request' = IF request.at = "answered" THEN request
                    ELSE [request EXCEPT !.safe = FALSE, !.installed = {}]
  BY DEF Deactivate, LogoutOps
<1>2. request \in Asked
  BY DEF IInv, Types
<1>3. /\ request' \in Asked /\ request'.at = request.at
      /\ request.at = "answered" => request' = request
      /\ request.at # "answered" => ~request'.safe
  BY <1>1, <1>2 DEF Asked
<1>4. Doing(LogoutOps, a)
  BY DEF Doing, LogoutLeft
<1>5. /\ Types' /\ Roles' /\ Deleting' /\ Sorted' /\ Others(g) /\ ~Changing(g)
      /\ todo'[g] = LogoutOps
  BY <1>1, <1>3, <1>4, ClickBegins
<1>6. Len(LogoutOps) = 3
  BY DEF LogoutOps
<1>7. Moving'
  <2>1. Len(todo'[g]) = 3 /\ Moving
    BY <1>5, <1>6 DEF IInv
  <2> QED BY <1>1, <1>5, <2>1, ChangeBegins
<1>8. Requests'
  <2>1. CASE request.at = "answered"
    BY <1>3, <2>1 DEF IInv, Requests, RequestIsSeamless
  <2>2. CASE request.at # "answered"
    BY <1>3, <2>2 DEF Requests, RequestIsSeamless
  <2> QED BY <2>1, <2>2
<1> QED BY <1>5, <1>7, <1>8 DEF IInv

\* What a save begins with.
LEMMA SaveBegins ==
    ASSUME IInv, NEW g \in Clicks, SaveCurrentCredential(g)
    PROVE  \E c \in Creds :
            /\ c = file[AuthJSON] /\ SaveLeft(PutOps(c), AccountOf(c))
            /\ Len(PutOps(c)) = 3 /\ Credential(PutOps(c)) = c
            /\ Types' /\ Roles' /\ Deleting' /\ Sorted' /\ Others(g)
            /\ pc[g] = "idle" /\ ~Changing(g) /\ handle'[g] = "none"
            /\ pc'[g] = "writing" /\ todo'[g] = PutOps(c)
            /\ action'[g] = [name |-> "save", account |-> AccountOf(c)]
            /\ UNCHANGED <<file, handle, settled, request>>
<1>1. PICK c \in Creds : /\ c = file[AuthJSON] /\ Begins(g, "save", AccountOf(c))
                         /\ Plans(g, PutOps(c)) /\ UNCHANGED request
  BY DEF SaveCurrentCredential
<1> DEFINE id == AccountOf(c)
           ops == PutOps(c)
           a == [name |-> "save", account |-> id]
<1>2. id \in Accounts
  BY CredsLemma
<1>3. SaveLeft(ops, id) /\ Len(ops) = 3 /\ Credential(ops) = c
  <2> DEFINE x == Whole(Dir(id), Made) y == Write(Saved(id), c) z == Write(Meta(id), c)
  <2>1. x \in Operations /\ y \in Operations /\ z \in Operations
    BY <1>2, CredsLemma, OpsLemma, FilesLemma
  <2>2. ops = <<x, y, z>> /\ z.content = c
    BY OpsLemma DEF PutOps
  <2> HIDE DEF x, y, z, ops
  <2>3. Credential(ops) = c /\ Len(ops) = 3
    BY <2>1, <2>2, ThreeSteps
  <2> QED BY <2>3 DEF SaveLeft, ops
<1>4. a.name = "save" /\ a.account = id
  OBVIOUS
<1>5. Doing(ops, a)
  BY <1>2, <1>3, <1>4 DEF Doing
<1>6. request' \in Asked
  BY <1>1 DEF IInv, Types
<1>7. settled' = settled
  BY <1>1 DEF Begins
<1> HIDE DEF ops, id
<1>8. /\ Types' /\ Roles' /\ Deleting' /\ Sorted' /\ Others(g)
      /\ pc[g] = "idle" /\ ~Changing(g) /\ handle'[g] = "none"
      /\ pc'[g] = "writing" /\ action'[g] = a
      /\ todo'[g] = ops /\ UNCHANGED <<file, handle>>
  BY <1>1, <1>2, <1>5, <1>6, ClickBegins DEF ops, id
<1> QED BY <1>1, <1>3, <1>7, <1>8 DEF ops, id

LEMMA SaveInv == ASSUME IInv, NEW g \in Clicks, SaveCurrentCredential(g) PROVE IInv'
<1>1. PICK c \in Creds :
            /\ SaveLeft(PutOps(c), AccountOf(c))
            /\ Types' /\ Roles' /\ Deleting' /\ Sorted' /\ Others(g)
            /\ pc[g] = "idle" /\ ~Changing(g) /\ handle'[g] = "none"
            /\ pc'[g] = "writing" /\ todo'[g] = PutOps(c)
            /\ action'[g] = [name |-> "save", account |-> AccountOf(c)]
            /\ UNCHANGED <<file, handle, settled, request>>
  BY SaveBegins
<1>2. ~Changing(g)' /\ Head(todo'[g]) # Remove(AuthJSON)
  <2>1. action'[g].name = "save"
    BY <1>1
  <2>2. Doing(todo'[g], action'[g])
    BY <1>1 DEF Roles
  <2> QED BY <2>1, <2>2, DoingList DEF Changing
<1>3. \A h \in Clicks : Changing(h)' =>
        /\ Changing(h) /\ action'[h] = action[h] /\ todo'[h] = todo[h]
        /\ handle'[h] = handle[h]
  BY <1>1, <1>2, ChangingOthers
<1>4. Moving'
  BY <1>1, <1>3, MovingKept DEF IInv
<1>5. Requests'
  <2>1. LoggingOut' => LoggingOut
    BY <1>1, <1>2, LoggingKept
  <2> QED BY <1>1, <2>1, RequestsKept DEF IInv
<1> QED BY <1>1, <1>4, <1>5 DEF IInv

-----------------------------------------------------------------------------
(* The deletion *)

\* What the clicks and requests are about stays as it was, if the files of the app and
\* of the CLI do.
LEMMA ClicksKept ==
    ASSUME IInv, Others("dialog"), UNCHANGED settled,
           \/ UNCHANGED <<file, handle, request>>
           \/ /\ \E fs : Becomes(fs, handle)
              /\ \A f \in {AuthJSON, ActiveJSON, KeyFile} : file'[f] = file[f]
    PROVE  /\ Moving' /\ Requests' /\ handle' \in Handled /\ request' \in Asked
           /\ pc'["dialog"] # "writing"
              /\ (pc'["dialog"] # "idle" =>
                    action'["dialog"].name = "delete" /\ action'["dialog"].account \in Accounts)
              => Roles'
<1>1. Types /\ Roles /\ Moving /\ Requests
  BY DEF IInv
<1>2. handle' \in Handled /\ request' \in Asked
      /\ \A h \in Clicks : handle'[h] = handle[h] \/ Shut(h)
  <2>1. CASE UNCHANGED <<file, handle, request>>
    BY <1>1, <2>1 DEF Types
  <2>2. CASE \E fs : Becomes(fs, handle)
    <3>1. handle \in Handled
      BY <1>1 DEF Types
    <3> QED BY <1>1, <2>2, <3>1, BecomesEffect DEF Shut
  <2> QED BY <2>1, <2>2
<1>3. \A h \in Clicks : pc'[h] = pc[h] /\ action'[h] = action[h] /\ todo'[h] = todo[h]
  BY ClicksLemma DEF Others
<1>4. \A h \in Clicks : Changing(h)' <=> Changing(h)
  BY <1>3 DEF Changing
<1>5. \A f \in {AuthJSON, ActiveJSON, KeyFile} : file'[f] = file[f]
  OBVIOUS
<1>6. ASSUME settled # Disturbed, NEW h \in Clicks, Changing(h) PROVE handle'[h] = handle[h]
  <2>1. pc[h] = "writing" /\ action[h].name \in {"switch", "deactivate"}
    BY <1>6 DEF Changing
  <2>2. Head(todo[h]).file \in Files /\ Head(todo[h]).file \notin PerAccount
    <3>1. Doing(todo[h], action[h]) /\ Head(todo[h]).file \in Files
      BY <1>1, <2>1, AtHand
    <3> QED BY <2>1, <3>1, DoingList
  <2>3. file'[Head(todo[h]).file] = file[Head(todo[h]).file]
    BY <1>5, <2>2 DEF Files
  <2>4. handle[h] = "open" => file[Head(todo[h]).file] # None
    BY <1>1, <1>6, OpenTorn, AccountFiles
  <2> QED BY <1>2, <2>3, <2>4 DEF Shut
<1>7. Moving'
  <2>1. CASE settled = Disturbed
    BY <2>1, MovingDisturbed
  <2>2. CASE settled # Disturbed
    BY <1>1, <1>3, <1>4, <1>5, <1>6, <2>2, MovingKept
  <2> QED BY <2>1, <2>2
<1>8. Requests'
  <2>1. LoggingOut' => LoggingOut
    BY <1>3 DEF LoggingOut
  <2> QED BY <1>1, <1>5, <2>1, RequestsKept
<1>9. ASSUME pc'["dialog"] # "writing",
             pc'["dialog"] # "idle" =>
                action'["dialog"].name = "delete" /\ action'["dialog"].account \in Accounts
      PROVE  Roles'
  <2>1. \A h \in Clicks : handle'[h] # "none" => handle[h] # "none"
    BY <1>2 DEF Shut
  <2>2. \A h \in Clicks :
        /\ pc'[h] \in {"idle", "writing"}
        /\ pc'[h] = "writing" => Doing(todo'[h], action'[h])
        /\ handle'[h] # "none" => pc'[h] = "writing" /\ ~Head(todo'[h]).atomic
    BY <1>1, <1>3, <2>1 DEF Roles
  <2> QED BY <1>9, <2>2 DEF Roles
<1> QED BY <1>2, <1>7, <1>8, <1>9

LEMMA DeleteInv == ASSUME IInv, NEW id \in Accounts, DeleteFromVault(id) PROVE IInv'
<1> DEFINE a == [name |-> "delete", account |-> id]
<1>1. "dialog" \in Goroutines /\ Types /\ a \in Actions
  BY ClicksLemma, RecordsLemma DEF IInv, Names
<1>2. /\ action' = [action EXCEPT !["dialog"] = a] /\ pc["dialog"] = "idle"
      /\ throughout' = InUse(file, id) /\ UNCHANGED <<file, todo, handle, request, hurt, settled>>
      /\ used' = [used EXCEPT !.actions = @ + 1]
  BY DEF DeleteFromVault, Begins
<1>3. a.name = "delete" /\ a.account = id
  OBVIOUS
<1> HIDE DEF a
<1>4. /\ pc \in [Goroutines -> Steps] /\ action \in [Goroutines -> Actions]
  BY <1>1 DEF Types, ControlTypes
<1>5. /\ pc' \in [Goroutines -> Steps] /\ pc'["dialog"] \in {"refused", "checking"}
      /\ \A h \in Goroutines \ {"dialog"} : pc'[h] = pc[h]
      /\ pc'["dialog"] = "checking" => file[ActiveJSON] # <<id>>
  BY <1>1, <1>4 DEF DeleteFromVault, Steps
<1>6. /\ action' \in [Goroutines -> Actions] /\ action'["dialog"] = a
      /\ \A h \in Goroutines \ {"dialog"} : action'[h] = action[h]
  BY <1>1, <1>2, <1>4
<1>7. Others("dialog") /\ Types'
  BY <1>1, <1>2, <1>5, <1>6, UsageLemma DEF Others, Types, ControlTypes
<1>8. Moving' /\ Requests' /\ Roles'
  BY <1>2, <1>3, <1>5, <1>6, <1>7, ClicksKept
<1>9. Sorted'
  BY <1>2 DEF IInv, Sorted
<1>10. Deleting'
  <2>1. file[ActiveJSON] # <<id>> => ActiveJSON \notin InUse(file, id)
    BY FilesLemma DEF InUse
  <2>2. InUse(file, id)' = InUse(file, id)
    BY <1>2 DEF InUse
  <2>3. action'["dialog"].account = id
    BY <1>3, <1>6
  <2> QED BY <1>2, <1>5, <2>1, <2>2, <2>3 DEF Deleting, DeleteProtects
<1> QED BY <1>7, <1>8, <1>9, <1>10 DEF IInv

LEMMA CheckInstalledInv == IInv /\ CheckInstalled => IInv'
<1> SUFFICES ASSUME IInv, CheckInstalled PROVE IInv'
  OBVIOUS
<1> DEFINE installed == AuthJSON \in InUse(file, action["dialog"].account)
<1>1. "dialog" \in Goroutines /\ Types /\ Roles
  BY ClicksLemma DEF IInv
<1>2. /\ pc["dialog"] = "checking"
      /\ UNCHANGED <<file, action, todo, handle, request, settled, throughout, hurt, used>>
      /\ pc' = [pc EXCEPT !["dialog"] = IF installed THEN "refused" ELSE "removing"]
  BY DEF CheckInstalled
<1>3. /\ pc' \in [Goroutines -> Steps] /\ \A h \in Goroutines \ {"dialog"} : pc'[h] = pc[h]
      /\ pc'["dialog"] = IF installed THEN "refused" ELSE "removing"
  BY <1>1, <1>2 DEF Types, ControlTypes, Steps
<1>4. Types' /\ Others("dialog")
  BY <1>1, <1>2, <1>3 DEF Types, ControlTypes, Others
<1>5. Moving' /\ Requests' /\ Roles'
  BY <1>1, <1>2, <1>3, <1>4, ClicksKept DEF Roles
<1>6. Sorted'
  BY <1>2 DEF IInv, Sorted
<1>7. ~installed => throughout = {}
  BY <1>2, InUseLemma DEF IInv, Deleting
<1>8. Deleting'
  BY <1>2, <1>3, <1>7 DEF Deleting, DeleteProtects
<1> QED BY <1>4, <1>5, <1>6, <1>8 DEF IInv

\* The files of an account change, or none does.
Vanishes ==
    \/ UNCHANGED <<file, handle, request>>
    \/ \E f \in PerAccount : Becomes([file EXCEPT ![f] = None], handle)

LEMMA VanishesLemma ==
    ASSUME IInv, Vanishes
    PROVE  /\ file' \in [Files -> Contents] /\ Sorted'
           /\ \/ UNCHANGED <<file, handle, request>>
              \/ /\ \E fs : Becomes(fs, handle)
                 /\ \A f \in {AuthJSON, ActiveJSON, KeyFile} : file'[f] = file[f]
<1>1. file \in [Files -> Contents] /\ None \in Contents
  BY CredsLemma DEF IInv, Types
<1>2. CASE UNCHANGED <<file, handle, request>>
  BY <1>1, <1>2 DEF IInv, Sorted
<1>3. CASE \E f \in PerAccount : Becomes([file EXCEPT ![f] = None], handle)
  <2>1. PICK f \in PerAccount : Becomes([file EXCEPT ![f] = None], handle)
    BY <1>3
  <2>2. f \in Files /\ f \notin {AuthJSON, ActiveJSON, KeyFile}
    BY FilesLemma
  <2>3. file' = [file EXCEPT ![f] = None]
    BY <2>1 DEF Becomes
  <2>4. file' \in [Files -> Contents] /\ \A o \in Files : file'[o] \in {None, file[o]}
    BY <1>1, <2>2, <2>3
  <2>5. \A o \in {AuthJSON, ActiveJSON, KeyFile} : file'[o] = file[o]
    BY <1>1, <2>2, <2>3, FilesLemma
  <2>6. Sorted'
    BY <2>4, FilesLemma, CredsLemma DEF IInv, Sorted
  <2>7. \E fs : Becomes(fs, handle)
    BY <2>1
  <2> QED BY <2>4, <2>5, <2>6, <2>7
<1> QED BY <1>2, <1>3 DEF Vanishes

\* The dialog's goroutine ends.
LEMMA DialogEnds ==
    ASSUME IInv, Idle("dialog"), UNCHANGED <<settled, used>>, Vanishes
    PROVE  IInv'
<1>1. "dialog" \in Goroutines /\ Types
  BY ClicksLemma DEF IInv
<1>2. ControlTypes' /\ pc'["dialog"] = "idle" /\ Others("dialog")
  BY <1>1, IdleEffect
<1>3. /\ file' \in [Files -> Contents] /\ Sorted'
      /\ \/ UNCHANGED <<file, handle, request>>
         \/ /\ \E fs : Becomes(fs, handle)
            /\ \A f \in {AuthJSON, ActiveJSON, KeyFile} : file'[f] = file[f]
  BY VanishesLemma
<1>4. Moving' /\ Requests' /\ Roles' /\ handle' \in Handled /\ request' \in Asked
  BY <1>2, <1>3, ClicksKept
<1>5. Types' /\ Deleting'
  BY <1>1, <1>2, <1>3, <1>4 DEF Types, Deleting, DeleteProtects
<1> QED BY <1>3, <1>4, <1>5 DEF IInv

LEMMA RefuseInv == IInv /\ Refuse => IInv'
  BY DialogEnds DEF Refuse, Vanishes

LEMMA RemoveFailsInv == IInv /\ RemoveFails => IInv'
  BY DialogEnds DEF RemoveFails, Fails, Vanishes

LEMMA RemoveDirInv == IInv /\ RemoveDir => IInv'
<1> SUFFICES ASSUME IInv, RemoveDir PROVE IInv'
  OBVIOUS
<1> DEFINE id == action["dialog"].account
<1>1. /\ pc["dialog"] = "removing" /\ Becomes([file EXCEPT ![Dir(id)] = None], handle)
      /\ Succeeds("dialog") /\ UNCHANGED used
  BY DEF RemoveDir
<1>2. id \in Accounts /\ action["dialog"].name = "delete"
  BY <1>1 DEF IInv, Roles
<1>3. Vanishes
  BY <1>1, <1>2, FilesLemma DEF Vanishes
<1>4. Idle("dialog") /\ UNCHANGED settled
  BY <1>1, <1>2 DEF Succeeds, Changing
<1> QED BY <1>1, <1>3, <1>4, DialogEnds

LEMMA RemoveEntryInv == IInv /\ RemoveEntry => IInv'
<1> SUFFICES ASSUME IInv, RemoveEntry PROVE IInv'
  OBVIOUS
<1>1. PICK f \in {"saved", "meta"} \X {action["dialog"].account} :
        Becomes([file EXCEPT ![f] = None], handle)
  BY DEF RemoveEntry
<1>2. pc["dialog"] = "removing" /\ UNCHANGED <<pc, action, todo, settled, hurt, used>>
  BY DEF RemoveEntry
<1>3. f \in PerAccount
  <2>1. action["dialog"].account \in Accounts
    BY <1>2 DEF IInv, Roles
  <2> QED BY <2>1 DEF PerAccount
<1>4. Vanishes /\ \E fs, hs : Becomes(fs, hs)
  BY <1>1, <1>3 DEF Vanishes
<1>5. /\ file' \in [Files -> Contents] /\ Sorted'
      /\ \/ UNCHANGED <<file, handle, request>>
         \/ /\ \E fs : Becomes(fs, handle)
            /\ \A o \in {AuthJSON, ActiveJSON, KeyFile} : file'[o] = file[o]
  BY <1>4, VanishesLemma
<1>6. Others("dialog")
  BY <1>2 DEF Others
<1>7. Moving' /\ Requests' /\ Roles' /\ handle' \in Handled /\ request' \in Asked
  BY <1>2, <1>5, <1>6, ClicksKept DEF IInv, Roles
<1>8. Types'
  BY <1>2, <1>5, <1>7 DEF IInv, Types, ControlTypes
<1>9. Deleting'
  BY <1>2, <1>4, DeletingKept DEF IInv
<1> QED BY <1>5, <1>7, <1>8, <1>9 DEF IInv

-----------------------------------------------------------------------------
(* Around the app *)

LEMMA LoginInv == ASSUME IInv, NEW c \in Creds, Login(c) PROVE IInv'
<1> DEFINE fs == [file EXCEPT ![AuthJSON] = c]
<1>1. Types /\ Roles /\ Moving /\ Sorted /\ Deleting /\ Requests
  BY DEF IInv
<1>2. /\ used' = [used EXCEPT !.logins = @ + 1] /\ Becomes(fs, handle)
      /\ settled' = Disturbed /\ UNCHANGED <<pc, action, todo, hurt>>
  BY DEF Login
<1>3. file \in [Files -> Contents] /\ handle \in Handled /\ AuthJSON \in Files /\ c \in Contents
  BY <1>1, FilesLemma, CredsLemma DEF Types
<1>4. /\ fs \in [Files -> Contents] /\ fs[AuthJSON] = c
      /\ \A f \in Files : f # AuthJSON => fs[f] = file[f]
  BY <1>3
<1> HIDE DEF fs
<1>5. /\ file' = fs /\ handle' \in Handled /\ request' \in Asked
      /\ \A h \in Clicks : Shut(h)
  BY <1>1, <1>2, <1>3, BecomesEffect DEF Shut
<1>6. Types'
  BY <1>1, <1>2, <1>4, <1>5, RecordsLemma, UsageLemma DEF Types, ControlTypes
<1>7. Roles'
  <2>1. \A h \in Clicks : handle'[h] # "none" => handle[h] # "none"
    BY <1>5 DEF Shut
  <2> QED BY <1>1, <1>2, <2>1 DEF Roles
<1>8. Moving'
  BY <1>2, MovingDisturbed
<1>9. Sorted'
  BY <1>1, <1>4, <1>5, FilesLemma DEF Sorted
<1>10. Deleting' /\ Requests'
  <2>1. LoggingOut' => LoggingOut
    BY <1>2 DEF LoggingOut
  <2> QED BY <1>1, <1>2, <1>4, <1>5, <2>1, DeletingKept, RequestsKept
<1> QED BY <1>6, <1>7, <1>8, <1>9, <1>10 DEF IInv

LEMMA CrashInv == IInv /\ Crash => IInv'
<1> SUFFICES ASSUME IInv, Crash PROVE IInv'
  OBVIOUS
<1>1. /\ pc' = [g \in Goroutines |-> "idle"] /\ action' = [g \in Goroutines |-> NoAction]
      /\ todo' = [g \in Goroutines |-> <<>>] /\ handle' = [g \in Clicks |-> "none"]
      /\ request' = NoRequest /\ throughout' = {} /\ UNCHANGED <<file, settled>>
      /\ used' = [used EXCEPT !.mishaps = @ + 1]
  BY DEF Crash
<1>2. Types /\ Roles /\ Moving /\ Sorted
  BY DEF IInv
<1>3. Types'
  <2>1. <<>> \in Seq(Operations)
    OBVIOUS
  <2>2. pc' \in [Goroutines -> Steps] /\ handle' \in Handled
    BY <1>1 DEF Steps, Handled
  <2>3. action' \in [Goroutines -> Actions] /\ todo' \in [Goroutines -> Seq(Operations)]
    BY <1>1, <2>1, RecordsLemma
  <2> QED BY <1>1, <1>2, <2>2, <2>3, RecordsLemma, UsageLemma DEF Types, ControlTypes
<1>4. Roles' /\ Sorted' /\ Deleting'
  BY <1>1, <1>2, ClicksLemma DEF Roles, Sorted, Deleting, DeleteProtects
<1>5. \A h \in Clicks : ~Changing(h)'
  BY <1>1, ClicksLemma DEF Changing
<1>6. Moving'
  BY <1>1, <1>2, <1>5, MovingKept
<1>7. Requests'
  BY <1>1, RecordsLemma DEF Requests, RequestIsSeamless
<1> QED BY <1>3, <1>4, <1>6, <1>7 DEF IInv

\* Only the request moves.
LEMMA OnlyRequest ==
    ASSUME IInv, UNCHANGED <<file, goroutine, settled, throughout, used>>,
           request' \in Asked, Requests'
    PROVE  IInv'
<1>1. UNCHANGED <<file, pc, action, todo, handle, settled, throughout, used>>
  BY DEF goroutine
<1>2. Types' /\ Roles' /\ Sorted' /\ Deleting'
  BY <1>1 DEF IInv, Types, ControlTypes, Roles, Sorted, Deleting, DeleteProtects, InUse
<1>3. Moving'
  <2>1. \A h \in Clicks : Changing(h)' <=> Changing(h)
    BY <1>1 DEF Changing
  <2> QED BY <1>1, <2>1, MovingKept DEF IInv
<1> QED BY <1>2, <1>3 DEF IInv

LEMMA ArriveInv == IInv /\ Arrive => IInv'
<1> SUFFICES ASSUME IInv, Arrive PROVE IInv'
  OBVIOUS
<1> DEFINE safe == file[AuthJSON] \in Creds /\ ~LoggingOut
           installed == IF safe THEN {file[AuthJSON]} ELSE {}
<1>1. /\ request' = [NoRequest EXCEPT !.at = "arrived", !.safe = safe, !.installed = installed]
      /\ UNCHANGED <<file, goroutine, settled, throughout, hurt, used>>
  BY DEF Arrive
<1>2. safe \in BOOLEAN /\ installed \in SUBSET Creds
  OBVIOUS
<1>3. /\ safe => file[AuthJSON] \in Creds /\ file[AuthJSON] \in installed
      /\ safe => ~LoggingOut
  OBVIOUS
<1> HIDE DEF safe, installed
<1>4. /\ request' \in Asked /\ request'.at = "arrived" /\ request'.safe = safe
      /\ request'.installed = installed
  BY <1>1, <1>2, CredsLemma DEF NoRequest, Asked
<1>5. LoggingOut' <=> LoggingOut
  BY <1>1 DEF LoggingOut, goroutine
<1>6. Requests'
  BY <1>1, <1>3, <1>4, <1>5 DEF Requests, RequestIsSeamless
<1> QED BY <1>1, <1>4, <1>6, OnlyRequest

LEMMA ReadAuthInv == IInv /\ ReadAuth => IInv'
<1> SUFFICES ASSUME IInv, ReadAuth PROVE IInv'
  OBVIOUS
<1>1. /\ request.at = "arrived" /\ request \in Asked /\ Requests
      /\ UNCHANGED <<file, goroutine, settled, throughout, hurt, used>>
  BY DEF ReadAuth, IInv, Types
<1>2. CASE file[AuthJSON] \in Creds
  <2>1. request' = [request EXCEPT !.at = "answered", !.key = file[AuthJSON]]
    BY <1>2 DEF ReadAuth, Answer
  <2>2. /\ request' \in Asked /\ request'.at = "answered" /\ request'.key = file[AuthJSON]
        /\ request'.safe = request.safe /\ request'.installed = request.installed
    BY <1>1, <1>2, <2>1, CredsLemma DEF Asked
  <2>3. Requests'
    BY <1>1, <2>2 DEF Requests, RequestIsSeamless
  <2> QED BY <1>1, <2>2, <2>3, OnlyRequest
<1>3. CASE file[AuthJSON] \notin Creds
  <2>1. request' = [request EXCEPT !.at = "fallback"]
    BY <1>3 DEF ReadAuth
  <2>2. request' \in Asked /\ request'.at = "fallback" /\ request'.safe = request.safe
    BY <1>1, <2>1 DEF Asked
  <2>3. Requests'
    BY <1>1, <1>3, <2>2 DEF Requests, RequestIsSeamless
  <2> QED BY <1>1, <2>2, <2>3, OnlyRequest
<1> QED BY <1>2, <1>3

LEMMA ReadKeyInv == IInv /\ ReadKey => IInv'
<1> SUFFICES ASSUME IInv, ReadKey PROVE IInv'
  OBVIOUS
<1>1. /\ request.at = "fallback" /\ request \in Asked /\ Requests /\ file[KeyFile] \in Contents
      /\ UNCHANGED <<file, goroutine, settled, throughout, hurt, used>>
  BY FilesLemma DEF ReadKey, IInv, Types
<1>2. PICK key \in Contents : request' = [request EXCEPT !.at = "answered", !.key = key]
  BY <1>1, CredsLemma DEF ReadKey, Answer
<1>3. request' \in Asked /\ request'.at = "answered" /\ request'.safe = request.safe
  BY <1>1, <1>2 DEF Asked
<1>4. Requests'
  BY <1>1, <1>3 DEF Requests, RequestIsSeamless
<1> QED BY <1>1, <1>3, <1>4, OnlyRequest

LEMMA StepInv == IInv /\ [Next]_vars => IInv'
<1> SUFFICES ASSUME IInv, [Next]_vars PROVE IInv'
  OBVIOUS
<1>1. CASE \E g \in Clicks : Click(g)
  BY <1>1, TruncateInv, OperateInv, OperateFailsInv, DeactivateInv, SaveInv, SwitchToInv DEF Click
<1>2. CASE \E id \in Accounts : DeleteFromVault(id)
  BY <1>2, DeleteInv
<1>3. CASE CheckInstalled \/ Refuse \/ RemoveEntry \/ RemoveDir \/ RemoveFails
  BY <1>3, CheckInstalledInv, RefuseInv, RemoveEntryInv, RemoveDirInv, RemoveFailsInv
<1>4. CASE Crash \/ \E c \in Creds : Login(c)
  BY <1>4, CrashInv, LoginInv
<1>5. CASE Arrive \/ ReadAuth \/ ReadKey
  BY <1>5, ArriveInv, ReadAuthInv, ReadKeyInv
<1>6. CASE UNCHANGED vars
  <2>1. UNCHANGED <<file, goroutine, request, settled, throughout, used>>
    BY <1>6 DEF vars
  <2>2. LoggingOut' => LoggingOut
    BY <2>1 DEF LoggingOut, goroutine
  <2>3. Requests' /\ request' \in Asked
    BY <2>1, <2>2, RequestsKept DEF IInv, Types
  <2> QED BY <2>1, <2>3, OnlyRequest
<1> QED BY <1>1, <1>2, <1>3, <1>4, <1>5, <1>6 DEF Next

\* The files, the clicks, the deletion and the request hold together, however the steps
\* of the goroutines, the logins, the failures and the crashes come.
THEOREM StoreInvariant == Spec => []IInv
  BY InitInv, StepInv, PTL DEF Spec

\* A switch that reported success, with no other and no login meanwhile and nothing
\* after it, has moved the CLI's credential, the record and the exported key to the one
\* account, for any number of clicks at a time (App.SwitchTo).
THEOREM StoreSwitchIsComplete == Spec => []SwitchIsComplete
<1>1. IInv => SwitchIsComplete
  BY DEF IInv, Moving
<1> QED BY <1>1, StoreInvariant, PTL

\* No deletion comes to remove the copy of an account that was recorded, or was
\* installed, from when it was asked for (App.DeleteFromVault).
THEOREM StoreDeleteProtects == Spec => []DeleteProtects
<1>1. IInv => DeleteProtects
  BY DEF IInv, Deleting
<1> QED BY <1>1, StoreInvariant, PTL

\* A request that nobody logs out meanwhile gets a key that was installed between its
\* arrival and its answer, though its two reads fall in the middle of anything
\* (App.activeKey).
THEOREM StoreRequestIsSeamless == Spec => []RequestIsSeamless
<1>1. IInv => RequestIsSeamless
  BY DEF IInv, Requests
<1> QED BY <1>1, StoreInvariant, PTL

-----------------------------------------------------------------------------
(* What the menu lists, as long as no action fails and the app does not die *)

\* What is shown of an account is what would be installed.
Usable(id) ==
    file[Meta(id)] # None => file[Saved(id)] \in Creds /\ file[Meta(id)] = file[Saved(id)]

\* Nothing is left of the account.
Gone(id) == file[Dir(id)] = None /\ file[Saved(id)] = None /\ file[Meta(id)] = None

Removing(id) == pc["dialog"] = "removing" /\ action["dialog"].account = id
Saving(g, id) == pc[g] = "writing" /\ action[g].name = "save" /\ action[g].account = id

\* The click still writes the copy, or what is shown of it; but what it writes to a file
\* that was deleted while it was open is lost.
WillCopy(g) == Len(todo[g]) = 3 \/ (Len(todo[g]) = 2 /\ handle[g] # "gone")
WillShow(g) == Len(todo[g]) > 1 \/ handle[g] # "gone"

Copied(id, c) == Gone(id) \/ file[Saved(id)] = c \/ \E g \in Clicks : Saving(g, id) /\ WillCopy(g)
Shown(id, c) == Usable(id) \/ file[Meta(id)] = c \/ \E g \in Clicks : Saving(g, id) /\ WillShow(g)

\* All saves of the account are of the credential c.  What they write is torn or there,
\* and what is not there yet one of them still writes.
SavesAgree(id, c) ==
    /\ \A g \in Clicks : Saving(g, id) =>
        /\ Credential(todo[g]) = c
        /\ handle[g] = "open" => file[Head(todo[g]).file] \in {Torn, c}
    /\ Removing(id) \/ (Copied(id, c) /\ Shown(id, c))

SavesOf(id) ==
    \/ (\A g \in Clicks : ~Saving(g, id)) /\ (Removing(id) \/ Usable(id))
    \/ \E c \in Creds : SavesAgree(id, c)

Saves == ~hurt => \A id \in Accounts : SavesOf(id)

LEMMA InitSaves == Init => Saves
<1> SUFFICES ASSUME Init, NEW id \in Accounts PROVE SavesOf(id)
  BY DEF Saves
<1>1. Usable(id)
  BY FilesLemma DEF Init, Usable
<1>2. \A g \in Clicks : ~Saving(g, id)
  BY ClicksLemma DEF Init, Saving
<1> QED BY <1>1, <1>2 DEF SavesOf

\* What a save is about to write.
LEMMA SavingList ==
    ASSUME Types, Roles, NEW g \in Clicks, NEW id \in Accounts, Saving(g, id)
    PROVE  /\ pc[g] = "writing" /\ SaveLeft(todo[g], id) /\ Credential(todo[g]) \in Creds
           /\ Len(todo[g]) \in {1, 2, 3}
           /\ Len(todo[g]) = 3 => /\ Head(todo[g]).file = Dir(id) /\ Head(todo[g]).atomic = TRUE
                                  /\ handle[g] = "none"
           /\ Len(todo[g]) = 2 => /\ Head(todo[g]).file = Saved(id)
                                  /\ Head(todo[g]).content = Credential(todo[g])
                                  /\ Head(todo[g]).atomic = FALSE
           /\ Len(todo[g]) = 1 => /\ Head(todo[g]).file = Meta(id)
                                  /\ Head(todo[g]).content = Credential(todo[g])
                                  /\ Head(todo[g]).atomic = FALSE
           /\ Head(todo[g]).file \in {Dir(id), Saved(id), Meta(id)}
<1>1. pc[g] = "writing" /\ SaveLeft(todo[g], id)
      /\ (Head(todo[g]).atomic => handle[g] = "none")
  BY AtHand DEF Saving, Doing
<1>2. Credential(todo[g]) \in Creds
  BY <1>1 DEF SaveLeft
<1> QED BY <1>1, <1>2, SaveList

\* A credential that is written to a file is there.
LEMMA ThereLemma == \A c \in Creds : None \notin {Torn, c}
  BY CredsLemma, AccountFiles

\* The files of an account, and the saves of it, stay as they are.
LEMMA SavesOfKept ==
    ASSUME Types, Roles, NEW id \in Accounts, SavesOf(id),
           \A f \in {Dir(id), Saved(id), Meta(id)} : file'[f] = file[f],
           Removing(id) => Removing(id)',
           \A h \in Clicks : Saving(h, id)' <=> Saving(h, id),
           \A h \in Clicks : Saving(h, id) =>
                todo'[h] = todo[h] /\ (handle'[h] = handle[h] \/ Shut(h))
    PROVE  SavesOf(id)'
<1>1. /\ Usable(id) => Usable(id)'
      /\ Gone(id) => Gone(id)'
      /\ \A c : (file[Saved(id)] = c => file'[Saved(id)] = c)
                /\ (file[Meta(id)] = c => file'[Meta(id)] = c)
  BY DEF Usable, Gone
<1>2. CASE (\A g \in Clicks : ~Saving(g, id)) /\ (Removing(id) \/ Usable(id))
  BY <1>1, <1>2 DEF SavesOf
<1>3. CASE \E c \in Creds : SavesAgree(id, c)
  <2>1. PICK c \in Creds : SavesAgree(id, c)
    BY <1>3
  <2>2. ASSUME NEW h \in Clicks, Saving(h, id)
        PROVE  /\ todo'[h] = todo[h] /\ handle'[h] = handle[h]
               /\ file'[Head(todo[h]).file] = file[Head(todo[h]).file]
    <3>1. Head(todo[h]).file \in {Dir(id), Saved(id), Meta(id)}
      BY <2>2, SavingList
    <3>2. file'[Head(todo[h]).file] = file[Head(todo[h]).file]
      BY <3>1
    <3>3. handle[h] = "open" => file[Head(todo[h]).file] # None
      BY <2>1, <2>2, ThereLemma DEF SavesAgree
    <3> QED BY <2>2, <3>2, <3>3 DEF Shut
  <2>3. \A h \in Clicks : Saving(h, id) => /\ WillCopy(h) => WillCopy(h)'
                                           /\ WillShow(h) => WillShow(h)'
    BY <2>2 DEF WillCopy, WillShow
  <2>4. (Copied(id, c) => Copied(id, c)') /\ (Shown(id, c) => Shown(id, c)')
    BY <1>1, <2>3 DEF Copied, Shown
  <2>5. \A h \in Clicks : Saving(h, id)' =>
            /\ Credential(todo'[h]) = c
            /\ handle'[h] = "open" => file'[Head(todo'[h]).file] \in {Torn, c}
    BY <2>1, <2>2 DEF SavesAgree
  <2>6. SavesAgree(id, c)'
    BY <2>1, <2>4, <2>5 DEF SavesAgree
  <2> QED BY <2>6 DEF SavesOf
<1> QED BY <1>2, <1>3 DEF SavesOf

\* No save begins, goes on or ends, and the accounts' files stay.
LEMMA SavesKept ==
    ASSUME Types, Roles, Saves, ~hurt' => ~hurt, \A f \in PerAccount : file'[f] = file[f],
           \A id \in Accounts : Removing(id) => Removing(id)',
           \A h \in Clicks, id \in Accounts :
                /\ Saving(h, id)' <=> Saving(h, id)
                /\ Saving(h, id) =>
                    todo'[h] = todo[h] /\ (handle'[h] = handle[h] \/ Shut(h))
    PROVE  Saves'
<1> SUFFICES ASSUME ~hurt', ~hurt, NEW id \in Accounts PROVE SavesOf(id)'
  BY DEF Saves
<1>1. SavesOf(id)
  BY DEF Saves
<1>2. \A f \in {Dir(id), Saved(id), Meta(id)} : file'[f] = file[f]
  BY FilesLemma
<1> QED BY <1>1, <1>2, SavesOfKept

\* The saves of other accounts do not notice a save of this one.
LEMMA OtherAccounts ==
    ASSUME Types, Roles, Saves, ~hurt, NEW g \in Clicks, NEW id \in Accounts, Saving(g, id),
           \A f \in Files : f \notin {Dir(id), Saved(id), Meta(id)} => file'[f] = file[f],
           Others(g), pc'[g] = "idle" \/ action'[g] = action[g],
           \A h \in Clicks \ {g} : Shut(h),
           SavesOf(id)'
    PROVE  Saves'
<1> SUFFICES ASSUME NEW jd \in Accounts, jd # id PROVE SavesOf(jd)'
  BY DEF Saves
<1>1. SavesOf(jd)
  BY DEF Saves
<1>2. \A f \in {Dir(jd), Saved(jd), Meta(jd)} : file'[f] = file[f]
  <2>1. \A f \in {Dir(jd), Saved(jd), Meta(jd)} : f \in Files
    BY FilesLemma
  <2>2. \A f \in {Dir(jd), Saved(jd), Meta(jd)} : f \notin {Dir(id), Saved(id), Meta(id)}
    BY AccountFiles
  <2> QED BY <2>1, <2>2
<1>3. ~Saving(g, jd) /\ ~Saving(g, jd)'
  BY DEF Saving
<1>4. \A h \in Clicks : Saving(h, jd)' <=> Saving(h, jd)
  BY <1>3, ClicksLemma DEF Others, Saving
<1>5. \A h \in Clicks : Saving(h, jd) => todo'[h] = todo[h] /\ Shut(h)
  BY <1>3, ClicksLemma DEF Others
<1>6. Removing(jd) => Removing(jd)'
  BY ClicksLemma DEF Others, Removing
<1> QED BY <1>1, <1>2, <1>4, <1>5, <1>6, SavesOfKept

\* Another save of the account, which does not find its file deleted, stays as it was.
LEMMA OtherSaves ==
    ASSUME Types, Roles, NEW id \in Accounts, NEW c \in Creds, SavesAgree(id, c),
           NEW g \in Clicks, Others(g),
           \A f \in {Dir(id), Saved(id), Meta(id)} :
                file'[f] = file[f] \/ file'[f] \in {Torn, c} \/ f = Dir(id),
           \A h \in Clicks \ {g} : Shut(h)
    PROVE  \A h \in Clicks \ {g} : Saving(h, id) =>
                /\ Saving(h, id)' /\ todo'[h] = todo[h] /\ handle'[h] = handle[h]
                /\ Credential(todo'[h]) = c
                /\ handle'[h] = "open" => file'[Head(todo'[h]).file] \in {Torn, c}
                /\ WillCopy(h) => WillCopy(h)'
                /\ WillShow(h) => WillShow(h)'
<1> SUFFICES ASSUME NEW h \in Clicks \ {g}, Saving(h, id)
             PROVE  /\ Saving(h, id)' /\ todo'[h] = todo[h] /\ handle'[h] = handle[h]
                    /\ Credential(todo'[h]) = c
                    /\ handle'[h] = "open" => file'[Head(todo'[h]).file] \in {Torn, c}
                    /\ WillCopy(h) => WillCopy(h)'
                    /\ WillShow(h) => WillShow(h)'
  OBVIOUS
<1>1. pc'[h] = pc[h] /\ action'[h] = action[h] /\ todo'[h] = todo[h]
  BY ClicksLemma DEF Others
<1>2. Saving(h, id)'
  BY <1>1 DEF Saving
<1>3. /\ Credential(todo[h]) = c
      /\ handle[h] = "open" => file[Head(todo[h]).file] \in {Torn, c}
  BY DEF SavesAgree
<1>4. handle[h] = "open" => Head(todo[h]).file \in {Saved(id), Meta(id)}
  BY SavingList
<1>5. handle[h] = "open" => file'[Head(todo[h]).file] \in {Torn, c}
  BY <1>3, <1>4, AccountFiles
<1>6. handle'[h] = handle[h]
  BY <1>5, ThereLemma DEF Shut
<1> QED BY <1>1, <1>2, <1>3, <1>5, <1>6 DEF WillCopy, WillShow

\* A click that does not save leaves the saves alone.
LEMMA OtherClicks ==
    ASSUME Types, Roles, Saves, UNCHANGED hurt, NEW g \in Clicks, Others(g),
           \A f \in PerAccount : file'[f] = file[f],
           \A id \in Accounts : ~Saving(g, id) /\ ~Saving(g, id)',
           \A h \in Clicks \ {g} : handle'[h] = handle[h] \/ Shut(h)
    PROVE  Saves'
<1>1. \A id \in Accounts : Removing(id) => Removing(id)'
  BY ClicksLemma DEF Others, Removing
<1>2. ASSUME NEW h \in Clicks, NEW id \in Accounts
      PROVE  /\ Saving(h, id)' <=> Saving(h, id)
             /\ Saving(h, id) => todo'[h] = todo[h] /\ (handle'[h] = handle[h] \/ Shut(h))
  <2>1. CASE h = g
    BY <2>1
  <2>2. CASE h # g
    BY <2>2, ClicksLemma DEF Others, Saving
  <2> QED BY <2>1, <2>2
<1> QED BY <1>1, <1>2, SavesKept

\* A click in the middle of something else is not a save.
LEMMA NoSave ==
    ASSUME Types, Roles, NEW g \in Clicks, pc[g] = "writing", action[g].name # "save",
           pc'[g] = "idle" \/ action'[g] = action[g],
           \A f \in Files : f # Head(todo[g]).file => file'[f] = file[f]
    PROVE  /\ \A id \in Accounts : ~Saving(g, id) /\ ~Saving(g, id)'
           /\ \A f \in PerAccount : file'[f] = file[f]
<1>1. Head(todo[g]).file \notin PerAccount
  BY AtHand, DoingList
<1> QED BY <1>1, FilesLemma DEF Saving

\* A click in the middle of a save.
LEMMA SaverOf ==
    ASSUME Types, Roles, NEW g \in Clicks, pc[g] = "writing", action[g].name = "save"
    PROVE  \E id \in Accounts : Saving(g, id)
<1>1. Doing(todo[g], action[g])
  BY AtHand
<1> QED BY <1>1 DEF Doing, Saving

\* All that save an account save the same.
LEMMA SavedTogether ==
    ASSUME NEW id \in Accounts, SavesOf(id), NEW g \in Clicks, Saving(g, id)
    PROVE  \E c \in Creds : SavesAgree(id, c) /\ Credential(todo[g]) = c
<1>1. PICK c \in Creds : SavesAgree(id, c)
  BY DEF SavesOf
<1>2. Credential(todo[g]) = c
  BY <1>1 DEF SavesAgree
<1> QED BY <1>1, <1>2

LEMMA TruncateSaves == ASSUME IInv, Saves, NEW g \in Clicks, Truncate(g) PROVE Saves'
<1> DEFINE op == Head(todo[g])
<1>1. Types /\ Roles
  BY DEF IInv
<1>2. /\ pc[g] = "writing" /\ ~op.atomic /\ CanReach(op.file)
      /\ handle[g] = "none" /\ handle'[g] = "open" /\ file'[op.file] = Torn
      /\ \A f \in Files : f # op.file => file'[f] = file[f]
      /\ \A h \in Clicks \ {g} : Shut(h)
      /\ UNCHANGED <<pc, action, todo, hurt>>
  BY <1>1, TruncateEffect
<1>3. Others(g) /\ action'[g] = action[g]
  BY <1>2 DEF Others
<1>4. CASE action[g].name # "save"
  BY <1>1, <1>2, <1>3, <1>4, NoSave, OtherClicks
<1>5. CASE hurt
  BY <1>2, <1>5 DEF Saves
<1>6. CASE action[g].name = "save" /\ ~hurt
  <2>1. PICK id \in Accounts : Saving(g, id)
    BY <1>1, <1>2, <1>6, SaverOf
  <2>2. PICK c \in Creds : SavesAgree(id, c) /\ Credential(todo[g]) = c
    BY <1>6, <2>1, SavedTogether DEF Saves
  <2>3. /\ Len(todo[g]) \in {1, 2}
        /\ Len(todo[g]) = 2 => op.file = Saved(id)
        /\ Len(todo[g]) = 1 => op.file = Meta(id)
    BY <1>1, <1>2, <2>1, SavingList
  <2>4. file[Dir(id)] # None
    <3>1. /\ Saved(id)[1] # "dir" /\ Saved(id)[2] = id
          /\ Meta(id)[1] # "dir" /\ Meta(id)[2] = id
      BY DEF Saved, Meta
    <3>2. op.file \in {Saved(id), Meta(id)} /\ op.file \in PerAccount
      BY <2>1, <2>3, FilesLemma
    <3> QED BY <1>2, <3>1, <3>2 DEF CanReach
  <2>5. \A f \in {Dir(id), Saved(id), Meta(id)} :
            file'[f] = file[f] \/ file'[f] \in {Torn, c} \/ f = Dir(id)
    BY <1>2, <2>1, FilesLemma
  <2>6. \A h \in Clicks \ {g} : Saving(h, id) =>
            /\ Saving(h, id)'
            /\ Credential(todo'[h]) = c
            /\ handle'[h] = "open" => file'[Head(todo'[h]).file] \in {Torn, c}
            /\ WillCopy(h) => WillCopy(h)'
    BY <1>1, <1>2, <1>3, <2>1, <2>2, <2>5, OtherSaves
  <2>7. \A h \in Clicks : Saving(h, id)' <=> Saving(h, id)
    BY <1>2 DEF Saving
  <2>8. Saving(g, id)' /\ WillShow(g)' /\ (Len(todo[g]) = 2 => WillCopy(g)')
    BY <1>2, <2>1, <2>7 DEF WillShow, WillCopy
  <2>9. \A h \in Clicks : Saving(h, id)' =>
            /\ Credential(todo'[h]) = c
            /\ handle'[h] = "open" => file'[Head(todo'[h]).file] \in {Torn, c}
    BY <1>2, <2>2, <2>6, <2>7
  <2>10. Shown(id, c)'
    BY <2>8 DEF Shown
  <2>11. Copied(id, c) => Copied(id, c)'
    <3> SUFFICES ASSUME Copied(id, c) PROVE Copied(id, c)'
      OBVIOUS
    <3>1. CASE Gone(id)
      BY <2>4, <3>1 DEF Gone
    <3>2. CASE Len(todo[g]) = 2
      BY <2>8, <3>2 DEF Copied
    <3>3. CASE Len(todo[g]) = 1 /\ file[Saved(id)] = c
      <4>1. Saved(id) # op.file /\ Saved(id) \in Files
        BY <2>1, <2>3, <3>3, AccountFiles, FilesLemma
      <4> QED BY <1>2, <3>3, <4>1 DEF Copied
    <3>4. CASE Len(todo[g]) = 1 /\ \E h \in Clicks : Saving(h, id) /\ WillCopy(h)
      <4>1. PICK h \in Clicks : Saving(h, id) /\ WillCopy(h)
        BY <3>4
      <4>2. h # g
        BY <3>4, <4>1 DEF WillCopy
      <4> QED BY <2>6, <4>1, <4>2 DEF Copied
    <3> QED BY <2>3, <3>1, <3>2, <3>3, <3>4 DEF Copied
  <2>12. Removing(id)' <=> Removing(id)
    BY <1>2 DEF Removing
  <2>13. SavesOf(id)'
    <3>1. SavesAgree(id, c)'
      BY <2>2, <2>9, <2>10, <2>11, <2>12 DEF SavesAgree
    <3> QED BY <3>1 DEF SavesOf
  <2>14. \A f \in Files : f \notin {Dir(id), Saved(id), Meta(id)} => file'[f] = file[f]
    BY <1>2, <2>3
  <2> QED BY <1>1, <1>2, <1>3, <1>6, <2>1, <2>13, <2>14, OtherAccounts
<1> QED BY <1>4, <1>5, <1>6

LEMMA OperateSaves == ASSUME IInv, Saves, NEW g \in Clicks, Operate(g) PROVE Saves'
<1> DEFINE op == Head(todo[g])
<1>1. Types /\ Roles
  BY DEF IInv
<1>2. /\ pc[g] = "writing" /\ (op.atomic \/ handle[g] # "none")
      /\ handle'[g] = "none"
      /\ handle[g] = "gone" => file'[op.file] = file[op.file]
      /\ handle[g] # "gone" /\ (op.atomic \/ file[op.file] \in {Torn, op.content})
            => file'[op.file] = op.content
      /\ \A f \in Files : f # op.file => file'[f] = file[f]
      /\ \A h \in Clicks \ {g} : Shut(h)
      /\ Advance(g)
  BY <1>1, OperateEffect
<1>3. /\ Others(g)
      /\ Len(todo[g]) = 1 => pc'[g] = "idle" /\ Succeeds(g)
      /\ Len(todo[g]) # 1 => /\ pc'[g] = "writing" /\ action'[g] = action[g]
                             /\ todo'[g] = Tail(todo[g])
                             /\ Len(todo'[g]) = Len(todo[g]) - 1
                             /\ UNCHANGED hurt
  BY <1>1, <1>2, AdvanceEffect
<1>4. UNCHANGED hurt /\ (pc'[g] = "idle" \/ action'[g] = action[g])
  BY <1>3 DEF Succeeds
<1>5. CASE action[g].name # "save"
  BY <1>1, <1>2, <1>3, <1>4, <1>5, NoSave, OtherClicks
<1>6. CASE hurt
  BY <1>4, <1>6 DEF Saves
<1>7. CASE action[g].name = "save" /\ ~hurt
  <2>1. PICK id \in Accounts : Saving(g, id)
    BY <1>1, <1>2, <1>7, SaverOf
  <2>2. PICK c \in Creds : SavesAgree(id, c) /\ Credential(todo[g]) = c
    BY <1>7, <2>1, SavedTogether DEF Saves
  <2>3. /\ SaveLeft(todo[g], id) /\ Len(todo[g]) \in {1, 2, 3}
        /\ Len(todo[g]) = 3 => op.file = Dir(id)
        /\ Len(todo[g]) = 2 => op.file = Saved(id) /\ op.content = c /\ op.atomic = FALSE
        /\ Len(todo[g]) = 1 => op.file = Meta(id) /\ op.content = c /\ op.atomic = FALSE
        /\ op.file \in {Dir(id), Saved(id), Meta(id)}
    BY <1>1, <2>1, <2>2, SavingList
  <2>4. Len(todo[g]) # 3 =>
            /\ handle[g] \in {"open", "gone"}
            /\ handle[g] = "open" => file[op.file] \in {Torn, c} /\ file'[op.file] = c
    <3>1. handle \in Handled
      BY <1>1 DEF Types
    <3>2. Len(todo[g]) # 3 => handle[g] \in {"open", "gone"}
      BY <1>2, <2>3, <3>1 DEF Handled
    <3>3. handle[g] = "open" => file[op.file] \in {Torn, c}
      BY <2>1, <2>2 DEF SavesAgree
    <3> QED BY <1>2, <2>3, <3>2, <3>3
  <2>5. handle[g] = "gone" /\ Len(todo[g]) # 3 => \A f \in Files : file'[f] = file[f]
    BY <1>2
  <2>6. \A f \in {Dir(id), Saved(id), Meta(id)} : f \in Files
    BY <2>1, FilesLemma
  <2>7. \A f \in {Dir(id), Saved(id), Meta(id)} :
            file'[f] = file[f] \/ file'[f] \in {Torn, c} \/ f = Dir(id)
    <3>1. CASE Len(todo[g]) = 3
      BY <1>2, <2>3, <2>6, <3>1
    <3>2. CASE Len(todo[g]) # 3
      BY <1>2, <2>4, <2>5, <2>6, <3>2
    <3> QED BY <3>1, <3>2
  <2>8. \A h \in Clicks \ {g} : Saving(h, id) =>
            /\ Saving(h, id)'
            /\ Credential(todo'[h]) = c
            /\ handle'[h] = "open" => file'[Head(todo'[h]).file] \in {Torn, c}
            /\ WillCopy(h) => WillCopy(h)'
            /\ WillShow(h) => WillShow(h)'
    BY <1>1, <1>2, <1>3, <2>1, <2>2, <2>7, OtherSaves
  <2>9. \A h \in Clicks \ {g} : Saving(h, id)' => Saving(h, id)
    BY <1>3, ClicksLemma DEF Others, Saving
  <2>10. Len(todo[g]) # 1 => Saving(g, id)' /\ Credential(todo'[g]) = c
    BY <1>3, <2>1, <2>2, <2>3, SaveList DEF Saving
  <2>11. \A h \in Clicks : Saving(h, id)' =>
            /\ Credential(todo'[h]) = c
            /\ handle'[h] = "open" => file'[Head(todo'[h]).file] \in {Torn, c}
    <3>1. Len(todo[g]) = 1 => ~Saving(g, id)'
      BY <1>3 DEF Saving
    <3> QED BY <1>2, <2>8, <2>9, <2>10, <3>1
  <2>12. /\ Len(todo[g]) = 3 => Len(todo'[g]) = 2
         /\ Len(todo[g]) = 2 => Len(todo'[g]) = 1
    <3>1. 3 # 1 /\ 2 # 1 /\ 3 - 1 = 2 /\ 2 - 1 = 1
      OBVIOUS
    <3> QED BY <1>3, <3>1, Zenon
  <2>13. /\ Len(todo[g]) = 3 => WillCopy(g)' /\ WillShow(g)'
         /\ Len(todo[g]) = 2 => WillShow(g)'
    BY <1>2, <2>12 DEF WillCopy, WillShow
  <2>14. handle[g] = "gone" /\ Len(todo[g]) # 3 =>
            /\ Gone(id) => Gone(id)'
            /\ Usable(id) => Usable(id)'
            /\ file'[Saved(id)] = file[Saved(id)] /\ file'[Meta(id)] = file[Meta(id)]
    BY <2>5, <2>6 DEF Gone, Usable
  <2>15. Copied(id, c) => Copied(id, c)'
    <3> SUFFICES ASSUME Copied(id, c) PROVE Copied(id, c)'
      OBVIOUS
    <3>1. CASE Len(todo[g]) = 3
      BY <2>10, <2>13, <3>1 DEF Copied
    <3>2. CASE Len(todo[g]) = 2 /\ handle[g] = "open"
      BY <2>3, <2>4, <3>2 DEF Copied
    <3>3. ASSUME NEW h \in Clicks, Saving(h, id), WillCopy(h),
                 Len(todo[g]) = 1 \/ (Len(todo[g]) = 2 /\ handle[g] = "gone")
          PROVE  Copied(id, c)'
      <4>1. h # g
        BY <3>3 DEF WillCopy
      <4> QED BY <2>8, <3>3, <4>1 DEF Copied
    <3>4. CASE Len(todo[g]) = 2 /\ handle[g] = "gone"
      BY <2>14, <3>3, <3>4 DEF Copied
    <3>5. CASE Len(todo[g]) = 1 /\ handle[g] = "gone"
      BY <2>14, <3>3, <3>5 DEF Copied
    <3>6. CASE Len(todo[g]) = 1 /\ handle[g] = "open"
      <4>1. ~Gone(id)
        BY <2>3, <2>4, <3>6, ThereLemma DEF Gone
      <4>2. file'[Saved(id)] = file[Saved(id)]
        <5>1. Saved(id) # op.file
          BY <2>3, <3>6, AccountFiles
        <5> QED BY <1>2, <2>6, <5>1
      <4> QED BY <3>3, <3>6, <4>1, <4>2 DEF Copied
    <3> QED BY <2>3, <2>4, <3>1, <3>2, <3>4, <3>5, <3>6
  <2>16. Shown(id, c) => Shown(id, c)'
    <3> SUFFICES ASSUME Shown(id, c) PROVE Shown(id, c)'
      OBVIOUS
    <3>1. CASE Len(todo[g]) \in {2, 3}
      BY <2>10, <2>13, <3>1 DEF Shown
    <3>2. CASE Len(todo[g]) = 1 /\ handle[g] = "open"
      BY <2>3, <2>4, <3>2 DEF Shown
    <3>3. CASE Len(todo[g]) = 1 /\ handle[g] = "gone"
      <4>1. ~WillShow(g)
        BY <3>3 DEF WillShow
      <4> QED BY <2>8, <2>14, <3>3, <4>1 DEF Shown
    <3> QED BY <2>3, <2>4, <3>1, <3>2, <3>3
  <2>17. Removing(id)' <=> Removing(id)
    BY <1>3, ClicksLemma DEF Others, Removing
  <2>18. SavesOf(id)'
    <3>1. SavesAgree(id, c)'
      BY <2>2, <2>11, <2>15, <2>16, <2>17 DEF SavesAgree
    <3> QED BY <3>1 DEF SavesOf
  <2>19. \A f \in Files : f \notin {Dir(id), Saved(id), Meta(id)} => file'[f] = file[f]
    BY <1>2, <2>3
  <2> QED BY <1>1, <1>2, <1>3, <1>4, <1>7, <2>1, <2>18, <2>19, OtherAccounts
<1> QED BY <1>5, <1>6, <1>7

LEMMA OperateFailsSaves == ASSUME IInv, Saves, NEW g \in Clicks, OperateFails(g) PROVE Saves'
<1>1. Types /\ Roles
  BY DEF IInv
<1>2. /\ pc[g] = "writing" /\ UNCHANGED file
      /\ \A h \in Clicks \ {g} : handle'[h] = handle[h]
      /\ Fails(g) \/ (action[g].name = "deactivate" /\ Advance(g))
  BY <1>1, FailsEffect
<1>3. CASE Fails(g)
  BY <1>3 DEF Fails, Saves
<1>4. CASE action[g].name = "deactivate" /\ Advance(g)
  <2>1. /\ Others(g)
        /\ Len(todo[g]) = 1 => pc'[g] = "idle" /\ Succeeds(g)
        /\ Len(todo[g]) # 1 => action'[g] = action[g] /\ UNCHANGED hurt
    BY <1>1, <1>2, <1>4, AdvanceEffect
  <2>2. UNCHANGED hurt /\ (pc'[g] = "idle" \/ action'[g] = action[g])
    BY <2>1 DEF Succeeds
  <2>3. action[g].name # "save"
    BY <1>4
  <2> QED BY <1>1, <1>2, <2>1, <2>2, <2>3, NoSave, OtherClicks
<1> QED BY <1>2, <1>3, <1>4

\* A save begins: all that save the account save the same, or the two hurt each other.
LEMMA SaveSaves == ASSUME IInv, Saves, NEW g \in Clicks, SaveCurrentCredential(g) PROVE Saves'
<1>1. PICK c \in Creds :
            /\ c = file[AuthJSON] /\ Len(PutOps(c)) = 3 /\ Credential(PutOps(c)) = c
            /\ Others(g)
            /\ pc[g] = "idle" /\ handle'[g] = "none"
            /\ pc'[g] = "writing" /\ todo'[g] = PutOps(c)
            /\ action'[g] = [name |-> "save", account |-> AccountOf(c)]
            /\ UNCHANGED <<file, handle>>
  BY SaveBegins
<1> DEFINE id == AccountOf(c)
<1> SUFFICES ASSUME ~hurt' PROVE Saves'
  BY DEF Saves
<1>2. ~hurt /\ \A h \in Clicks : action[h] = [name |-> "save", account |-> id]
                                    => Credential(todo[h]) = c
  BY <1>1 DEF SaveCurrentCredential, Credential
<1>3. Types /\ Roles /\ id \in Accounts
  BY CredsLemma DEF IInv
<1>4. \A h \in Clicks : Saving(h, id) => Credential(todo[h]) = c
  <2> SUFFICES ASSUME NEW h \in Clicks, Saving(h, id) PROVE Credential(todo[h]) = c
    OBVIOUS
  <2>1. action[h] \in Actions /\ action[h].name = "save" /\ action[h].account = id
    BY <1>3, ClicksLemma DEF Types, ControlTypes, Saving
  <2>2. action[h] = [name |-> "save", account |-> id]
    BY <2>1 DEF Actions
  <2> QED BY <1>2, <2>2
<1> HIDE DEF id
<1>5. SavesOf(id)
  BY <1>2, <1>3 DEF Saves
<1>6. ASSUME NEW h \in Clicks, Saving(h, id)
      PROVE  handle[h] = "open" => file[Head(todo[h]).file] \in {Torn, c}
  <2>1. PICK d \in Creds : SavesAgree(id, d) /\ Credential(todo[h]) = d
    BY <1>3, <1>5, <1>6, SavedTogether
  <2>2. d = c
    BY <1>4, <1>6, <2>1
  <2> QED BY <1>6, <2>1, <2>2 DEF SavesAgree
<1>7. \A h \in Clicks \ {g} : \A jd \in Accounts :
        (Saving(h, jd)' <=> Saving(h, jd)) /\ todo'[h] = todo[h] /\ handle'[h] = handle[h]
  BY <1>1, ClicksLemma DEF Others, Saving
<1>8. Saving(g, id)' /\ WillCopy(g)' /\ WillShow(g)'
  <2>1. action'[g].name = "save" /\ action'[g].account = id
    BY <1>1 DEF id
  <2>2. Len(todo'[g]) = 3
    BY <1>1
  <2> QED BY <1>1, <2>1, <2>2 DEF Saving, WillCopy, WillShow
<1>9. \A h \in Clicks : Saving(h, id)' =>
            /\ Credential(todo'[h]) = c
            /\ handle'[h] = "open" => file'[Head(todo'[h]).file] \in {Torn, c}
  BY <1>1, <1>3, <1>4, <1>6, <1>7
<1>10. SavesOf(id)'
  <2>1. Copied(id, c)' /\ Shown(id, c)'
    BY <1>8 DEF Copied, Shown
  <2>2. SavesAgree(id, c)'
    BY <1>9, <2>1 DEF SavesAgree
  <2> QED BY <2>2 DEF SavesOf
<1>11. ASSUME NEW jd \in Accounts, jd # id PROVE SavesOf(jd)'
  <2>1. SavesOf(jd)
    BY <1>2 DEF Saves
  <2>2. ~Saving(g, jd) /\ ~Saving(g, jd)'
    <3>1. action'[g].account = id
      BY <1>1 DEF id
    <3> QED BY <1>1, <1>11, <3>1 DEF Saving
  <2>3. \A h \in Clicks : Saving(h, jd)' <=> Saving(h, jd)
    BY <1>7, <2>2
  <2>4. \A h \in Clicks : Saving(h, jd) => todo'[h] = todo[h] /\ handle'[h] = handle[h]
    BY <1>7, <2>2
  <2>5. Removing(jd) => Removing(jd)'
    BY <1>1, ClicksLemma DEF Others, Removing
  <2> QED BY <1>1, <1>3, <2>1, <2>3, <2>4, <2>5, SavesOfKept
<1> QED BY <1>10, <1>11 DEF Saves

\* No click moves, and the deletion does not end.
LEMMA ClicksStay ==
    ASSUME IInv, Saves, UNCHANGED hurt, Others("dialog"),
           \A f \in PerAccount : file'[f] = file[f],
           \A h \in Clicks : handle'[h] = handle[h] \/ Shut(h),
           pc["dialog"] # "removing" \/ UNCHANGED <<pc, action>>
    PROVE  Saves'
<1>1. \A id \in Accounts : Removing(id) => Removing(id)'
  BY DEF Removing
<1>2. \A h \in Clicks, id \in Accounts :
        /\ Saving(h, id)' <=> Saving(h, id)
        /\ Saving(h, id) => todo'[h] = todo[h] /\ (handle'[h] = handle[h] \/ Shut(h))
  BY ClicksLemma DEF Others, Saving
<1>3. Types /\ Roles
  BY DEF IInv
<1> QED BY <1>1, <1>2, <1>3, SavesKept

LEMMA BeginSaves ==
    ASSUME IInv, Saves, NEW g \in Clicks, NEW name \in {"switch", "deactivate"}, NEW id, NEW ops,
           Begins(g, name, id), Plans(g, ops), UNCHANGED hurt
    PROVE  Saves'
<1>1. Types /\ Roles
  BY DEF IInv
<1>2. /\ pc[g] = "idle" /\ pc' = [pc EXCEPT ![g] = "writing"]
      /\ action' = [action EXCEPT ![g] = [name |-> name, account |-> id]]
      /\ todo' = [todo EXCEPT ![g] = ops] /\ UNCHANGED <<file, handle>>
  BY DEF Begins, Plans
<1>3. g \in Goroutines /\ pc \in [Goroutines -> Steps] /\ action \in [Goroutines -> Actions]
      /\ todo \in [Goroutines -> Seq(Operations)]
  BY <1>1, ClicksLemma DEF Types, ControlTypes
<1>4. action'[g] = [name |-> name, account |-> id]
  BY <1>2, <1>3
<1>5. action'[g].name # "save"
  BY <1>4
<1>6. \A jd \in Accounts : ~Saving(g, jd) /\ ~Saving(g, jd)'
  BY <1>2, <1>5 DEF Saving
<1>7. Others(g)
  BY <1>2, <1>3 DEF Others
<1> QED BY <1>1, <1>2, <1>6, <1>7, OtherClicks

\* What is left while the copy of an account is removed.
LEMMA RemoveEntrySaves == IInv /\ Saves /\ RemoveEntry => Saves'
<1> SUFFICES ASSUME IInv, Saves, RemoveEntry PROVE Saves'
  OBVIOUS
<1>0. PICK id \in Accounts : id = action["dialog"].account
  BY DEF RemoveEntry, IInv, Roles
<1>1. PICK f \in {"saved", "meta"} \X {id} : Becomes([file EXCEPT ![f] = None], handle)
  BY <1>0 DEF RemoveEntry
<1>2. pc["dialog"] = "removing" /\ UNCHANGED <<pc, action, todo, hurt>>
  BY DEF RemoveEntry
<1>3. Types /\ Roles
  BY <1>2 DEF IInv, Roles
<1> SUFFICES ASSUME ~hurt, NEW jd \in Accounts PROVE SavesOf(jd)'
  BY <1>2 DEF Saves
<1>4. f \in {Saved(id), Meta(id)} /\ f \in Files
  <2>1. f \in {Saved(id), Meta(id)}
    BY <1>1 DEF Saved, Meta
  <2> QED BY <1>3, <2>1, FilesLemma
<1>5. handle \in Handled /\ file \in [Files -> Contents]
  BY <1>3 DEF Types
<1>6. /\ file' = [file EXCEPT ![f] = None] /\ \A h \in Clicks : Shut(h)
  BY <1>1, <1>3, <1>5, BecomesEffect DEF Shut
<1>7. \A h \in Clicks : /\ Saving(h, jd)' <=> Saving(h, jd)
                       /\ todo'[h] = todo[h]
  BY <1>2 DEF Saving
<1>8. Removing(jd)' <=> Removing(jd)
  BY <1>2 DEF Removing
<1>9. SavesOf(jd)
  BY DEF Saves
<1>10. CASE jd # id
  <2>1. \A o \in {Dir(jd), Saved(jd), Meta(jd)} : o # f /\ o \in Files
    BY <1>4, <1>10, AccountFiles, FilesLemma
  <2>2. \A o \in {Dir(jd), Saved(jd), Meta(jd)} : file'[o] = file[o]
    BY <1>4, <1>5, <1>6, <2>1
  <2> QED BY <1>3, <1>6, <1>7, <1>8, <1>9, <2>2, SavesOfKept
<1>11. CASE jd = id
  <2>1. Removing(jd)'
    BY <1>0, <1>2, <1>8, <1>11 DEF Removing
  <2>2. CASE \A h \in Clicks : ~Saving(h, jd)
    BY <1>7, <2>1, <2>2 DEF SavesOf
  <2>3. CASE \E c \in Creds : SavesAgree(jd, c)
    <3>1. PICK c \in Creds : SavesAgree(jd, c)
      BY <2>3
    <3>2. \A o \in Files : file'[o] \in {None, file[o]}
      BY <1>4, <1>5, <1>6
    <3>3. ASSUME NEW h \in Clicks, Saving(h, jd)
          PROVE  handle'[h] = "open" => file'[Head(todo[h]).file] \in {Torn, c}
      <4>1. Head(todo[h]).file \in Files
        BY <1>3, <3>3, SavingList, FilesLemma, ZenonT(60)
      <4>2. handle'[h] = "open" => handle[h] = "open" /\ file'[Head(todo[h]).file] # None
        BY <1>6 DEF Shut
      <4> QED BY <3>1, <3>2, <3>3, <4>1, <4>2 DEF SavesAgree
    <3>4. SavesAgree(jd, c)'
      BY <1>7, <2>1, <3>1, <3>3 DEF SavesAgree
    <3> QED BY <3>4 DEF SavesOf
  <2> QED BY <1>9, <2>2, <2>3 DEF SavesOf
<1> QED BY <1>10, <1>11

LEMMA RemoveDirSaves == IInv /\ Saves /\ RemoveDir => Saves'
<1> SUFFICES ASSUME IInv, Saves, RemoveDir PROVE Saves'
  OBVIOUS
<1>0. PICK id \in Accounts : id = action["dialog"].account
  BY DEF RemoveDir, IInv, Roles
<1>1. /\ pc["dialog"] = "removing" /\ Becomes([file EXCEPT ![Dir(id)] = None], handle)
      /\ file[Saved(id)] = None /\ file[Meta(id)] = None
      /\ Idle("dialog") /\ UNCHANGED hurt
  BY <1>0 DEF RemoveDir, Succeeds
<1>2. Types /\ Roles /\ "dialog" \in Goroutines
  BY <1>1, ClicksLemma DEF IInv, Roles
<1> SUFFICES ASSUME ~hurt, NEW jd \in Accounts PROVE SavesOf(jd)'
  BY <1>1 DEF Saves
<1>3. Dir(id) \in Files
  BY <1>2, FilesLemma
<1>4. handle \in Handled /\ file \in [Files -> Contents]
  BY <1>2 DEF Types
<1>5. /\ file' = [file EXCEPT ![Dir(id)] = None] /\ \A h \in Clicks : Shut(h)
  BY <1>1, <1>2, <1>4, BecomesEffect DEF Shut
<1>6. Others("dialog")
  BY <1>1, <1>2, IdleEffect
<1>7. Removing(jd) => jd = id
  BY <1>0 DEF Removing
<1>8. \A h \in Clicks : /\ Saving(h, jd)' <=> Saving(h, jd)
                       /\ todo'[h] = todo[h]
  BY <1>6, ClicksLemma DEF Others, Saving
<1>9. SavesOf(jd)
  BY DEF Saves
<1>10. CASE jd # id
  <2>1. \A o \in {Dir(jd), Saved(jd), Meta(jd)} : o # Dir(id) /\ o \in Files
    BY <1>10, AccountFiles, FilesLemma
  <2>2. \A o \in {Dir(jd), Saved(jd), Meta(jd)} : file'[o] = file[o]
    BY <1>4, <1>5, <2>1
  <2> QED BY <1>2, <1>5, <1>7, <1>8, <1>9, <1>10, <2>2, SavesOfKept
<1>11. CASE jd = id
  <2>1. file'[Dir(id)] = None /\ file'[Saved(id)] = None /\ file'[Meta(id)] = None
    <3>1. Saved(id) # Dir(id) /\ Meta(id) # Dir(id) /\ {Saved(id), Meta(id)} \subseteq Files
      BY <1>2, AccountFiles, FilesLemma
    <3> QED BY <1>1, <1>3, <1>4, <1>5, <3>1 
  <2>2. Gone(jd)' /\ Usable(jd)'
    BY <1>11, <2>1 DEF Gone, Usable
  <2>3. CASE \A h \in Clicks : ~Saving(h, jd)
    BY <1>8, <2>2, <2>3 DEF SavesOf
  <2>4. CASE \E c \in Creds : SavesAgree(jd, c)
    <3>1. PICK c \in Creds : SavesAgree(jd, c)
      BY <2>4
    <3>2. ASSUME NEW h \in Clicks, Saving(h, jd) PROVE handle'[h] # "open"
      <4>1. handle[h] = "open" => Head(todo[h]).file \in {Saved(jd), Meta(jd)}
        BY <1>2, <3>2, SavingList
      <4>2. handle[h] # "open"
        BY <1>1, <1>11, <3>1, <3>2, <4>1, ThereLemma DEF SavesAgree
      <4> QED BY <1>5, <4>2 DEF Shut
    <3>3. Copied(jd, c)' /\ Shown(jd, c)'
      BY <2>2 DEF Copied, Shown
    <3>4. SavesAgree(jd, c)'
      BY <1>8, <3>1, <3>2, <3>3 DEF SavesAgree
    <3> QED BY <3>4 DEF SavesOf
  <2> QED BY <1>9, <2>3, <2>4 DEF SavesOf
<1> QED BY <1>10, <1>11

LEMMA DialogSaves ==
    /\ IInv /\ Saves /\ (\E id \in Accounts : DeleteFromVault(id)) => Saves'
    /\ IInv /\ Saves /\ (CheckInstalled \/ Refuse \/ RemoveFails) => Saves'
<1>1. ASSUME IInv, Saves, NEW id \in Accounts, DeleteFromVault(id) PROVE Saves'
  <2>1. /\ pc["dialog"] = "idle" /\ UNCHANGED <<file, todo, handle, hurt>>
        /\ action' = [action EXCEPT !["dialog"] = [name |-> "delete", account |-> id]]
        /\ \/ pc' = [pc EXCEPT !["dialog"] = "refused"]
           \/ pc' = [pc EXCEPT !["dialog"] = "checking"]
    BY <1>1 DEF DeleteFromVault, Begins
  <2>2. pc \in [Goroutines -> Steps] /\ action \in [Goroutines -> Actions]
    BY <1>1 DEF IInv, Types, ControlTypes
  <2>3. Others("dialog")
    BY <2>1, <2>2 DEF Others
  <2> QED BY <1>1, <2>1, <2>3, ClicksStay
<1>2. ASSUME IInv, Saves, CheckInstalled PROVE Saves'
  <2>1. /\ pc["dialog"] = "checking" /\ UNCHANGED <<file, action, todo, handle, hurt>>
        /\ \/ pc' = [pc EXCEPT !["dialog"] = "refused"]
           \/ pc' = [pc EXCEPT !["dialog"] = "removing"]
    BY <1>2 DEF CheckInstalled
  <2>2. pc \in [Goroutines -> Steps]
    BY <1>2 DEF IInv, Types, ControlTypes
  <2>3. Others("dialog")
    BY <2>1, <2>2 DEF Others
  <2> QED BY <1>2, <2>1, <2>3, ClicksStay
<1>3. ASSUME IInv, Saves, Refuse PROVE Saves'
  <2>1. pc["dialog"] = "refused" /\ Idle("dialog") /\ UNCHANGED <<file, handle, hurt>>
    BY <1>3 DEF Refuse
  <2>2. Others("dialog")
    BY <1>3, <2>1, ClicksLemma, IdleEffect DEF IInv
  <2> QED BY <1>3, <2>1, <2>2, ClicksStay
<1>4. ASSUME RemoveFails PROVE Saves'
  BY <1>4 DEF RemoveFails, Fails, Saves
<1> QED BY <1>1, <1>2, <1>3, <1>4

LEMMA AroundSaves ==
    /\ Crash => Saves'
    /\ IInv /\ Saves /\ (\E c \in Creds : Login(c)) => Saves'
    /\ IInv /\ Saves /\ (Arrive \/ ReadAuth \/ ReadKey \/ UNCHANGED vars) => Saves'
<1>1. Crash => Saves'
  BY DEF Crash, Saves
<1>2. ASSUME IInv, Saves, NEW c \in Creds, Login(c) PROVE Saves'
  <2>1. Becomes([file EXCEPT ![AuthJSON] = c], handle) /\ UNCHANGED <<pc, action, todo, hurt>>
    BY <1>2 DEF Login
  <2>2. file \in [Files -> Contents] /\ handle \in Handled /\ Types
    BY <1>2 DEF IInv, Types
  <2>3. file' = [file EXCEPT ![AuthJSON] = c] /\ \A h \in Clicks : Shut(h)
    BY <2>1, <2>2, BecomesEffect DEF Shut
  <2>4. \A f \in PerAccount : file'[f] = file[f]
    BY <2>2, <2>3, FilesLemma
  <2> QED BY <1>2, <2>1, <2>3, <2>4, ClicksStay DEF Others
<1>3. ASSUME IInv, Saves, Arrive \/ ReadAuth \/ ReadKey \/ UNCHANGED vars PROVE Saves'
  <2>1. UNCHANGED <<file, pc, action, todo, handle, hurt>>
    BY <1>3 DEF Arrive, ReadAuth, ReadKey, vars, goroutine
  <2> QED BY <1>3, <2>1, ClicksStay DEF Others
<1> QED BY <1>1, <1>2, <1>3

LEMMA StepSaves == IInv /\ Saves /\ [Next]_vars => Saves'
<1> SUFFICES ASSUME IInv, Saves, [Next]_vars PROVE Saves'
  OBVIOUS
<1>1. CASE \E g \in Clicks : Click(g)
  <2>1. PICK g \in Clicks : Click(g)
    BY <1>1
  <2>2. CASE Deactivate(g)
    <3>1. \E ops : Begins(g, "deactivate", "none") /\ Plans(g, ops) /\ UNCHANGED hurt
      BY <2>2 DEF Deactivate
    <3> QED BY <3>1, BeginSaves
  <2>3. CASE \E id \in Accounts : SwitchTo(g, id)
    <3>1. \E id, ops : Begins(g, "switch", id) /\ Plans(g, ops) /\ UNCHANGED hurt
      BY <2>3 DEF SwitchTo
    <3> QED BY <3>1, BeginSaves
  <2> QED BY <2>1, <2>2, <2>3, TruncateSaves, OperateSaves, OperateFailsSaves, SaveSaves DEF Click
<1> QED BY <1>1, DialogSaves, RemoveEntrySaves, RemoveDirSaves, AroundSaves DEF Next

\* When all actions are over and none failed, an account the menu lists has a copy that
\* can be switched to and that it shows, whatever saves and deletions came at the same
\* time (Vault.Put, Vault.Delete).
THEOREM StoreListedIsUsable == Spec => []ListedIsUsable
<1>1. Init => Saves
  BY InitSaves
<1>2. ASSUME IInv, Saves PROVE ListedIsUsable
  <2> SUFFICES ASSUME \A g \in Goroutines : pc[g] = "idle", ~hurt, NEW id \in Accounts
               PROVE  Usable(id)
    BY DEF ListedIsUsable, Usable
  <2>1. ~Removing(id) /\ \A g \in Clicks : ~Saving(g, id)
    BY ClicksLemma DEF Removing, Saving
  <2>2. CASE Usable(id)
    BY <2>2
  <2>3. CASE \E c \in Creds : SavesAgree(id, c)
    <3>1. PICK c \in Creds : SavesAgree(id, c)
      BY <2>3
    <3>2. /\ Gone(id) \/ file[Saved(id)] = c
          /\ Usable(id) \/ file[Meta(id)] = c
      BY <2>1, <3>1 DEF SavesAgree, Copied, Shown
    <3> QED BY <3>2 DEF Gone, Usable
  <2> QED BY <1>2, <2>1, <2>2, <2>3 DEF Saves, SavesOf
<1> QED BY <1>1, <1>2, StepSaves, StoreInvariant, PTL DEF Spec

-----------------------------------------------------------------------------
(* The probe of a plan *)

PlanTypes ==
    /\ probe \in [Models -> {"waiting", "asking", "sending", "answered", "done"}]
    /\ outcome \in [Models -> Outcomes]
    /\ ctx \in {"live", "timed out", "cancelled"}
    /\ denied \in [Models -> Nat]
    /\ allowed \subseteq Models /\ errs \subseteq Models /\ blocked \in BOOLEAN
    /\ late \subseteq Models

\* A goroutine that is done has recorded one verdict, unless it was called off; one
\* that is not has recorded none.
OneVerdict ==
    \A m \in Models :
        /\ m \notin allowed \/ denied[m] = 0
        /\ m \in allowed \/ denied[m] # 0 => m \notin errs
        /\ probe[m] = "done" /\ ctx = "live" => m \in allowed \/ denied[m] # 0 \/ m \in errs
        /\ probe[m] # "done" => m \notin allowed /\ denied[m] = 0 /\ m \notin errs

Probing ==
    /\ plan = "none" => OneVerdict
    /\ ctx = "live" => ~blocked
    /\ plan # "none" => \A m \in Models : probe[m] = "done"

PlanIInv == PlanTypes /\ Probing /\ EveryModelHasAVerdict

Sending == {m \in Models : probe[m] = "sending"}

\* As long as the context lives all requests on their way have a slot; from then on,
\* none joins those that are on their way or left late.
Lateness ==
    /\ Cardinality(Holding) <= Slots
    /\ ctx = "live" => late = {}
    /\ ctx # "live" => Cardinality(late \cup Sending) <= Slots
    /\ ctx = "cancelled" => Cardinality(late \cup Sending) < Slots

-----------------------------------------------------------------------------
LEMMA PlanInitInv == PlanInit => PlanIInv
<1> SUFFICES ASSUME PlanInit PROVE PlanIInv
  OBVIOUS
<1>1. PlanTypes
  <2>1. outcome \in [Models -> Outcomes] /\ denied \in [Models -> Nat]
    BY DEF PlanInit, Outcomes
  <2> QED BY <2>1 DEF PlanInit, PlanTypes
<1>2. OneVerdict
  BY DEF PlanInit, OneVerdict
<1> QED BY <1>1, <1>2 DEF PlanInit, PlanIInv, Probing, EveryModelHasAVerdict

\* A goroutine waits, asks, or is answered; or nothing happens.
LEMMA AskingInv ==
    ASSUME PlanIInv, NEW m \in Models,
           Acquire(m) \/ Ask(m) \/ Send(m) \/ (\E o \in Outcomes : Answered(m, o))
    PROVE  PlanIInv'
<1>1. /\ UNCHANGED <<ctx, res, plan>>
      /\ probe[m] # "done" /\ late' \subseteq Models
      /\ UNCHANGED probe \/ \E p \in {"asking", "sending", "answered"} : probe' = [probe EXCEPT ![m] = p]
      /\ outcome' \in [Models -> Outcomes]
  BY ZenonT(60) DEF Acquire, Ask, Send, Answered, PlanIInv, PlanTypes
<1>2. PlanTypes'
  BY <1>1 DEF res, PlanIInv, PlanTypes
<1>3. plan = "none"
  BY <1>1 DEF PlanIInv, Probing
<1>4. OneVerdict'
  BY <1>1, <1>3 DEF res, PlanIInv, PlanTypes, Probing, OneVerdict
<1> QED BY <1>1, <1>2, <1>3, <1>4 DEF res, PlanIInv, Probing, EveryModelHasAVerdict

\* A goroutine that is called off has no verdict.
LEMMA GiveUpInv == ASSUME PlanIInv, NEW m \in Models, GiveUp(m) PROVE PlanIInv'
<1>1. /\ UNCHANGED <<outcome, late, ctx, res, plan>> /\ ctx # "live"
      /\ probe[m] # "done" /\ probe' = [probe EXCEPT ![m] = "done"]
  BY DEF GiveUp
<1>2. plan = "none"
  BY <1>1 DEF PlanIInv, Probing
<1>3. OneVerdict'
  BY <1>1, <1>2 DEF res, PlanIInv, PlanTypes, Probing, OneVerdict
<1> QED BY <1>1, <1>2, <1>3 DEF res, PlanIInv, PlanTypes, Probing, EveryModelHasAVerdict

LEMMA RecordInv == ASSUME PlanIInv, NEW m \in Models, Record(m) PROVE PlanIInv'
<1>1. /\ probe[m] = "answered" /\ probe' = [probe EXCEPT ![m] = "done"]
      /\ UNCHANGED <<outcome, late, plan>>
  BY DEF Record
<1>2. plan = "none"
  BY <1>1 DEF PlanIInv, Probing
<1>3. \A n \in Models :
        /\ probe'[n] = IF n = m THEN "done" ELSE probe[n]
        /\ n \in allowed' <=> n \in allowed \/ (n = m /\ outcome[m] = "allowed")
        /\ denied'[n] = IF n = m /\ outcome[m] = "denied" THEN denied[n] + 1 ELSE denied[n]
        /\ n \in errs' <=> n \in errs \/ (n = m /\ outcome[m] = "error" /\ ctx = "live")
  BY <1>1 DEF Record, CountsError, PlanIInv, PlanTypes
<1>4. ctx' = "live" => ~blocked' /\ ctx = "live" /\ outcome[m] # "blocked"
  BY DEF Record, PlanIInv, Probing
<1>5. PlanTypes'
  <2>1. probe' \in [Models -> {"waiting", "asking", "sending", "answered", "done"}]
    BY <1>1 DEF PlanIInv, PlanTypes
  <2>2. ctx' \in {"live", "timed out", "cancelled"} /\ blocked' \in BOOLEAN
    BY DEF Record, PlanIInv, PlanTypes
  <2>3. denied' \in [Models -> Nat]
    <3>1. denied \in [Models -> Nat]
      BY DEF PlanIInv, PlanTypes
    <3>2. denied' = denied \/ denied' = [denied EXCEPT ![m] = denied[m] + 1]
      BY DEF Record
    <3>3. denied[m] + 1 \in Nat
      BY <3>1
    <3> QED BY <3>1, <3>2, <3>3
  <2>4. allowed' \subseteq Models /\ errs' \subseteq Models
    BY DEF Record, PlanIInv, PlanTypes
  <2> QED BY <1>1, <2>1, <2>2, <2>3, <2>4 DEF PlanIInv, PlanTypes
<1>6. OneVerdict'
  <2> SUFFICES ASSUME NEW n \in Models
               PROVE  /\ n \notin allowed' \/ denied'[n] = 0
                      /\ n \in allowed' \/ denied'[n] # 0 => n \notin errs'
                      /\ probe'[n] = "done" /\ ctx' = "live"
                            => n \in allowed' \/ denied'[n] # 0 \/ n \in errs'
                      /\ probe'[n] # "done" => n \notin allowed' /\ denied'[n] = 0 /\ n \notin errs'
    BY DEF OneVerdict
  <2>1. CASE n = m
    <3>1. /\ m \notin allowed /\ denied[m] = 0 /\ m \notin errs
          /\ outcome[m] \in {"allowed", "denied", "blocked", "error"}
      BY <1>1, <1>2 DEF PlanIInv, PlanTypes, Probing, OneVerdict, Outcomes
    <3> QED BY <1>3, <1>4, <2>1, <3>1
  <2>2. CASE n # m
    BY <1>2, <1>3, <1>4, <2>2 DEF PlanIInv, Probing, OneVerdict
  <2> QED BY <2>1, <2>2
<1> QED BY <1>1, <1>2, <1>4, <1>5, <1>6 DEF PlanIInv, Probing, EveryModelHasAVerdict

LEMMA TimeOutInv == PlanIInv /\ TimeOut => PlanIInv'
  BY DEF TimeOut, res, PlanIInv, PlanTypes, Probing, OneVerdict, EveryModelHasAVerdict

\* When all goroutines are done, each model has its verdict.
LEMMA ReturnInv == PlanIInv /\ Return => PlanIInv'
<1> SUFFICES ASSUME PlanIInv, Return PROVE PlanIInv'
  OBVIOUS
<1>1. /\ plan = "none" /\ \A m \in Models : probe[m] = "done"
      /\ UNCHANGED <<probe, outcome, late, ctx, allowed, blocked, errs>>
      /\ denied' = IF blocked THEN FoldBlocked ELSE denied
      /\ plan' \in {"error", "cached"} /\ (blocked => plan' = "cached")
  BY DEF Return
<1>2. PlanTypes'
  <2>1. denied' \in [Models -> Nat]
    <3>1. denied \in [Models -> Nat]
      BY DEF PlanIInv, PlanTypes
    <3>2. \A m \in Models : denied[m] + 1 \in Nat
      BY <3>1
    <3>3. FoldBlocked \in [Models -> Nat]
      BY <3>2 DEF FoldBlocked
    <3> QED BY <1>1, <3>3 DEF PlanIInv, PlanTypes
  <2> QED BY <1>1, <2>1 DEF PlanIInv, PlanTypes
<1>3. EveryModelHasAVerdict'
  <2>1. CASE blocked
    <3>1. denied' = FoldBlocked
      BY <1>1, <2>1
    <3>2. \A m \in Models : denied'[m] = denied[m] + 1 /\ denied[m] \in Nat
      BY <3>1 DEF FoldBlocked, PlanIInv, PlanTypes
    <3>3. Denied' = Models
      BY <3>2 DEF Denied
    <3> QED BY <1>1, <2>1, <3>3 DEF PlanIInv, Probing, EveryModelHasAVerdict
  <2>2. CASE ~blocked
    <3>1. Denied' = Denied
      BY <1>1, <2>2 DEF Denied
    <3>2. ctx = "live" =>
            /\ allowed \cup Denied \cup errs = Models
            /\ allowed \cap Denied = {} /\ (allowed \cup Denied) \cap errs = {}
      BY <1>1 DEF PlanIInv, PlanTypes, Probing, OneVerdict, Denied
    <3> QED BY <1>1, <2>2, <3>1, <3>2 DEF EveryModelHasAVerdict
  <2> QED BY <2>1, <2>2
<1> QED BY <1>1, <1>2, <1>3 DEF PlanIInv, Probing

LEMMA PlanStepInv == PlanIInv /\ [PlanNext]_planVars => PlanIInv'
<1> SUFFICES ASSUME PlanIInv, [PlanNext]_planVars PROVE PlanIInv'
  OBVIOUS
<1>1. CASE Return
  BY <1>1, ReturnInv
<1>2. CASE TimeOut
  BY <1>2, TimeOutInv
<1>3. ASSUME NEW m \in Models, Goroutine(m) PROVE PlanIInv'
  BY <1>3, AskingInv, GiveUpInv, RecordInv DEF Goroutine
<1>4. CASE UNCHANGED planVars
  BY <1>4 DEF planVars, res, PlanIInv, PlanTypes, Probing, OneVerdict, EveryModelHasAVerdict, Denied
<1> QED BY <1>1, <1>2, <1>3, <1>4 DEF PlanNext

-----------------------------------------------------------------------------
\* Fewer models are not more, and there are never more than slots.
LEMMA Fewer ==
    ASSUME NEW S \in SUBSET Models, NEW T \in SUBSET S
    PROVE  /\ IsFiniteSet(S) /\ Cardinality(S) \in Nat /\ Cardinality(T) \in Nat
           /\ Cardinality(T) <= Cardinality(S)
<1>1. IsFiniteSet(S)
  BY ProbeAssumption, FS_Subset
<1>2. IsFiniteSet(T) /\ Cardinality(T) <= Cardinality(S)
  BY <1>1, FS_Subset
<1> QED BY <1>1, <1>2, FS_CardinalityType

LEMMA OneMoreOrLess ==
    ASSUME NEW S \in SUBSET Models, NEW m \in Models
    PROVE  /\ m \notin S => Cardinality(S \cup {m}) = Cardinality(S) + 1
           /\ m \in S => Cardinality(S \ {m}) = Cardinality(S) - 1
<1>1. IsFiniteSet(S)
  BY Fewer
<1> QED BY <1>1, FS_AddElement, FS_RemoveElement

\* While the context stays as it is, neither a slot is taken nor a request started.
LEMMA LatenessShrinks ==
    ASSUME PlanTypes, Lateness, UNCHANGED ctx, Holding' \subseteq Holding,
           late' \cup Sending' \subseteq late \cup Sending, ctx = "live" => late' = {}
    PROVE  Lateness'
<1>1. Holding \in SUBSET Models /\ late \cup Sending \in SUBSET Models
  BY DEF Holding, Sending, PlanTypes
<1>2. /\ Cardinality(Holding') <= Cardinality(Holding)
      /\ Cardinality(Holding') \in Nat /\ Cardinality(Holding) \in Nat
  BY <1>1, Fewer
<1>3. /\ Cardinality(late' \cup Sending') <= Cardinality(late \cup Sending)
      /\ Cardinality(late' \cup Sending') \in Nat /\ Cardinality(late \cup Sending) \in Nat
  BY <1>1, Fewer
<1> HIDE DEF Holding, Sending
<1> QED BY <1>2, <1>3, ProbeAssumption DEF Lateness

LEMMA StepLateness == PlanIInv /\ Lateness /\ [PlanNext]_planVars => Lateness'
<1> SUFFICES ASSUME PlanIInv, Lateness, [PlanNext]_planVars PROVE Lateness'
  OBVIOUS
<1>1. PlanTypes /\ Sending \subseteq Holding /\ Holding \in SUBSET Models
  BY DEF PlanIInv, Sending, Holding
<1>2. ASSUME NEW m \in Models, Acquire(m) PROVE Lateness'
  <2>1. /\ m \notin Holding /\ Holding' = Holding \cup {m} /\ Sending' = Sending
        /\ Cardinality(Holding) < Slots /\ UNCHANGED <<late, ctx>>
    BY <1>1, <1>2 DEF Acquire, Holding, Sending, PlanTypes
  <2>2. Cardinality(Holding') = Cardinality(Holding) + 1 /\ Cardinality(Holding) \in Nat
    BY <1>1, <2>1, OneMoreOrLess, Fewer
  <2>3. Cardinality(Holding') <= Slots
    BY <2>1, <2>2, ProbeAssumption
  <2> QED BY <2>1, <2>3 DEF Lateness
<1>3. ASSUME NEW m \in Models, Ask(m) PROVE Lateness'
  <2>1. Holding' = Holding /\ ctx = "live" /\ UNCHANGED <<late, ctx>>
    BY <1>1, <1>3 DEF Ask, Holding, PlanTypes
  <2> QED BY <2>1 DEF Lateness
<1>4. ASSUME NEW m \in Models, GiveUp(m) \/ Send(m) \/ \E o \in Outcomes : Answered(m, o)
      PROVE  Lateness'
  <2>1. Holding' \subseteq Holding /\ UNCHANGED ctx
    BY <1>1, <1>4 DEF GiveUp, Send, Answered, Holding, PlanTypes
  <2>2. late' \cup Sending' \subseteq late \cup Sending
    BY <1>1, <1>4 DEF GiveUp, Send, Answered, Sending, PlanTypes
  <2>3. ctx = "live" => late' = {}
    BY <1>4 DEF GiveUp, Send, Answered, Lateness
  <2> QED BY <1>1, <2>1, <2>2, <2>3, LatenessShrinks
<1>5. ASSUME NEW m \in Models, Record(m) PROVE Lateness'
  <2>1. /\ m \in Holding /\ Holding' = Holding \ {m} /\ Sending' = Sending /\ UNCHANGED late
        /\ m \notin Sending
    BY <1>1, <1>5 DEF Record, Holding, Sending, PlanTypes
  <2>2. CASE UNCHANGED ctx
    BY <1>1, <2>1, <2>2, LatenessShrinks DEF Lateness
  <2>3. CASE ctx = "live" /\ ctx' = "cancelled"
    <3>1. late' \cup Sending' \in SUBSET (Holding \ {m})
      BY <1>1, <2>1, <2>3 DEF Lateness
    <3>2. Cardinality(late' \cup Sending') <= Cardinality(Holding \ {m})
          /\ Cardinality(late' \cup Sending') \in Nat
      <4>1. Holding \ {m} \in SUBSET Models
        BY <1>1
      <4> HIDE DEF Holding, Sending
      <4> QED BY <3>1, <4>1, Fewer
    <3>3. Cardinality(Holding \ {m}) = Cardinality(Holding) - 1 /\ Cardinality(Holding) \in Nat
      BY <1>1, <2>1, OneMoreOrLess, Fewer
    <3>4. Cardinality(Holding) <= Slots
      BY DEF Lateness
    <3> HIDE DEF Holding, Sending
    <3>5. Cardinality(Holding') <= Slots /\ Cardinality(late' \cup Sending') < Slots
      BY <2>1, <3>2, <3>3, <3>4, ProbeAssumption
    <3> QED BY <2>3, <3>2, <3>5, ProbeAssumption DEF Lateness
  <2> QED BY <1>5, <2>2, <2>3 DEF Record
<1>6. CASE TimeOut
  <2>1. Holding' = Holding /\ Sending' = Sending /\ UNCHANGED late
    BY <1>6 DEF TimeOut, Holding, Sending
  <2>2. CASE UNCHANGED ctx
    BY <2>1, <2>2 DEF Lateness
  <2>3. CASE ctx = "live" /\ ctx' = "timed out"
    <3>1. late' \cup Sending' \in SUBSET Holding
      BY <1>1, <2>1, <2>3 DEF Lateness
    <3> HIDE DEF Holding, Sending
    <3>2. /\ Cardinality(late' \cup Sending') <= Cardinality(Holding)
          /\ Cardinality(late' \cup Sending') \in Nat /\ Cardinality(Holding) \in Nat
      BY <1>1, <3>1, Fewer
    <3>3. Cardinality(Holding) <= Slots
      BY DEF Lateness
    <3>4. Cardinality(Holding') <= Slots /\ Cardinality(late' \cup Sending') <= Slots
      BY <2>1, <3>2, <3>3, ProbeAssumption
    <3> QED BY <2>3, <3>4 DEF Lateness
  <2> QED BY <1>6, <2>2, <2>3 DEF TimeOut
<1>7. CASE Return \/ UNCHANGED planVars
  <2>1. UNCHANGED <<probe, late, ctx>>
    BY <1>7 DEF Return, planVars
  <2> QED BY <2>1 DEF Lateness, Holding, Sending
<1> QED BY <1>2, <1>3, <1>4, <1>5, <1>6, <1>7 DEF PlanNext, Goroutine

\* The goroutines' verdicts fit together in every reachable state.
THEOREM ProbeInvariant == PlanSpec => []PlanIInv
  BY PlanInitInv, PlanStepInv, PTL DEF PlanSpec

\* When Plan returns no model is forgotten or has two verdicts, for any number of
\* models and of slots.
THEOREM ProbeEveryModelHasAVerdict == PlanSpec => []EveryModelHasAVerdict
<1>1. PlanIInv => EveryModelHasAVerdict
  BY DEF PlanIInv
<1> QED BY <1>1, ProbeInvariant, PTL

\* Once an account is known to be blocked, fewer models than there are slots are still
\* asked about, and once the time is up, no more than that.
THEOREM ProbeFewAskLate == PlanSpec => []FewAskLate
<1>1. PlanInit => Lateness
  <2> SUFFICES ASSUME PlanInit PROVE Lateness
    OBVIOUS
  <2>1. Holding = {}
    BY DEF PlanInit, Holding
  <2> QED BY <2>1, FS_EmptySet, ProbeAssumption DEF PlanInit, Lateness
<1>2. PlanIInv /\ Lateness => FewAskLate
  <2> SUFFICES ASSUME PlanIInv, Lateness PROVE FewAskLate
    OBVIOUS
  <2>1. late \cup Sending \in SUBSET Models /\ late \in SUBSET (late \cup Sending)
    BY DEF PlanIInv, PlanTypes, Sending
  <2>2. /\ Cardinality(late) <= Cardinality(late \cup Sending)
        /\ Cardinality(late) \in Nat /\ Cardinality(late \cup Sending) \in Nat
    BY <2>1, Fewer
  <2>3. Cardinality({}) = 0
    BY FS_EmptySet
  <2> QED BY <2>2, <2>3, ProbeAssumption DEF Lateness, FewAskLate
<1> QED BY <1>1, <1>2, PlanInitInv, PlanStepInv, StepLateness, PTL DEF PlanSpec
=============================================================================
