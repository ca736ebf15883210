------------------------------ MODULE Accounts ------------------------------
(***************************************************************************)
(* The people of Ern-OS: first boot, login and the account commands        *)
(* (start_ern_os.ep, system/kernel/user_accounts.ep, system/shell/         *)
(* the_shell.ep and the people commands of do_command.ep), on top of what  *)
(* the disk promises (module Store).                                       *)
(*                                                                         *)
(* An account is a record file and a home folder.  Every disk call is a    *)
(* request to the Store, which may refuse it; the machine may stop at any  *)
(* moment.  A record is a sequence of two fields, so that an interrupted   *)
(* write can cut it: the lock (salt, secret, rounds and scheme, which are  *)
(* of use only together) and the role.  The diary is not modelled here: an *)
(* append that fails only adds a warning to the screen.                    *)
(***************************************************************************)
EXTENDS Naturals, Sequences, FiniteSets

CONSTANTS
    Names,      \* the names that pass account_name_is_ok
    Secrets,    \* the passwords of at least eight characters
    Nobody      \* no name, no password

VARIABLES
    store, limbo, request, answer,  \* the disk: see Store
    at,         \* what the main thread waits for
    who,        \* the name it deals with
    secret,     \* the password that was typed last
    role,       \* the role an account is to be made with
    tries,      \* wrong passwords in this login
    session,    \* who is at the keyboard, and with which role
    given       \* history: the passwords and roles that may be in force

disk == <<store, limbo, request, answer>>
mind == <<at, who, secret, role, tries, session>>
vars == <<disk, mind, given>>

Lock(s, scheme) == <<"lock", s, scheme>>
Role(r) == <<"role", r, "-">>
Roles == {"admin", "member"}
Schemes == {"v2", "legacy"}

Locks == {Lock(s, scheme) : s \in Secrets, scheme \in Schemes}
Fields == Locks \cup {Role(r) : r \in Roles}

\* What write_account_record stores; a record may have no role in it.
Records == {<<l>> : l \in Locks} \cup {<<l, Role(r)>> : l \in Locks, r \in Roles}

Users == <<"users", Nobody>>
RecordOf(n) == <<"record", n>>
HomeOf(n) == <<"home", n>>
Spots == {Users} \cup {RecordOf(n) : n \in Names} \cup {HomeOf(n) : n \in Names}

Drive == INSTANCE Store WITH Chunk <- Fields, Texts <- Records, Paths <- Spots

\* record_field: the role of a record, or "" where it has none.
RoleOf(text) == IF Len(text) = 2 THEN text[2][2] ELSE ""

NoSession == [person |-> Nobody, role |-> ""]

Steps ==
    {"off", "formatted", "ensure", "made", "meet", "taken", "written", "home", "homemade",
     "rolledback", "login", "known", "password", "verify", "compare", "migrated", "role",
     "enter", "shell", "free", "told", "removable", "removed"}

TypeOK ==
    /\ store \in [Spots -> [kind : {"nothing", "folder", "file"}, data : Seq(Fields)]]
    /\ DOMAIN limbo = Spots
    /\ request = Drive!NoRequest \/ request.path \in Spots
    /\ at \in Steps
    /\ who \in Names \cup {Nobody} /\ secret \in Secrets \cup {Nobody}
    /\ role \in Roles \cup {""}
    /\ tries \in 0 .. 2
    /\ session \in [person : Names \cup {Nobody}, role : Roles \cup {""}]
    /\ given \in [Names -> SUBSET (Secrets \X Roles)]

\* A new disk, or one of an older version with an administrator on it.
Init ==
    /\ at = "off" /\ who = Nobody /\ secret = Nobody /\ role = ""
    /\ tries = 0 /\ session = NoSession
    /\ limbo = [p \in Spots |-> Drive!Nothing]
    /\ request = Drive!NoRequest
    /\ answer = Drive!Waiting
    /\ \/ /\ store = [p \in Spots |-> Drive!Nothing]
          /\ given = [n \in Names |-> {}]
       \/ \E n \in Names, s \in Secrets :
             /\ store = [p \in Spots |->
                    IF p \in {Users, HomeOf(n)} THEN Drive!Folder
                    ELSE IF p = RecordOf(n) THEN Drive!File(<<Lock(s, "legacy"), Role("admin")>>)
                    ELSE Drive!Nothing]
             /\ given = [m \in Names |-> IF m = n THEN {<<s, "admin">>} ELSE {}]

-----------------------------------------------------------------------------
(* Asking the disk *)

Ask(op, p, text, next) ==
    /\ Drive!Submit(Drive!Request(op, p, text, p))
    /\ at' = next

\* The disk serves the open request.
Serve == Drive!Serve /\ UNCHANGED <<mind, given>>

Told(step) == at = step /\ request = Drive!NoRequest
Yes == answer.code = 1
No == answer.code = 0

\* The thread goes on without a disk call.
Goto(next) == at' = next /\ UNCHANGED disk

Remembers == UNCHANGED <<who, secret, role, tries, session>>

\* The process ends: nothing of what it knew remains.
FallAsleep ==
    /\ at' = "off" /\ who' = Nobody /\ secret' = Nobody /\ role' = ""
    /\ tries' = 0 /\ session' = NoSession

-----------------------------------------------------------------------------
(* main: is the disk formatted?  If not, first_boot. *)

Boot ==
    /\ at = "off"
    /\ Ask("exists", Users, <<>>, "formatted")
    /\ Remembers /\ UNCHANGED given

\* vf_disk_is_formatted decides between first_boot and the login.
Formatted ==
    /\ Told("formatted")
    /\ \/ Yes /\ Goto("login")
       \/ No /\ Ask("exists", Users, <<>>, "ensure")
    /\ Remembers /\ UNCHANGED given

\* vf_ensure_folder of system/registry/users.
Ensure ==
    /\ Told("ensure")
    /\ \/ Yes /\ Ask("is_folder", Users, <<>>, "made")
       \/ No /\ Ask("make_folder", Users, <<>>, "made")
    /\ Remembers /\ UNCHANGED given

\* vf_format_disk makes three folders before this one and two after it; when
\* one of them is refused, the machine switches itself off.
FormatDisk ==
    /\ Told("made")
    /\ \/ Yes /\ Goto("meet") /\ Remembers
       \/ FallAsleep /\ UNCHANGED disk
    /\ UNCHANGED given

\* The loop of first_boot: a name and a password for the administrator.
Meet(n, s) ==
    /\ at = "meet"
    /\ Ask("exists", RecordOf(n), <<>>, "taken")
    /\ who' = n /\ secret' = s /\ role' = "admin"
    /\ UNCHANGED <<tries, session, given>>

-----------------------------------------------------------------------------
(* create_account *)

\* What first_boot and "add a person" do with the answer.
CreateEnds(code) ==
    /\ Goto(IF role = "member" THEN "shell" ELSE IF code = 1 THEN "login" ELSE "meet")
    /\ who' = Nobody /\ secret' = Nobody /\ role' = ""
    /\ UNCHANGED <<tries, session>>
    /\ given' = IF code = 1 THEN [given EXCEPT ![who] = {<<secret, role>>}] ELSE given

\* account_exists: only for a new name the record is written.
Taken ==
    /\ Told("taken")
    /\ \/ Yes /\ CreateEnds(0)
       \/ /\ No
          /\ Ask("write", RecordOf(who), <<Lock(secret, "v2"), Role(role)>>, "written")
          /\ given' = [given EXCEPT ![who] = @ \cup {<<secret, role>>}]
          /\ Remembers

Written ==
    /\ Told("written")
    /\ \/ No /\ CreateEnds(7)
       \/ Yes /\ Ask("exists", HomeOf(who), <<>>, "home") /\ Remembers /\ UNCHANGED given

Home ==
    /\ Told("home")
    /\ \/ Yes /\ CreateEnds(1)
       \/ No /\ Ask("make_folder", HomeOf(who), <<>>, "homemade") /\ Remembers /\ UNCHANGED given

\* Without a home the record is taken back; whether that worked is not asked.
HomeMade ==
    /\ Told("homemade")
    /\ \/ Yes /\ CreateEnds(1)
       \/ /\ No
          /\ Ask("remove_file", RecordOf(who), <<>>, "rolledback")
          /\ Remembers /\ UNCHANGED given

RolledBack == Told("rolledback") /\ CreateEnds(7)

-----------------------------------------------------------------------------
(* login_flow and verify_login *)

\* "Who are you?" and account_exists.
Login(n) ==
    /\ at = "login"
    /\ Ask("exists", RecordOf(n), <<>>, "known")
    /\ who' = n
    /\ UNCHANGED <<secret, role, tries, session, given>>

StartOver ==
    /\ Goto("login")
    /\ who' = Nobody /\ secret' = Nobody /\ tries' = 0
    /\ UNCHANGED <<role, session, given>>

Known ==
    /\ Told("known")
    /\ \/ No /\ StartOver
       \/ Yes /\ Goto("password") /\ Remembers /\ UNCHANGED given

\* A password is typed; verify_login begins with account_exists.
Password(s) ==
    /\ at = "password"
    /\ Ask("exists", RecordOf(who), <<>>, "verify")
    /\ secret' = s
    /\ UNCHANGED <<who, role, tries, session, given>>

\* The third wrong password ends the login.
WrongPassword ==
    \/ /\ tries < 2
       /\ tries' = tries + 1
       /\ Goto("password")
       /\ secret' = Nobody
       /\ UNCHANGED <<who, role, session, given>>
    \/ tries = 2 /\ StartOver

Verify ==
    /\ Told("verify")
    /\ \/ No /\ WrongPassword
       \/ Yes /\ Ask("read", RecordOf(who), <<>>, "compare") /\ Remembers /\ UNCHANGED given

\* secrets_match, by the scheme of the record.
Fits(scheme) == answer.seen # <<>> /\ answer.seen[1] = Lock(secret, scheme)

AskRole == Ask("exists", RecordOf(who), <<>>, "role") /\ Remembers /\ UNCHANGED given

\* Mutant: the outcome of the comparison is not looked at.
CompareTrusting == Told("compare") /\ AskRole

\* Mutant: the old record is taken away before the new one is written.
CompareRemoving ==
    /\ Told("compare")
    /\ \/ Fits("v2") /\ AskRole
       \/ /\ Fits("legacy")
          /\ Ask("remove_file", RecordOf(who), <<>>, "migrated")
          /\ Remembers /\ UNCHANGED given
       \/ ~Fits("v2") /\ ~Fits("legacy") /\ WrongPassword

\* A record of the legacy scheme that fits is written anew, with its role.
Compare ==
    /\ Told("compare")
    /\ \/ Fits("v2") /\ AskRole
       \/ /\ Fits("legacy")
          /\ Ask("write", RecordOf(who), <<Lock(secret, "v2")>> \o Tail(answer.seen), "migrated")
          /\ Remembers /\ UNCHANGED given
       \/ ~Fits("v2") /\ ~Fits("legacy") /\ WrongPassword

\* Whether the migration worked is not asked.
Migrated == Told("migrated") /\ AskRole

Enter(r) ==
    /\ Goto("shell")
    /\ session' = [person |-> who, role |-> r]
    /\ who' = Nobody /\ secret' = Nobody /\ tries' = 0
    /\ UNCHANGED <<role, given>>

\* account_role: a record that is not there any more gives no role.
AccountRole ==
    /\ Told("role")
    /\ \/ No /\ Enter("")
       \/ Yes /\ Ask("read", RecordOf(who), <<>>, "enter") /\ Remembers /\ UNCHANGED given

BeginSession == Told("enter") /\ Enter(RoleOf(answer.seen))

-----------------------------------------------------------------------------
(* The people commands *)

IsAdmin == at = "shell" /\ session.role = "admin"

\* "add a person": is the name free?
AddPerson(n) ==
    /\ IsAdmin
    /\ Ask("exists", RecordOf(n), <<>>, "free")
    /\ who' = n
    /\ UNCHANGED <<secret, role, tries, session, given>>

BackToShell ==
    /\ Goto("shell")
    /\ who' = Nobody
    /\ UNCHANGED <<secret, role, tries, session>>

ChoosePassword(s) ==
    /\ Told("free")
    /\ \/ Yes /\ BackToShell /\ UNCHANGED given
       \/ /\ No
          /\ Ask("exists", RecordOf(who), <<>>, "taken")
          /\ secret' = s /\ role' = "member"
          /\ UNCHANGED <<who, tries, session, given>>

\* "list people" asks for the role of everyone.
ListPeople(n) ==
    /\ at = "shell"
    /\ Ask("exists", RecordOf(n), <<>>, "told")
    /\ who' = n
    /\ UNCHANGED <<secret, role, tries, session, given>>

PersonListed == Told("told") /\ BackToShell /\ UNCHANGED given

\* Mutant: people can be told to remove themselves.
RemoveAnyone(n) ==
    /\ IsAdmin
    /\ Ask("exists", RecordOf(n), <<>>, "removable")
    /\ who' = n
    /\ UNCHANGED <<secret, role, tries, session, given>>

\* "remove the person", which nobody can do to themselves.
RemovePerson(n) ==
    /\ IsAdmin
    /\ n # session.person
    /\ Ask("exists", RecordOf(n), <<>>, "removable")
    /\ who' = n
    /\ UNCHANGED <<secret, role, tries, session, given>>

DeleteAccount ==
    /\ Told("removable")
    /\ \/ No /\ BackToShell /\ UNCHANGED given
       \/ Yes /\ Ask("remove_file", RecordOf(who), <<>>, "removed") /\ Remembers /\ UNCHANGED given

Removed ==
    /\ Told("removed")
    /\ BackToShell
    /\ given' = IF Yes THEN [given EXCEPT ![who] = {}] ELSE given

Logout ==
    /\ at = "shell"
    /\ Goto("login")
    /\ session' = NoSession
    /\ UNCHANGED <<who, secret, role, tries, given>>

-----------------------------------------------------------------------------
\* The power goes off, or the person shuts the system down: what the main
\* thread knew is gone, and an open request ends as the disk allows.
PowerOff ==
    /\ at # "off"
    /\ \/ Drive!Stop
       \/ request = Drive!NoRequest /\ UNCHANGED disk
    /\ FallAsleep
    /\ UNCHANGED given

CreateAccount == Taken \/ Written \/ Home \/ HomeMade \/ RolledBack

LoginFlow ==
    \/ \E n \in Names : Login(n)
    \/ \E s \in Secrets : Password(s)
    \/ Known \/ Verify \/ Compare \/ Migrated \/ AccountRole \/ BeginSession

PeopleCommands ==
    \/ \E n \in Names : AddPerson(n) \/ ListPeople(n) \/ RemovePerson(n)
    \/ \E s \in Secrets : ChoosePassword(s)
    \/ PersonListed \/ DeleteAccount \/ Removed \/ Logout

Next ==
    \/ Boot \/ Formatted \/ Ensure \/ FormatDisk
    \/ \E n \in Names, s \in Secrets : Meet(n, s)
    \/ CreateAccount \/ LoginFlow \/ PeopleCommands
    \/ Serve \/ PowerOff

Spec == Init /\ [][Next]_vars

-----------------------------------------------------------------------------
(* Properties *)

\* Whoever comes in typed a password that was given for this name when the
\* account was made, and has the role it was made with or, where the record
\* was cut, none.  What was removed or taken back never opens again.
NobodyEntersUngiven ==
    [][session.person = Nobody /\ session'.person # Nobody
        => \E r \in Roles :
              /\ <<secret, r>> \in given[session'.person]
              /\ session'.role \in {r, ""}]_vars

Opens(n, s) ==
    LET text == store[RecordOf(n)].data IN text # <<>> /\ text[1] \in {Lock(s, "v2"), Lock(s, "legacy")}

Administrators == {n \in Names : RoleOf(store[RecordOf(n)].data) = "admin"}

\* The system writes over a record that is there: account_exists had said that
\* there was none, because a stale stage beside it could not be cleared away.
WritesOver == at = "written" /\ request.op = "write" /\ store[RecordOf(who)] # Drive!Nothing

\* The migration of records, failed writes and power cuts lock nobody out: an
\* account is lost by removing it, by taking a failed creation back, or by a
\* creation that was told that the name is free.
NobodyIsLockedOut ==
    [][\A n \in Names, s \in Secrets :
          Opens(n, s) /\ ~Opens(n, s)'
              => who = n /\ (at \in {"removed", "rolledback"} \/ WritesOver)]_vars

\* Where there was an administrator, the account commands leave one.  The role
\* of the person at the keyboard is the one of their login: should their record
\* have been written over since, they still remove others as an administrator.
AnAdministratorStays ==
    [][Administrators # {} /\ Administrators' = {}
          => \/ WritesOver
             \/ at = "rolledback" /\ role = "admin"
             \/ session.role = "admin" /\ session.person \notin Administrators]_vars

\* "The first boot prepares the disk and asks you to become the administrator":
\* where people can log in, somebody is or can be made one.  It does not hold
\* when a first boot ends between its first folder and the first record.
FirstBootMakesAnAdministrator ==
    at = "login" =>
        \/ Administrators # {}
        \/ \E n \in Names : RoleOf(limbo[RecordOf(n)].data) = "admin"
=============================================================================
