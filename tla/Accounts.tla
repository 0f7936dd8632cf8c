------------------------------ MODULE Accounts ------------------------------
(***************************************************************************)
(* core/auth_db.py and server/routes/auth.py: users with roles, lock-out     *)
(* after failed logins, token pairs with rotation, and what of it survives    *)
(* a restart.                                                               *)
(*                                                                          *)
(* The route handlers never await, so each runs to its end on the event      *)
(* loop: a handler is one action.  Users and the blacklist are two files;     *)
(* either save may fail.  A failed save of the users raises after the        *)
(* change was made in memory; a failed save of the blacklist is only logged.  *)
(* Time passes in ticks; a password is right or wrong.                       *)
(***************************************************************************)
EXTENDS Naturals, Sequences, FiniteSets

CONSTANTS Usernames,          \* user names
          MaxFailed,      \* _MAX_FAILED_ATTEMPTS
          Window,         \* _LOCKOUT_WINDOW_SECONDS
          LockTime,       \* _LOCKOUT_DURATION_SECONDS
          AccessLife,     \* _ACCESS_TOKEN_MINUTES
          RefreshLife,    \* _REFRESH_TOKEN_DAYS
          MaxTime,        \* bound: the clock
          MaxTokens,      \* bound: tokens that clients keep
          MaxEvents       \* bound: wrong passwords, changes by an admin, failed saves

ASSUME AccountsAssumption ==
    /\ {MaxFailed, Window, LockTime, AccessLife, RefreshLife,
        MaxTime, MaxTokens, MaxEvents} \subseteq Nat
    /\ MaxFailed > 0 /\ LockTime >= Window

Roles  == {"admin", "viewer"}
NoUser == [role |-> "none", stamps |-> <<>>, locked |-> 0, version |-> 0]

VARIABLES
    now,       \* time.time()
    users,     \* _users, NoUser for a name that is not there
    disk,      \* users.json
    tokens,    \* the tokens that clients hold; the index is the jti
    blacklist, \* _blacklist
    diskList,  \* token_blacklist.json
    events_left,    \* what is left of MaxEvents
    tries,     \* history: when a login looked at a wrong password since the last reset
    twice,     \* history: a refresh token has been exchanged more than once
    exchanged, \* history: the refresh tokens that were exchanged
    remade,    \* history: names that were deleted
    lost       \* history: a restart has lost a change that was not saved

accvars == <<now, users, disk, tokens, blacklist, diskList, events_left,
             tries, twice, exchanged, remade, lost>>
storage == <<users, disk, blacklist, diskList>>
history == <<twice, exchanged, remade, lost>>

Exists(n)  == users[n] # NoUser
AccUsers   == {n \in Usernames : Exists(n)}

AccTypeOK ==
    /\ now \in 0..MaxTime
    /\ \A n \in Usernames : \A u \in {users[n], disk[n]} :
          /\ u.role \in Roles \cup {"none"} /\ u.stamps \in Seq(0..MaxTime)
          /\ u.locked \in 0..(MaxTime + LockTime) /\ u.version \in 0..MaxEvents
    /\ Len(tokens) <= MaxTokens
    /\ {blacklist, diskList, exchanged} \subseteq SUBSET (1..MaxTokens)
    /\ events_left \in 0..MaxEvents
    /\ twice \in BOOLEAN /\ remade \subseteq Usernames /\ lost \in BOOLEAN

(* A process that finds no user creates the admin its environment names, if it *)
(* names one, and saves it before it serves anybody.                        *)
NewUser(role) == [NoUser EXCEPT !.role = role]
UsersLoaded(found) ==
    IF \A n \in Usernames : found[n] = NoUser
    THEN {found} \cup {[found EXCEPT ![n] = NewUser("admin")] : n \in Usernames}
    ELSE {found}

AccInit ==
    /\ now = 0
    /\ users \in UsersLoaded([n \in Usernames |-> NoUser]) /\ disk = users
    /\ tokens = <<>> /\ blacklist = {} /\ diskList = {}
    /\ events_left = MaxEvents
    /\ tries = [n \in Usernames |-> <<>>]
    /\ twice = FALSE /\ exchanged = {} /\ remade = {} /\ lost = FALSE

----------------------------------------------------------------------------
(* Saving, either file, atomically; or failing, with the file as it was.  k is *)
(* what the event itself takes of what is left.                              *)
Costs(k)        == events_left >= k /\ events_left' = events_left - k
SavesUsers(k)   == Costs(k) /\ disk' = users'
SaveRaises(k)   == Costs(k + 1) /\ UNCHANGED disk
SavesList       == diskList' = blacklist' /\ UNCHANGED events_left
ListNotSaved    == Costs(1) /\ UNCHANGED diskList

(* _generate_access_token and _generate_refresh_token.  Clients keep at most   *)
(* MaxTokens tokens.                                                        *)
Token(n, u, kind, life) ==
    [kind |-> kind, sub |-> n, role |-> IF kind = "access" THEN u.role ELSE "none",
     version |-> u.version, exp |-> now + life]
Issued(n, u) ==
    LET all == tokens \o <<Token(n, u, "access", AccessLife), Token(n, u, "refresh", RefreshLife)>>
    IN  tokens' = SubSeq(all, 1, IF Len(all) > MaxTokens THEN MaxTokens ELSE Len(all))

(* decode_token: not expired, not blacklisted, and not older than the user's    *)
(* version, which is 0 for a user who is not there.                         *)
Accepted(j) ==
    /\ now < tokens[j].exp /\ j \notin blacklist
    /\ tokens[j].version >= users[tokens[j].sub].version
Bearers  == {j \in DOMAIN tokens : Accepted(j)}
AsAdmin  == \E j \in Bearers : tokens[j].kind = "access" /\ tokens[j].role = "admin"

----------------------------------------------------------------------------
(* /auth/setup: the first user, an admin, who is logged in at once.           *)
SetupFirstAdmin(n) ==
    /\ AccUsers = {}
    /\ users' = [users EXCEPT ![n] = NewUser("admin")]
    /\ \/ SavesUsers(0) /\ Issued(n, NewUser("admin"))
       \/ SavesUsers(1) /\ UNCHANGED tokens     \* the login's save raises
       \/ SaveRaises(0) /\ UNCHANGED tokens
    /\ tries' = [tries EXCEPT ![n] = <<>>]
    /\ UNCHANGED <<now, blacklist, diskList, history>>

(* /auth/login.  authenticate refuses a locked account before it looks at the  *)
(* password; a lock that has expired is taken off together with the attempts. *)
Locked(n)   == users[n].locked > now
LockExpired(n) == IF users[n].locked # 0
                 THEN [users[n] EXCEPT !.locked = 0, !.stamps = <<>>]
                 ELSE users[n]

LoginRight(n) ==
    /\ Exists(n) /\ ~Locked(n)
    /\ users' = [users EXCEPT ![n].stamps = <<>>, ![n].locked = 0]
    /\ \/ SavesUsers(0) /\ Issued(n, users[n])
       \/ SaveRaises(0) /\ UNCHANGED tokens
    /\ tries' = [tries EXCEPT ![n] = <<>>]
    /\ UNCHANGED <<now, blacklist, diskList, history>>

(* A wrong password: the attempts of the last window are kept, with this one,   *)
(* and the account is locked when they are MaxFailed.  The attempts are in      *)
(* order of time, the old ones first.                                       *)
InWindow_OfThisTick(stamps) == SelectSeq(stamps, LAMBDA t : t = now)
InWindow(stamps) ==
    SubSeq(stamps, 1 + Cardinality({i \in DOMAIN stamps : ~(stamps[i] + Window > now)}), Len(stamps))
AfterWrong(u) ==
    LET stamps == Append(InWindow(u.stamps), now)
    IN  [u EXCEPT !.stamps = stamps,
                  !.locked = IF Len(stamps) >= MaxFailed THEN now + LockTime ELSE @]

LoginWrong(n) ==
    /\ Exists(n) /\ ~Locked(n)
    /\ users' = [users EXCEPT ![n] = AfterWrong(LockExpired(n))]
    /\ \/ SavesUsers(1) \/ SaveRaises(1)
    /\ tries' = [tries EXCEPT ![n] = Append(@, now)]
    /\ UNCHANGED <<now, tokens, blacklist, diskList, history>>

(* /auth/logout: the token it comes with is revoked.                         *)
Logout ==
    /\ \E j \in Bearers : blacklist' = blacklist \cup {j}
    /\ \/ SavesList \/ ListNotSaved
    /\ UNCHANGED <<now, users, disk, tokens, tries, history>>

(* /auth/refresh: the old token is revoked and a new pair issued.             *)
Rotated_Access(j) == {k \in DOMAIN tokens : tokens[k].kind = "access" /\ tokens[k].sub = tokens[j].sub}
Rotated(j) == {j}

Refresh ==
    /\ \E j \in Bearers :
          /\ tokens[j].kind = "refresh" /\ Exists(tokens[j].sub)
          /\ blacklist' = blacklist \cup Rotated(j)
          /\ Issued(tokens[j].sub, users[tokens[j].sub])
          /\ twice' = (twice \/ j \in exchanged) /\ exchanged' = exchanged \cup {j}
    /\ \/ SavesList \/ ListNotSaved
    /\ UNCHANGED <<now, users, disk, tries, remade, lost>>

----------------------------------------------------------------------------
(* What an admin may do: register, delete, change a role, unlock.             *)
Register(n) ==
    /\ AsAdmin /\ ~Exists(n)
    /\ \E r \in Roles : users' = [users EXCEPT ![n] = NewUser(r)]
    /\ \/ SavesUsers(1) \/ SaveRaises(1)
    /\ tries' = [tries EXCEPT ![n] = <<>>]
    /\ UNCHANGED <<now, tokens, blacklist, diskList, history>>

DeleteUser(n) ==
    /\ AsAdmin /\ Exists(n)
    /\ users[n].role = "admin" => Cardinality({m \in AccUsers : users[m].role = "admin"}) > 1
    /\ users' = [users EXCEPT ![n] = NoUser]
    /\ \/ SavesUsers(1) \/ SaveRaises(1)
    /\ remade' = remade \cup {n}
    /\ UNCHANGED <<now, tokens, blacklist, diskList, tries, twice, exchanged, lost>>

Bumped_Not(u) == u.version
Bumped(u) == u.version + 1

UpdateRole(n) ==
    /\ AsAdmin /\ Exists(n)
    /\ \E r \in Roles : users' = [users EXCEPT ![n].role = r, ![n].version = Bumped(users[n])]
    /\ \/ SavesUsers(1) \/ SaveRaises(1)
    /\ UNCHANGED <<now, tokens, blacklist, diskList, tries, history>>

(* The lock is taken off, the times of the attempts stay.                    *)
TakeLockOff(n) ==
    /\ Exists(n)
    /\ users' = [users EXCEPT ![n].locked = 0]
    /\ \/ SavesUsers(0) \/ SaveRaises(0)
    /\ tries' = [tries EXCEPT ![n] = <<>>]
    /\ UNCHANGED <<now, tokens, blacklist, diskList, history>>

UnlockUser(n) == AsAdmin /\ TakeLockOff(n)

(* With a token of the user, who has to show the old password; the tokens       *)
(* given out stay good.                                                     *)
HoldsToken(n)     == \E j \in Bearers : tokens[j].sub = n
ChangePassword(n) == HoldsToken(n) /\ TakeLockOff(n)

(* A wrong old password is looked at, however often and whether the account is  *)
(* locked or not, and is nowhere counted.                                   *)
WrongOldPassword(n) == HoldsToken(n) /\ Exists(n) /\ UNCHANGED accvars

----------------------------------------------------------------------------
AccTick ==
    /\ now < MaxTime /\ now' = now + 1
    /\ UNCHANGED <<storage, tokens, events_left, tries, history>>

(* The process ends and is started again: _load reads both files.  One that     *)
(* cannot be read counts as empty and stays, until it is saved over.          *)
NoUsers == [n \in Usernames |-> NoUser]

LoadsFiles(found, list) ==
    /\ users' \in UsersLoaded(found) /\ disk' = IF users' = found THEN disk ELSE users'
    /\ blacklist' = list /\ lost' = TRUE
    /\ UNCHANGED <<now, tokens, diskList, tries, twice, exchanged, remade>>

AuthRestart ==
    \/ /\ users # disk \/ blacklist # diskList     \* else nothing changes
       /\ LoadsFiles(disk, diskList) /\ UNCHANGED events_left
    \/ \E found \in {disk, NoUsers}, list \in {diskList, {}} :
          /\ found # disk \/ list # diskList
          /\ LoadsFiles(found, list) /\ Costs(1)

AccNext ==
    \/ \E n \in Usernames :
          \/ SetupFirstAdmin(n) \/ LoginRight(n) \/ LoginWrong(n) \/ Register(n)
          \/ DeleteUser(n) \/ UpdateRole(n)
          \/ UnlockUser(n) \/ ChangePassword(n) \/ WrongOldPassword(n)
    \/ Logout \/ Refresh \/ AccTick \/ AuthRestart

AccSpec == AccInit /\ [][AccNext]_accvars

----------------------------------------------------------------------------
(* In no window of time do logins look at more than MaxFailed wrong passwords   *)
(* of one account, across expiring locks and sliding windows, unless the lock   *)
(* was taken off in between or a restart has lost an attempt                   *)
(* (auth_db.py:399-469).  A wrong old password shown with a token of the        *)
(* account is none of them.                                                 *)
TriesAreBounded ==
    ~lost => \A n \in AccUsers : \A i \in 1..(Len(tries[n]) - MaxFailed) :
                 tries[n][i + MaxFailed] >= tries[n][i] + Window

(* A token that is accepted names the role its user has now, whatever tokens    *)
(* were issued before the role changed, unless the user was deleted in          *)
(* between or a restart has lost the change (auth_db.py:627-635).              *)
TokenRoleIsCurrent ==
    ~lost => \A j \in Bearers :
        LET n == tokens[j].sub IN
        tokens[j].kind = "access" /\ n \notin remade => tokens[j].role = users[n].role

(* A refresh token is exchanged once, across restarts and the expiry of what    *)
(* it gave, unless a restart has lost the blacklist (auth_db.py:663-695).      *)
RefreshedOnce == twice => lost
=============================================================================
