------------------------------ MODULE UserTable ------------------------------
(***************************************************************************)
(* The life of a context's user list: the administrator adds and removes   *)
(* users while peers present challenges.                                   *)
(***************************************************************************)
EXTENDS CryptoAuthUsers

CONSTANTS Passwords, Logins,
          MaxUsers      \* bound: users in the list

VARIABLES users,    \* ca->users
          granted   \* history: the <<login, password>> that addUser has taken and
                    \* no removeUsers has named since

userVars == <<users, granted>>

UserInit == users = <<>> /\ granted = {}

\* CryptoAuth_addUser, with a login or (None) without.
Grant(password, login) ==
    /\ Len(users) < MaxUsers
    /\ users' = AddUser(users, password, login, None)
    /\ granted' = granted \cup {<<LoginFor(users, login), password>>}

\* CryptoAuth_removeUsers of a login, or (None) of everybody.
Revoke(login) ==
    /\ users' = RemoveUsers(users, login)
    /\ granted' = {g \in granted : login # None /\ g[1] # login}

KnownLogins == Logins \cup {Anon(i) : i \in 0 .. MaxUsers}

UserNext == \/ \E password \in Passwords, login \in Logins \cup {None} : Grant(password, login)
            \/ \E login \in KnownLogins \cup {None} : Revoke(login)

UserSpec == UserInit /\ [][UserNext]_userVars

-----------------------------------------------------------------------------
\* The list is one of users with distinct <<login, password>>, and it holds exactly
\* what was granted and not revoked: a removal takes out every user of its login
\* and no other, a refused duplicate loses nothing.
ListIsGranted ==
    /\ {<<users[i].login, users[i].password>> : i \in DOMAIN users} = granted
    /\ \A i, j \in DOMAIN users :
           users[i].login = users[j].login /\ users[i].password = users[j].password => i = j

Challenges == [type : {1, 2}, login : KnownLogins, password : Passwords]

\* Adding a user never changes which user an existing challenge names: whoever
\* could connect before still can.
AddKeepsAuth ==
    [][Len(users') > Len(users) =>
         \A auth \in Challenges :
             GetAuth(users, auth) # None => GetAuth(users', auth) = GetAuth(users, auth)]_userVars
=============================================================================
