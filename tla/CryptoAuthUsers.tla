--------------------------- MODULE CryptoAuthUsers ---------------------------
(***************************************************************************)
(* The list of authorised users of a CryptoAuth context: what addUser,     *)
(* removeUsers and getAuth of crypto/CryptoAuth.c do to it.  Hashes are    *)
(* injective here, so a password stands for its hash and for the secret,   *)
(* and a login for its hash.                                               *)
(***************************************************************************)
EXTENDS Integers, Sequences, SequencesExt

CONSTANTS None      \* a NULL password, login or ip6, and "no user found"

\* The name made up for a user who is added without a login.
Anon(i) == <<"Anon", i>>

LoginFor(users, login) == IF login = None THEN Anon(Len(users)) ELSE login

\* The refusal of addUser (CryptoAuth_addUser_DUPLICATE).
IsDuplicate(users, password, login) ==
    \E i \in DOMAIN users : /\ users[i].password = password
                            /\ users[i].login = LoginFor(users, login)

\* MUTANT: the user goes to the head of the list.
AddUserFirst(users, password, login, ip6) ==
    IF IsDuplicate(users, password, login) THEN users
    ELSE <<[login |-> LoginFor(users, login), password |-> password, ip6 |-> ip6]>> \o users

\* CryptoAuth_addUser_ipv6.
AddUser(users, password, login, ip6) ==
    IF IsDuplicate(users, password, login) THEN users
    ELSE Append(users, [login |-> LoginFor(users, login), password |-> password, ip6 |-> ip6])

\* MUTANT: the scan stops at the first user it removes.
RemoveFirstUser(users, login) ==
    IF login = None THEN <<>>
    ELSE IF \E i \in DOMAIN users : users[i].login = login
    THEN RemoveAt(users, SelectInSeq(users, LAMBDA u : u.login = login))
    ELSE users

\* CryptoAuth_removeUsers.
RemoveUsers(users, login) ==
    LET kept[n \in 0 .. Len(users)] ==
            IF n = 0 THEN <<>>
            ELSE IF login = None \/ users[n].login = login THEN kept[n - 1]
            ELSE Append(kept[n - 1], users[n])
    IN kept[Len(users)]

\* Does the challenge of a handshake packet name user u?
Names(auth, u) == \/ auth.type = 1 /\ auth.password = u.password
                  \/ auth.type = 2 /\ auth.login = u.login

\* getAuth: the first user in the list whom the challenge names.
GetAuth(users, auth) ==
    IF \E i \in DOMAIN users : Names(auth, users[i])
    THEN users[SelectInSeq(users, LAMBDA u : Names(auth, u))]
    ELSE None
=============================================================================
