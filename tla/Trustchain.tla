----------------------------- MODULE Trustchain -----------------------------
(***************************************************************************)
(* What the server of Organization answers to user_get, how a client       *)
(* verifies it up to the root key, and the client's cache of verified      *)
(* certificates.                                                           *)
(*                                                                         *)
(* Certificates never change once the server has them, so an answer, and   *)
(* the cache, name the certificates they hold: those of users, of          *)
(* revocations (by the user revoked) and of devices.  An answer is computed *)
(* by the server in one step and loaded by the client in a later one.      *)
(***************************************************************************)
EXTENDS Organization

CONSTANT CacheValidity  \* how long a verified certificate is kept

ASSUME TrustAssumption ==
  CacheValidity \in Nat \ {0} /\ \A s \in Setups : s.fetches \in Nat

VARIABLES
  client,    \* one client process: its user, its cache, its commands
  fetches    \* user_get commands sent

MaxFetches == setup.fetches     \* bound: user_get commands

trustVars == <<orgVars, client, fetches>>

NoAnswer == [user |-> {}, users |-> {}, revoked |-> {}, devices |-> {}]
EmptyCache == [users |-> NoneYet, revoked |-> NoneYet, devices |-> NoneYet]

\* me: {} until the client logs in, then {its user}; revoking: a user_revoke
\* answered and not yet noted; mine: the users it revoked; raced: when the revocation
\* was noted, an answer that is older was on its way, or the cache had learned of it.
TrustInit ==
  /\ OrgInit
  /\ client = [me |-> {}, cache |-> EmptyCache, answer |-> NoAnswer,
               revoking |-> {}, mine |-> {}, raced |-> {}]
  /\ fetches = 0

-----------------------------------------------------------------------------
(* The server: the certificates that an answer carries.                     *)

IsDevice(d) == d \in DOMAIN devices

\* Those who certified a device and its user, and who revoked the user.
Certifiers(d) ==
  {x \in {devices[d].author, users[d[1]].author, users[d[1]].revoker} : IsDevice(x)}

\* All that is met from S, when f gives what each element leads to: the least set with S
\* that f does not leave.
Reached(S, f) ==
  LET closed == {T \in SUBSET DOMAIN f : S \subseteq T /\ \A y \in T : f[y] \subseteq T}
  IN  {x \in DOMAIN f : \A T \in closed : x \in T}

\* _recursive_extract_creators
Creators(S) == Reached(S, [d \in DOMAIN devices |-> Certifiers(d)])

DevicesOf(u) == {d \in DOMAIN devices : d[1] = u}

\* get_user_with_devices_and_trustchain.
UserGet(u) ==
  LET own == DevicesOf(u)
      chain == Creators({x \in {users[u].author, users[u].revoker}
                               \cup {devices[d].author : d \in own} : IsDevice(x)})
      met == {u} \cup {d[1] : d \in chain}
  IN  [user |-> {u}, users |-> met, devices |-> own \cup chain,
       revoked |-> {v \in met : users[v].revoked # 0}]

-----------------------------------------------------------------------------
(* The client: verification of an answer.                                   *)

\* An author and the authors of its certificate, of theirs, and so on, up to the root.
Signers(d) ==
  Reached({x \in {d} : IsDevice(x)},
          [x \in DOMAIN devices |-> {y \in {devices[x].author} : IsDevice(y)}])
SignChain(d) == {d} \cup {devices[x].author : x \in Signers(d)}

\* No certificate is missing and the author is an admin, or signs for itself.
AuthorIsEntitled(a, author, subject) ==
  /\ author \in a.devices
  /\ author[1] # subject => author[1] \in a.users /\ users[author[1]].profile = "ADMIN"

\* The author was not revoked at the time of the signature.
NotPosterior(a, author, t) ==
  author[1] \in a.revoked => t <= users[author[1]].revoked

\* _recursive_verify_device, every signature on the way to the root key, which a loop of
\* signatures would not reach.
DeviceIsSigned(a, d, root) ==
  LET chain == SignChain(d) IN
  /\ Root(root) \in chain
  /\ \A x \in chain :
       IF IsDevice(x)
         THEN devices[x].author # Root(root) => AuthorIsEntitled(a, devices[x].author, x[1])
         ELSE x = Root(root)

\* _verify_user and _verify_revoked_user: signed by the root key, or by a
\* device of somebody else.
SignedBy(a, author, subject, root) ==
  \/ author = Root(root)
  \/ /\ author[1] # subject
     /\ AuthorIsEntitled(a, author, subject)
     /\ DeviceIsSigned(a, author, root)

\* Of an answer, what is not in the cache.
Unverified(a, cache) ==
  [users |-> a.users \ DOMAIN cache.users, revoked |-> a.revoked \ DOMAIN cache.revoked,
   devices |-> a.devices \ DOMAIN cache.devices]

IsSigned(a, new, root) ==
  /\ \A d \in new.devices : DeviceIsSigned(a, d, root)
  /\ \A u \in new.users : SignedBy(a, users[u].author, u, root)
  /\ \A u \in new.revoked : SignedBy(a, users[u].revoker, u, root)

IsInTime(a, new) ==
  LET chains(S) == UNION {SignChain(x) : x \in {y \in S : IsDevice(y)}}
      devs == chains(new.devices \cup {users[u].author : u \in new.users}
                                 \cup {users[u].revoker : u \in new.revoked})
  IN  /\ \A d \in {x \in devs : IsDevice(x)} : NotPosterior(a, devices[d].author, devices[d].created)
      /\ \A u \in new.users : NotPosterior(a, users[u].author, users[u].created)
      /\ \A u \in new.revoked : NotPosterior(a, users[u].revoker, users[u].revoked)

\* The cache keeps what was verified for a limited time.
Expire(cache) ==
  LET Fresh(f) == [x \in {y \in DOMAIN f : now - f[y] < CacheValidity} |-> f[x]]
  IN  [users |-> Fresh(cache.users), revoked |-> Fresh(cache.revoked),
       devices |-> Fresh(cache.devices)]

Remember(f, S) == [x \in DOMAIN f \cup S |-> IF x \in DOMAIN f THEN f[x] ELSE now]

\* load_user_and_devices: nothing is kept of an answer that fails.
Loaded(a, cache, root) ==
  LET new == Unverified(a, cache)
  IN  IF IsSigned(a, new, root) /\ IsInTime(a, new)
        THEN [users |-> Remember(cache.users, new.users),
              revoked |-> Remember(cache.revoked, new.revoked),
              devices |-> Remember(cache.devices, new.devices)]
        ELSE cache

-----------------------------------------------------------------------------
(* The steps of the client.                                                 *)

SessionOf(c) == conns[c].st = "open" /\ conns[c].dev[1] \in client.me

LogIn(c) ==
  /\ MaxFetches > 0 /\ client.me = {} /\ conns[c].st = "open"
  /\ client' = [client EXCEPT !.me = {conns[c].dev[1]}]
  /\ UNCHANGED <<orgVars, fetches>>

\* get_user of a user that is not in the cache.
FetchUser(c, u) ==
  /\ fetches < MaxFetches
  /\ SessionOf(c) /\ client.answer = NoAnswer
  /\ u \in DOMAIN users /\ u \notin DOMAIN Expire(client.cache).users
  /\ client' = [client EXCEPT !.answer = UserGet(u)]
  /\ fetches' = fetches + 1
  /\ UNCHANGED orgVars

LoadAnswer ==
  /\ client.answer # NoAnswer
  /\ \E me \in client.me :
       client' = [client EXCEPT !.answer = NoAnswer,
                    !.cache = Loaded(client.answer, Expire(client.cache), users[me].root)]
  /\ UNCHANGED <<orgVars, fetches>>

\* revoke_user: the command, then the answer, which invalidates the cache.
ClientRevoke(c, u, k) ==
  /\ SessionOf(c) /\ client.revoking = {}
  /\ UserRevoke(c, u, k)
  /\ client' = [client EXCEPT !.revoking = {u}]
  /\ UNCHANGED fetches

\* The certificate of the user leaves the cache; the revocation would stay.
InvalidateUserCache(cache, u) == [cache EXCEPT !.users = Drop(@, {u})]

RevokeAnswered ==
  \E u \in client.revoking :
    /\ client' = [client EXCEPT !.revoking = {}, !.mine = @ \cup {u},
                    !.cache = InvalidateUserCache(@, u),
                    !.raced = IF \/ u \in client.answer.users \ client.answer.revoked
                                 \/ u \in DOMAIN Expire(client.cache).revoked
                                THEN @ \cup {u} ELSE @]
    /\ UNCHANGED <<orgVars, fetches>>

TrustNext ==
  \/ OrgNext /\ UNCHANGED <<client, fetches>>
  \/ LoadAnswer \/ RevokeAnswered
  \/ \E c \in Conns :
       \/ LogIn(c)
       \/ \E u \in UserIds :
            \/ FetchUser(c, u)
            \/ \E k \in 1 .. MaxNow + ClockSkew : ClientRevoke(c, u, k)

TrustSpec == TrustInit /\ [][TrustNext]_trustVars

-----------------------------------------------------------------------------
(* Properties.                                                              *)

TrustTypeOK ==
  /\ client.me \subseteq DOMAIN users
  /\ client.answer.users \subseteq DOMAIN users
  /\ client.answer.devices \subseteq DOMAIN devices
  /\ DOMAIN client.cache.users \subseteq DOMAIN users
  /\ DOMAIN client.cache.devices \subseteq DOMAIN devices
  /\ client.mine \cup client.raced \cup DOMAIN client.cache.revoked
       \subseteq {u \in DOMAIN users : users[u].revoked # 0}
  /\ fetches \in 0 .. MaxFetches

\* Whatever was registered, by whom, and whoever was revoked since, user_get
\* carries all the certificates that lead from a user to its root key: a client
\* that has nothing in its cache finds none missing and no author that is not
\* entitled, and no chain of signatures is a loop.  (In memory two bootstraps
\* at once may leave two root keys, and then nothing holds them together.)
AnswersAreComplete ==
  (\A u, v \in DOMAIN users : users[u].root = users[v].root) => \A u \in DOMAIN users :
    LET a == UserGet(u) IN IsSigned(a, Unverified(a, EmptyCache), users[u].root)

\* After a revocation of its own the client shows the user as revoked, unless
\* an older answer was on its way ("Invalidate potential cache to avoid
\* displaying the user as not-revoked", logged_client.py), or the cache had
\* learned of the revocation before the command was answered: it keeps that
\* certificate, which then expires before the one of the user does.
OwnRevocationsShow ==
  \A u \in client.mine \ client.raced :
    u \in DOMAIN Expire(client.cache).users => u \in DOMAIN Expire(client.cache).revoked

\* The same with no exception.
OwnRevocationsAlwaysShow ==
  \A u \in client.mine :
    u \in DOMAIN Expire(client.cache).users => u \in DOMAIN Expire(client.cache).revoked

\* Who is trusted: one root and one user per human, sessions end with the revocation of their
\* user, and a client learns from the certificates it is sent all that it has to verify.
TrustIsSound ==
  /\ OrgTypeOK /\ RootIsUnique /\ HumanIsUnique /\ RevokedSessionsEnd
  /\ TrustTypeOK /\ AnswersAreComplete /\ OwnRevocationsShow
=============================================================================
