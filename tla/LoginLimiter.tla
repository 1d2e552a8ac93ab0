---------------------------- MODULE LoginLimiter ----------------------------
(***************************************************************************)
(* The sliding-window budgets of the console (LoginRateLimiter): an        *)
(* attempt takes a slot of its user name and then one of its address,      *)
(* each under a lock of its own, and gives both back if it succeeds.       *)
(***************************************************************************)
EXTENDS Naturals, Integers, Sequences, FiniteSets, FiniteSetsExt

CONSTANTS
    Names,          \* user names that are presented, known or not
    Addresses,      \* client addresses
    UserLimit,      \* USERNAME_FAILURE_LIMIT
    IpLimit,        \* IP_FAILURE_LIMIT
    Window          \* RATE_WINDOW, in steps of the clock

ASSUME LimitsAssumption == {UserLimit, IpLimit, Window} \subseteq Nat \ {0}
ASSUME AddressesAssumption == Addresses # {}

VARIABLES
    byUser,         \* by_username of every limiter
    byIp            \* by_ip of every limiter

limiterVars == <<byUser, byIp>>

\* The instances of AuthState that reserve both budgets.
Limiters == {"login", "claim", "change"}

LimiterInit ==
    /\ byUser = [l \in Limiters |-> [n \in Names |-> <<>>]]
    /\ byIp = [l \in Limiters |-> [i \in Addresses |-> <<>>]]

Entry(token, ip, at) == [token |-> token, ip |-> ip, at |-> at]
Tokens(q) == {q[i].token : i \in DOMAIN q}

\* Entries leave from the front while the front has left the window.
prune_front(q, now) ==
    LET live == {i \in DOMAIN q : now - q[i].at < Window}
    IN IF live = {} THEN <<>> ELSE SubSeq(q, Min(live), Len(q))

\* Only the slots taken from the presenting address count.
UserHasRoom(q, ip) ==
    Cardinality({i \in DOMAIN q : q[i].ip = ip}) < UserLimit

reserve_username_key(l, n, e) ==
    LET q == prune_front(byUser[l][n], e.at)
    IN byUser' = [byUser EXCEPT ![l][n] =
                     IF UserHasRoom(q, e.ip) THEN Append(q, e) ELSE q]

\* Mutant: the budget is one slot too large.
IpHasRoomForOneMore(q) == Len(q) <= IpLimit

IpHasRoom(q) == Len(q) < IpLimit

reserve_ip_key(l, e) ==
    LET q == prune_front(byIp[l][e.ip], e.at)
    IN byIp' = [byIp EXCEPT ![l][e.ip] = IF IpHasRoom(q) THEN Append(q, e) ELSE q]

\* Mutant: the newest slot of the address is given back, not the attempt's.
WithoutNewest(q, token) == SubSeq(q, 1, Len(q) - 1)

\* refund_key_by_token: the first entry with the attempt's token, if it is
\* there, leaves its position.
WithoutToken(q, token) ==
    LET at == {i \in DOMAIN q : q[i].token = token}
    IN IF at = {} THEN q
       ELSE SubSeq(q, 1, Min(at) - 1) \o SubSeq(q, Min(at) + 1, Len(q))

RefundUser(l, n, token) == byUser' = [byUser EXCEPT ![l][n] = WithoutToken(@, token)]
RefundIp(l, ip, token) == byIp' = [byIp EXCEPT ![l][ip] = WithoutToken(@, token)]
=============================================================================
