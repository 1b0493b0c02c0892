--------------------------- MODULE SetupContract ---------------------------
(***************************************************************************)
(* What the setup wizard promises about its hand-over, without saying how: *)
(* a local side follows a remote side.  An exchange begins when the remote *)
(* side takes over a configuration; inside it the local files change only  *)
(* to what it carries (or to wreckage, when a write is cut short); outside *)
(* one the local secret can only be lost, never replaced; and a party is   *)
(* told of success only when the local side holds all of its exchange.     *)
(* The remote side is another program: it may change by itself.            *)
(***************************************************************************)
CONSTANTS
    Cfgs,       \* configuration contents
    Damaged,    \* a missing or truncated file, not one of Cfgs
    Keys,       \* shared secrets
    NoKey,      \* no secret, one of Keys
    Parties,    \* who may be told of success
    InitialCfg  \* what an unconfigured remote side has

VARIABLES
    remote,     \* [cfg, secret] the remote side holds
    local,      \* [cfg, secret] the local files hold
    exchange,   \* the [cfg, secret] being handed over, as a set of at most one
    told        \* parties whose last word was success

vars == <<remote, local, exchange, told>>

Holding == [cfg : Cfgs, secret : Keys]

Init ==
    /\ remote = [cfg |-> InitialCfg, secret |-> NoKey]
    /\ local = [cfg |-> Damaged, secret |-> NoKey]
    /\ exchange = {}
    /\ told = {}

\* The remote side takes over x; a missing secret leaves the one it has.
Begin(p, x) ==
    /\ exchange = {}
    /\ exchange' = {x}
    /\ remote' = [x EXCEPT !.secret = IF @ = NoKey THEN remote.secret ELSE @]
    /\ told' = told \ {p}
    /\ UNCHANGED local

\* The remote side refuses p, or takes over p's configuration unseen.
Refuse(p) ==
    /\ told' = told \ {p}
    /\ remote' \in Holding
    /\ UNCHANGED <<local, exchange>>

WriteConfig ==
    /\ \E x \in exchange : \E c \in {x.cfg, Damaged} :
         local' = [local EXCEPT !.cfg = c]
    /\ exchange' \in {exchange, {}}
    /\ UNCHANGED <<remote, told>>

WriteSecret ==
    /\ \E x \in exchange : \E k \in {x.secret, NoKey} : local' = [local EXCEPT !.secret = k]
    /\ exchange' \in {exchange, {}}
    /\ UNCHANGED <<remote, told>>

\* A hard failure or a crash: no one is told of success.
Abandon ==
    /\ exchange # {}
    /\ exchange' = {}
    /\ UNCHANGED <<remote, local, told>>

Announce(p) ==
    /\ exchange = {local}
    /\ exchange' = {}
    /\ told' = told \cup {p}
    /\ UNCHANGED <<remote, local>>

\* The local configuration is edited, or wrecked, between exchanges.
LocalDrift ==
    /\ exchange = {}
    /\ \/ \E c \in Cfgs \cup {Damaged} : local' = [local EXCEPT !.cfg = c]
       \/ local' = [local EXCEPT !.secret = NoKey]
    /\ UNCHANGED <<remote, exchange, told>>

RemoteDrift ==
    /\ remote' \in Holding
    /\ UNCHANGED <<local, exchange, told>>

Next ==
    \/ \E p \in Parties : Refuse(p) \/ Announce(p)
    \/ \E p \in Parties, x \in Holding : Begin(p, x)
    \/ WriteConfig \/ WriteSecret \/ Abandon \/ LocalDrift \/ RemoteDrift

Spec == Init /\ [][Next]_vars
=============================================================================
