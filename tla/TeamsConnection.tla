-------------------------- MODULE TeamsConnection --------------------------
(***************************************************************************)
(* One organization's settings and its connected Teams account: PATCHes of *)
(* the settings, the OAuth flow that connects an account, the Graph calls  *)
(* in the course of which Microsoft rotates the refresh token, and the     *)
(* disconnecting of the account, all of them on one row.                   *)
(*                                                                         *)
(* A column holds a number, 0 for unset; refresh tokens are numbered in    *)
(* the order in which Microsoft issued them.                               *)
(***************************************************************************)
EXTENDS Naturals

CONSTANTS
    Patchers,       \* concurrent PATCH /organizations/:id/settings
    GraphClients,   \* concurrent users of a Graph client
    Bodies,         \* what a PATCH may carry: functions from columns to values
    NoBody,
    MaxPatches,     \* bound: PATCHes
    MaxConnects,    \* bound: connect flows begun
    MaxDisconnects, \* bound: disconnects
    MaxTokens       \* bound: refresh tokens issued

LlmColumns == {"model", "key"}
TeamsColumns == {"tenant", "secret", "token", "email"}
Columns == LlmColumns \union TeamsColumns

ASSUME TeamsAssumption ==
    /\ {MaxPatches, MaxConnects, MaxDisconnects} \subseteq Nat /\ MaxTokens \in Nat \ {0}
    /\ \A body \in Bodies : /\ DOMAIN body \subseteq Columns \ {"token", "email"}
                           /\ \A c \in DOMAIN body : body[c] \in Nat

VARIABLES
    org,            \* the row
    patch,          \* the PATCHes under way
    oauthStates,    \* connect flows begun and not called back
    callback,       \* the callback under way
    client,         \* the Graph clients
    issued,         \* refresh tokens issued
    teamsOps,       \* PATCHes, connects and disconnects so far
    meant,          \* history: the row as the requests meant it
    overlapped      \* history: a group was written back over a later write of it

teamsVars == <<org, patch, oauthStates, callback, client, issued, teamsOps, meant, overlapped>>

IdlePatch == [pc |-> "idle", body |-> NoBody, seen |-> NoBody]
IdleCallback == [pc |-> "idle", seen |-> NoBody, token |-> 0]
IdleClient == [pc |-> "idle", made |-> NoBody]

Registered(row) == row["tenant"] # 0 /\ row["secret"] # 0
Configured(row) == Registered(row) /\ row["token"] # 0

TeamsInit ==
    /\ org \in {[c \in Columns |-> 0], [c \in Columns |-> IF c \in TeamsColumns THEN 1 ELSE 0]}
    /\ patch = [p \in Patchers |-> IdlePatch]
    /\ oauthStates = 0
    /\ callback = IdleCallback
    /\ client = [c \in GraphClients |-> IdleClient]
    /\ issued = org["token"]
    /\ teamsOps = [patches |-> 0, connects |-> 0, disconnects |-> 0]
    /\ meant = org
    /\ overlapped = FALSE

Counts(what, max) ==
    teamsOps[what] < max /\ teamsOps' = [teamsOps EXCEPT ![what] = @ + 1]

\* Writes a group of columns: those that change to their new values, the others as they were read.
WritesGroup(group, seen, changes) ==
    /\ org' = [c \in Columns |-> IF c \in DOMAIN changes THEN changes[c]
                                 ELSE IF c \in group THEN seen[c] ELSE org[c]]
    /\ meant' = [c \in Columns |-> IF c \in DOMAIN changes THEN changes[c] ELSE meant[c]]
    /\ overlapped' = (overlapped \/ \E c \in group \ DOMAIN changes : seen[c] # org[c])

\* Writes some columns and leaves the others alone.
WritesColumns(changes) ==
    /\ org' = [c \in Columns |-> IF c \in DOMAIN changes THEN changes[c] ELSE org[c]]
    /\ meant' = [c \in Columns |-> IF c \in DOMAIN changes THEN changes[c] ELSE meant[c]]
    /\ UNCHANGED overlapped

----------------------------------------------------------------------------
(***************************************************************************)
(* PATCH /organizations/:id/settings: first the columns of the LLM, then   *)
(* those of Teams, a group being read and written whole if the body has    *)
(* any of its columns.                                                     *)
(***************************************************************************)
Names(body, group) == DOMAIN body \intersect group # {}
Part(body, group) == [c \in DOMAIN body \intersect group |-> body[c]]

PatchMoves(p, to) ==
    /\ patch' = [patch EXCEPT ![p] = to]
    /\ UNCHANGED <<oauthStates, callback, client, issued>>

PatchStarts(p, body) ==
    /\ patch[p].pc = "idle"
    /\ Counts("patches", MaxPatches)
    /\ PatchMoves(p, [IdlePatch EXCEPT !.body = body,
                         !.pc = IF Names(body, LlmColumns) THEN "llm" ELSE "teams"])
    /\ UNCHANGED <<org, meant, overlapped>>

PatchReadsGroup(p) ==
    /\ patch[p].pc \in {"llm", "teams"}
    /\ PatchMoves(p, [patch[p] EXCEPT !.seen = org,
                         !.pc = IF @ = "llm" THEN "set llm" ELSE "set teams"])
    /\ UNCHANGED <<org, teamsOps, meant, overlapped>>

PatchWritesLlm(p) ==
    /\ patch[p].pc = "set llm"
    /\ WritesGroup(LlmColumns, patch[p].seen, Part(patch[p].body, LlmColumns))
    /\ PatchMoves(p, IF Names(patch[p].body, TeamsColumns)
                     THEN [patch[p] EXCEPT !.pc = "teams", !.seen = NoBody] ELSE IdlePatch)
    /\ UNCHANGED teamsOps

PatchWritesTeams(p) ==
    /\ patch[p].pc = "set teams"
    /\ WritesGroup(TeamsColumns, patch[p].seen, Part(patch[p].body, TeamsColumns))
    /\ PatchMoves(p, IdlePatch)
    /\ UNCHANGED teamsOps

\* Any statement may fail: what the request has written stays.
SettingsPatchFails(p) ==
    /\ patch[p].pc # "idle"
    /\ PatchMoves(p, IdlePatch)
    /\ UNCHANGED <<org, teamsOps, meant, overlapped>>

----------------------------------------------------------------------------
(***************************************************************************)
(* Connecting and disconnecting an account                                 *)
(***************************************************************************)
InitiateConnect ==
    /\ Registered(org)
    /\ Counts("connects", MaxConnects)
    /\ oauthStates' = oauthStates + 1
    /\ UNCHANGED <<org, patch, callback, client, issued, meant, overlapped>>

CallbackMoves(to) ==
    /\ callback' = to
    /\ UNCHANGED <<patch, client, teamsOps>>

\* The state is used up, whatever comes of it: it may be too old, or the
\* registration be gone.
HandleCallback ==
    /\ callback.pc = "idle"
    /\ oauthStates > 0
    /\ oauthStates' = oauthStates - 1
    /\ \/ Registered(org) /\ CallbackMoves([pc |-> "exchange", seen |-> org, token |-> 0])
       \/ CallbackMoves(IdleCallback)
    /\ UNCHANGED <<org, issued, meant, overlapped>>

ExchangeCode ==
    /\ callback.pc = "exchange"
    /\ \/ /\ issued < MaxTokens
          /\ issued' = issued + 1
          /\ CallbackMoves([callback EXCEPT !.pc = "save", !.token = issued + 1])
       \/ CallbackMoves(IdleCallback) /\ UNCHANGED issued
    /\ UNCHANGED <<org, oauthStates, meant, overlapped>>

\* The account's address is left empty when it cannot be fetched.
CallbackSaves ==
    /\ callback.pc = "save"
    /\ CallbackMoves(IdleCallback)
    /\ \E email \in {0, callback.token} :
          WritesGroup(TeamsColumns, callback.seen,
                      [c \in {"token", "email"} |-> IF c = "token" THEN callback.token ELSE email])
    /\ UNCHANGED <<oauthStates, issued>>

CallbackFails ==
    /\ callback.pc = "save"
    /\ CallbackMoves(IdleCallback)
    /\ UNCHANGED <<org, oauthStates, issued, meant, overlapped>>

DisconnectTeams == WritesColumns([c \in {"token", "email"} |-> 0])

Disconnect ==
    /\ Counts("disconnects", MaxDisconnects)
    /\ DisconnectTeams
    /\ UNCHANGED <<patch, oauthStates, callback, client, issued>>

----------------------------------------------------------------------------
(***************************************************************************)
(* Using the account: a client is made for each use, from the row as it    *)
(* is, and gets its access token for the refresh token.                    *)
(***************************************************************************)
ClientMoves(c, to) ==
    /\ client' = [client EXCEPT ![c] = to]
    /\ UNCHANGED <<patch, oauthStates, callback, teamsOps>>

ResolveTeamsClient(c) ==
    /\ client[c].pc = "idle"
    /\ Configured(org)
    /\ ClientMoves(c, [IdleClient EXCEPT !.pc = "refresh", !.made = org])
    /\ UNCHANGED <<org, issued, meant, overlapped>>

\* Microsoft refuses, or takes any token it has issued and hands out another one.
GetToken(c) ==
    /\ client[c].pc = "refresh"
    /\ \/ /\ issued < MaxTokens
          /\ issued' = issued + 1
          /\ ClientMoves(c, [client[c] EXCEPT !.pc = "persist", !.made["token"] = issued + 1])
       \/ ClientMoves(c, IdleClient) /\ UNCHANGED issued
    /\ UNCHANGED <<org, meant, overlapped>>

\* Mutant: the token is saved together with the settings the client was made of.
UpdateTeamsRefreshTokenWhole(made) ==
    /\ org' = [c \in Columns |-> IF c \in TeamsColumns THEN made[c] ELSE org[c]]
    /\ meant' = [meant EXCEPT !["token"] = made["token"]]
    /\ UNCHANGED overlapped

UpdateTeamsRefreshToken(made) == WritesColumns([c \in {"token"} |-> made["token"]])

\* The failure to save the token is only logged.
PersistRefreshToken(c) ==
    /\ client[c].pc = "persist"
    /\ ClientMoves(c, IdleClient)
    /\ UpdateTeamsRefreshToken(client[c].made)
    /\ UNCHANGED issued

PersistFails(c) ==
    /\ client[c].pc = "persist"
    /\ ClientMoves(c, IdleClient)
    /\ UNCHANGED <<org, issued, meant, overlapped>>

----------------------------------------------------------------------------
TeamsNext ==
    \/ \E p \in Patchers :
         \/ \E body \in Bodies : PatchStarts(p, body)
         \/ PatchReadsGroup(p)
         \/ PatchWritesLlm(p)
         \/ PatchWritesTeams(p)
         \/ SettingsPatchFails(p)
    \/ InitiateConnect
    \/ HandleCallback
    \/ ExchangeCode
    \/ CallbackSaves
    \/ CallbackFails
    \/ Disconnect
    \/ \E c \in GraphClients :
         \/ ResolveTeamsClient(c)
         \/ GetToken(c)
         \/ PersistRefreshToken(c)
         \/ PersistFails(c)

TeamsSpec == TeamsInit /\ [][TeamsNext]_teamsVars

----------------------------------------------------------------------------
TeamsTypeOK ==
    /\ org \in [Columns -> Nat]
    /\ meant \in [Columns -> Nat]
    /\ \A p \in Patchers :
          /\ patch[p].pc \in {"idle", "llm", "set llm", "teams", "set teams"}
          /\ patch[p].body \in Bodies \union {NoBody}
          /\ patch[p].pc \in {"set llm", "set teams"} => patch[p].seen \in [Columns -> Nat]
    /\ oauthStates \in 0 .. MaxConnects
    /\ callback.pc \in {"idle", "exchange", "save"} /\ callback.token \in 0 .. MaxTokens
    /\ \A c \in GraphClients :
          /\ client[c].pc \in {"idle", "refresh", "persist"}
          /\ client[c].pc # "idle" => Registered(client[c].made)
    /\ issued \in 0 .. MaxTokens
    /\ overlapped \in BOOLEAN

(***************************************************************************)
(* The row is what the requests meant, in every column: a rotated refresh  *)
(* token and a disconnect clobber no settings that are saved meanwhile, as *)
(* pipeline_gate_repository.go 186-193 and 206-215 mean them to.  Only a   *)
(* write of a whole group, over one that came after its read, loses any.   *)
(***************************************************************************)
NarrowWritesLoseNothing == org = meant \/ overlapped
============================================================================
