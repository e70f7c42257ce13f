-------------------------- MODULE ProcessProofs -----------------------------
(* What a process has one of, for any values of the constants: its login   *)
(* at a model provider (OAuthLogin), the keys of the others (ModelAccess)  *)
(* and its start, stop and settings (RuntimeStart).  They share no state.  *)
EXTENDS OAuthLogin, ModelAccess, RuntimeStart, SequenceTheorems, TLAPS

(* OAuthLogin: any number of requests at a time, tokens and restarts.      *)

LoginSpec == LoginInit /\ [][LoginNext]_loginVars

LoginSteps == {"idle", "device", "posted", "saving", "unsaving", "deleting"}
Working == {c \in Callers : call[c].step # "idle"}
Syncing == \E c \in Callers : call[c].step = "unsaving"

LoginTypes ==
    /\ tokensIssued \in Nat
    /\ held \in 0..tokensIssued /\ saved \in 0..tokensIssued /\ cliLogin \in 0..tokensIssued
    /\ ours \subseteq 1..tokensIssued
    /\ age \in [Tokens -> {"fresh", "aging", "expired"}]
    /\ persisted \in BOOLEAN /\ blind \in BOOLEAN
    /\ gone \in {"no", "cleared", "deleted"}
    /\ call \in [Callers -> [kind : {"none", "initiate", "refresh", "sync", "disconnect"}, step : LoginSteps]]

(* Who is between two awaits holds the lock, and a process that starts has *)
(* no requests and no poll.                                                *)
LockKept ==
    /\ \A c \in Working : authLock = c
    /\ poll \in {"exchanging", "saving"} => authLock = Polling
    /\ up # "running" => poll = "none" /\ Working = {}

(* What each place finds when it goes on: a refresh its own chain's token, *)
(* a deletion nothing that counts as stored, a sync no disconnect.         *)
PlacesKept ==
    /\ \A c \in Callers :
          /\ call[c].step \in {"posted", "saving"} => held # 0 /\ source # "codex_cli"
          /\ call[c].step = "deleting" => ~persisted /\ gone # "no"
          /\ call[c].step = "unsaving" => gone = "no"
    /\ up = "loading" => held = 0 /\ gone # "cleared"
    /\ up \in {"refreshing", "saving"} => held # 0
    /\ up \in {"loading", "refreshing", "saving"} => source = "none"
    /\ up # "running" => ~persisted
    /\ source = "codex_cli" => ~persisted

(* A token the device flow just got is nobody else's, and is fresh, so     *)
(* that nobody reloads the CLI's in its place while it is saved.           *)
NewIsFresh ==
    /\ \A t \in Tokens : t > tokensIssued => age[t] = "fresh"
    /\ poll = "saving" => held \in Tokens /\ held # cliLogin /\ age[held] = "fresh"

(* The CLI's token is only held as the CLI's.                              *)
OwnTokens == held # 0 /\ held = cliLogin /\ ~blind => source = "codex_cli" \/ Syncing

(* Also while somebody holds the lock, but for a sync, which is about to   *)
(* say that nothing is stored.                                             *)
StoredKept == persisted /\ ~Syncing => saved = held

LoginInv == /\ LoginTypes /\ LockKept /\ PlacesKept /\ NewIsFresh /\ OwnTokens /\ StoredKept
            /\ DisconnectIsFinal /\ CliTokenUntouched

-----------------------------------------------------------------------------
(* Every action keeps it.                                                  *)

LEMMA InitiateDeviceCodeStep ==
    ASSUME LoginInv, NEW c \in Callers, InitiateDeviceCode(c)
    PROVE  LoginInv'
  <1> USE LoginAssumption DEF LoginInv, InitiateDeviceCode, Enter, Unclaimed, CancelPolling,
      memoryVars, providerVars
  <1>1. LoginTypes'
    BY DEF LoginTypes, LoginSteps
  <1>2. LockKept'
    BY DEF LoginTypes, LockKept, Working, Polling, Resting, LoginSteps
  <1>3. PlacesKept'
    BY DEF LoginTypes, LockKept, Working, PlacesKept, Polling, Resting, DisconnectIsFinal, LoginSteps
  <1>4. NewIsFresh'
    BY DEF LoginTypes, LockKept, Working, PlacesKept, Polling, Resting, NewIsFresh, Tokens,
        NeedsRefresh
  <1>5. OwnTokens'
    BY DEF LoginTypes, LockKept, Working, PlacesKept, Polling, Resting, NewIsFresh, OwnTokens,
        Syncing, LoginSteps
  <1>6. StoredKept'
    BY DEF LoginTypes, LockKept, Working, PlacesKept, Polling, Resting, StoredKept, Syncing, LoginSteps
  <1>7. DisconnectIsFinal'
    BY DEF LoginTypes, LockKept, Working, PlacesKept, Polling, Resting, DisconnectIsFinal
  <1>8. CliTokenUntouched'
    BY DEF LoginTypes, LockKept, Working, PlacesKept, Polling, Resting, OwnTokens, Syncing,
        CliTokenUntouched
  <1> QED  BY <1>1, <1>2, <1>3, <1>4, <1>5, <1>6, <1>7, <1>8 DEF LoginInv

LEMMA DeviceCodeIssuedStep ==
    ASSUME LoginInv, NEW c \in Callers, DeviceCodeIssued(c)
    PROVE  LoginInv'
  <1> USE LoginAssumption DEF LoginInv, DeviceCodeIssued, LeaveLock, Resting, Unclaimed,
      providerVars
  <1>1. LoginTypes'
    BY DEF LoginTypes, LoginSteps
  <1>2. LockKept'
    BY DEF LoginTypes, LockKept, Working, Polling, LoginSteps
  <1>3. PlacesKept'
    BY DEF LoginTypes, LockKept, Working, PlacesKept, Polling, DisconnectIsFinal, LoginSteps
  <1>4. NewIsFresh'
    BY DEF LoginTypes, LockKept, Working, PlacesKept, Polling, NewIsFresh, Tokens, NeedsRefresh
  <1>5. OwnTokens'
    BY DEF LoginTypes, LockKept, Working, PlacesKept, Polling, NewIsFresh, OwnTokens, Syncing,
        LoginSteps
  <1>6. StoredKept'
    BY DEF LoginTypes, LockKept, Working, PlacesKept, Polling, StoredKept, Syncing, LoginSteps
  <1>7. DisconnectIsFinal'
    BY DEF LoginTypes, LockKept, Working, PlacesKept, Polling, DisconnectIsFinal
  <1>8. CliTokenUntouched'
    BY DEF LoginTypes, LockKept, Working, PlacesKept, Polling, OwnTokens, Syncing,
        CliTokenUntouched
  <1> QED  BY <1>1, <1>2, <1>3, <1>4, <1>5, <1>6, <1>7, <1>8 DEF LoginInv

LEMMA DeviceCodeRefusedStep ==
    ASSUME LoginInv, NEW c \in Callers, DeviceCodeRefused(c)
    PROVE  LoginInv'
  <1> USE LoginAssumption DEF LoginInv, DeviceCodeRefused, LeaveLock, Resting, Unclaimed,
      memoryVars, providerVars
  <1>1. LoginTypes'
    BY DEF LoginTypes, LoginSteps
  <1>2. LockKept'
    BY DEF LoginTypes, LockKept, Working, Polling, LoginSteps
  <1>3. PlacesKept'
    BY DEF LoginTypes, LockKept, Working, PlacesKept, Polling, DisconnectIsFinal, LoginSteps
  <1>4. NewIsFresh'
    BY DEF LoginTypes, LockKept, Working, PlacesKept, Polling, NewIsFresh, Tokens, NeedsRefresh
  <1>5. OwnTokens'
    BY DEF LoginTypes, LockKept, Working, PlacesKept, Polling, NewIsFresh, OwnTokens, Syncing,
        LoginSteps
  <1>6. StoredKept'
    BY DEF LoginTypes, LockKept, Working, PlacesKept, Polling, StoredKept, Syncing, LoginSteps
  <1>7. DisconnectIsFinal'
    BY DEF LoginTypes, LockKept, Working, PlacesKept, Polling, DisconnectIsFinal
  <1>8. CliTokenUntouched'
    BY DEF LoginTypes, LockKept, Working, PlacesKept, Polling, OwnTokens, Syncing,
        CliTokenUntouched
  <1> QED  BY <1>1, <1>2, <1>3, <1>4, <1>5, <1>6, <1>7, <1>8 DEF LoginInv

LEMMA RefreshOfCliStep ==
    ASSUME LoginInv, NEW c \in Callers, RefreshOfCli(c)
    PROVE  LoginInv'
  <1> USE LoginAssumption DEF LoginInv, RefreshOfCli, Reloaded, providerVars, Unclaimed
  <1>1. LoginTypes'
    BY DEF LoginTypes, LoginSteps
  <1>2. LockKept'
    BY DEF LoginTypes, LockKept, Working, Polling, Resting, LoginSteps
  <1>3. PlacesKept'
    BY DEF LoginTypes, LockKept, Working, PlacesKept, Polling, Resting, DisconnectIsFinal, LoginSteps
  <1>4. NewIsFresh'
    BY DEF LoginTypes, LockKept, Working, PlacesKept, Polling, Resting, NewIsFresh, Tokens,
        NeedsRefresh
  <1>5. OwnTokens'
    BY DEF LoginTypes, LockKept, Working, PlacesKept, Polling, Resting, NewIsFresh, OwnTokens,
        Syncing, LoginSteps
  <1>6. StoredKept'
    BY DEF LoginTypes, LockKept, Working, PlacesKept, Polling, Resting, StoredKept, Syncing, LoginSteps
  <1>7. DisconnectIsFinal'
    BY DEF LoginTypes, LockKept, Working, PlacesKept, Polling, Resting, DisconnectIsFinal
  <1>8. CliTokenUntouched'
    BY DEF LoginTypes, LockKept, Working, PlacesKept, Polling, Resting, OwnTokens, Syncing,
        CliTokenUntouched
  <1> QED  BY <1>1, <1>2, <1>3, <1>4, <1>5, <1>6, <1>7, <1>8 DEF LoginInv

LEMMA RefreshStep ==
    ASSUME LoginInv, NEW c \in Callers, Refresh(c)
    PROVE  LoginInv'
  <1> USE LoginAssumption DEF LoginInv, Refresh, Enter, Unclaimed, memoryVars, providerVars
  <1>1. LoginTypes'
    BY DEF LoginTypes, LoginSteps
  <1>2. LockKept'
    BY DEF LoginTypes, LockKept, Working, Polling, Resting, LoginSteps
  <1>3. PlacesKept'
    BY DEF LoginTypes, LockKept, Working, PlacesKept, Polling, Resting, DisconnectIsFinal, LoginSteps
  <1>4. NewIsFresh'
    BY DEF LoginTypes, LockKept, Working, PlacesKept, Polling, Resting, NewIsFresh, Tokens,
        NeedsRefresh
  <1>5. OwnTokens'
    BY DEF LoginTypes, LockKept, Working, PlacesKept, Polling, Resting, NewIsFresh, OwnTokens,
        Syncing, LoginSteps
  <1>6. StoredKept'
    BY DEF LoginTypes, LockKept, Working, PlacesKept, Polling, Resting, StoredKept, Syncing, LoginSteps
  <1>7. DisconnectIsFinal'
    BY DEF LoginTypes, LockKept, Working, PlacesKept, Polling, Resting, DisconnectIsFinal
  <1>8. CliTokenUntouched'
    BY DEF LoginTypes, LockKept, Working, PlacesKept, Polling, Resting, OwnTokens, Syncing,
        CliTokenUntouched
  <1> QED  BY <1>1, <1>2, <1>3, <1>4, <1>5, <1>6, <1>7, <1>8 DEF LoginInv

LEMMA RefreshAnsweredStep ==
    ASSUME LoginInv, NEW c \in Callers, RefreshAnswered(c)
    PROVE  LoginInv'
  <1> USE LoginAssumption DEF LoginInv, RefreshAnswered, Issue, Spend
  <1>1. LoginTypes'
    <2>1. tokensIssued' \in Nat
      BY DEF LoginTypes
    <2>2. held' \in 0..tokensIssued' /\ saved' \in 0..tokensIssued' /\ cliLogin' \in 0..tokensIssued'
      BY DEF LoginTypes
    <2>3. ours' \subseteq 1..tokensIssued'
      BY DEF LoginTypes, PlacesKept
    <2>4. age' \in [Tokens -> {"fresh", "aging", "expired"}]
      BY DEF LoginTypes
    <2>5. persisted' \in BOOLEAN /\ blind' \in BOOLEAN /\ gone' \in {"no", "cleared", "deleted"}
      BY DEF LoginTypes
    <2>6. call' \in [Callers -> [kind : {"none", "initiate", "refresh", "sync", "disconnect"}, step : LoginSteps]]
      BY DEF LoginTypes, LoginSteps
    <2> QED  BY <2>1, <2>2, <2>3, <2>4, <2>5, <2>6 DEF LoginTypes
  <1>2. LockKept'
    BY DEF LoginTypes, LockKept, Working, Polling, Unclaimed, Resting, LoginSteps
  <1>3. PlacesKept'
    BY DEF LoginTypes, LockKept, Working, PlacesKept, Polling, Unclaimed, Resting,
        DisconnectIsFinal, LoginSteps
  <1>4. NewIsFresh'
    BY DEF LoginTypes, LockKept, Working, PlacesKept, Polling, Unclaimed, Resting, NewIsFresh,
        Tokens, NeedsRefresh
  <1>5. OwnTokens'
    BY DEF LoginTypes, LockKept, Working, PlacesKept, Polling, Unclaimed, Resting, NewIsFresh,
        OwnTokens, Syncing, LoginSteps
  <1>6. StoredKept'
    BY DEF LoginTypes, LockKept, Working, PlacesKept, Polling, Unclaimed, Resting, StoredKept,
        Syncing, LoginSteps
  <1>7. DisconnectIsFinal'
    BY DEF LoginTypes, LockKept, Working, PlacesKept, Polling, Unclaimed, Resting,
        DisconnectIsFinal
  <1>8. CliTokenUntouched'
    BY DEF LoginTypes, LockKept, Working, PlacesKept, Polling, Unclaimed, Resting, OwnTokens,
        Syncing, CliTokenUntouched
  <1> QED  BY <1>1, <1>2, <1>3, <1>4, <1>5, <1>6, <1>7, <1>8 DEF LoginInv

LEMMA RefreshFailedStep ==
    ASSUME LoginInv, NEW c \in Callers, RefreshFailed(c)
    PROVE  LoginInv'
  <1> USE LoginAssumption DEF LoginInv, RefreshFailed, LeaveLock, Resting, Unclaimed, Spend,
      memoryVars
  <1>1. LoginTypes'
    <2>1. tokensIssued' \in Nat
      BY DEF LoginTypes
    <2>2. held' \in 0..tokensIssued' /\ saved' \in 0..tokensIssued' /\ cliLogin' \in 0..tokensIssued'
      BY DEF LoginTypes
    <2>3. ours' \subseteq 1..tokensIssued'
      <3>1. tokensIssued \in Nat /\ ours \subseteq 1..tokensIssued /\ held \in 1..tokensIssued
        BY DEF LoginTypes, PlacesKept
      <3>2. tokensIssued' \in {tokensIssued, tokensIssued + 1} /\ ours' \in {ours, ours \cup {held}}
        OBVIOUS
      <3> QED  BY <3>1, <3>2
    <2>4. age' \in [Tokens -> {"fresh", "aging", "expired"}]
      BY DEF LoginTypes
    <2>5. persisted' \in BOOLEAN /\ blind' \in BOOLEAN /\ gone' \in {"no", "cleared", "deleted"}
      BY DEF LoginTypes
    <2>6. call' \in [Callers -> [kind : {"none", "initiate", "refresh", "sync", "disconnect"}, step : LoginSteps]]
      BY DEF LoginTypes, LoginSteps
    <2> QED  BY <2>1, <2>2, <2>3, <2>4, <2>5, <2>6 DEF LoginTypes
  <1>2. LockKept'
    BY DEF LoginTypes, LockKept, Working, Polling, LoginSteps
  <1>3. PlacesKept'
    BY DEF LoginTypes, LockKept, Working, PlacesKept, Polling, DisconnectIsFinal, LoginSteps
  <1>4. NewIsFresh'
    BY DEF LoginTypes, LockKept, Working, PlacesKept, Polling, NewIsFresh, Tokens, NeedsRefresh
  <1>5. OwnTokens'
    BY DEF LoginTypes, LockKept, Working, PlacesKept, Polling, NewIsFresh, OwnTokens, Syncing,
        LoginSteps
  <1>6. StoredKept'
    BY DEF LoginTypes, LockKept, Working, PlacesKept, Polling, StoredKept, Syncing, LoginSteps
  <1>7. DisconnectIsFinal'
    BY DEF LoginTypes, LockKept, Working, PlacesKept, Polling, DisconnectIsFinal
  <1>8. CliTokenUntouched'
    BY DEF LoginTypes, LockKept, Working, PlacesKept, Polling, OwnTokens, Syncing,
        CliTokenUntouched
  <1> QED  BY <1>1, <1>2, <1>3, <1>4, <1>5, <1>6, <1>7, <1>8 DEF LoginInv

LEMMA RefreshSavedStep ==
    ASSUME LoginInv, NEW c \in Callers, RefreshSaved(c)
    PROVE  LoginInv'
  <1> USE LoginAssumption DEF LoginInv, RefreshSaved, LeaveLock, Resting, Unclaimed, SaveToken,
      providerVars
  <1>1. LoginTypes'
    BY DEF LoginTypes, LoginSteps
  <1>2. LockKept'
    BY DEF LoginTypes, LockKept, Working, Polling, LoginSteps
  <1>3. PlacesKept'
    BY DEF LoginTypes, LockKept, Working, PlacesKept, Polling, DisconnectIsFinal, LoginSteps
  <1>4. NewIsFresh'
    BY DEF LoginTypes, LockKept, Working, PlacesKept, Polling, NewIsFresh, Tokens, NeedsRefresh
  <1>5. OwnTokens'
    BY DEF LoginTypes, LockKept, Working, PlacesKept, Polling, NewIsFresh, OwnTokens, Syncing,
        LoginSteps
  <1>6. StoredKept'
    BY DEF LoginTypes, LockKept, Working, PlacesKept, Polling, StoredKept, Syncing, LoginSteps
  <1>7. DisconnectIsFinal'
    BY DEF LoginTypes, LockKept, Working, PlacesKept, Polling, DisconnectIsFinal
  <1>8. CliTokenUntouched'
    BY DEF LoginTypes, LockKept, Working, PlacesKept, Polling, OwnTokens, Syncing,
        CliTokenUntouched
  <1> QED  BY <1>1, <1>2, <1>3, <1>4, <1>5, <1>6, <1>7, <1>8 DEF LoginInv

LEMMA SyncUnreadableStep ==
    ASSUME LoginInv, NEW c \in Callers, SyncUnreadable(c)
    PROVE  LoginInv'
  <1> USE LoginAssumption DEF LoginInv, SyncUnreadable, CancelPolling, memoryVars, providerVars,
      Unclaimed
  <1>1. LoginTypes'
    BY DEF LoginTypes, LoginSteps
  <1>2. LockKept'
    BY DEF LoginTypes, LockKept, Working, Polling, Resting, LoginSteps
  <1>3. PlacesKept'
    BY DEF LoginTypes, LockKept, Working, PlacesKept, Polling, Resting, DisconnectIsFinal, LoginSteps
  <1>4. NewIsFresh'
    BY DEF LoginTypes, LockKept, Working, PlacesKept, Polling, Resting, NewIsFresh, Tokens,
        NeedsRefresh
  <1>5. OwnTokens'
    BY DEF LoginTypes, LockKept, Working, PlacesKept, Polling, Resting, NewIsFresh, OwnTokens,
        Syncing, LoginSteps
  <1>6. StoredKept'
    BY DEF LoginTypes, LockKept, Working, PlacesKept, Polling, Resting, StoredKept, Syncing, LoginSteps
  <1>7. DisconnectIsFinal'
    BY DEF LoginTypes, LockKept, Working, PlacesKept, Polling, Resting, DisconnectIsFinal
  <1>8. CliTokenUntouched'
    BY DEF LoginTypes, LockKept, Working, PlacesKept, Polling, Resting, OwnTokens, Syncing,
        CliTokenUntouched
  <1> QED  BY <1>1, <1>2, <1>3, <1>4, <1>5, <1>6, <1>7, <1>8 DEF LoginInv

LEMMA SyncFromCodexCliStep ==
    ASSUME LoginInv, NEW c \in Callers, SyncFromCodexCli(c)
    PROVE  LoginInv'
  <1> USE LoginAssumption DEF LoginInv, SyncFromCodexCli, Enter, Unclaimed, CancelPolling,
      providerVars
  <1>1. LoginTypes'
    BY DEF LoginTypes, LoginSteps
  <1>2. LockKept'
    BY DEF LoginTypes, LockKept, Working, Polling, Resting, LoginSteps
  <1>3. PlacesKept'
    BY DEF LoginTypes, LockKept, Working, PlacesKept, Polling, Resting, DisconnectIsFinal, LoginSteps
  <1>4. NewIsFresh'
    BY DEF LoginTypes, LockKept, Working, PlacesKept, Polling, Resting, NewIsFresh, Tokens,
        NeedsRefresh
  <1>5. OwnTokens'
    BY DEF LoginTypes, LockKept, Working, PlacesKept, Polling, Resting, NewIsFresh, OwnTokens,
        Syncing, LoginSteps
  <1>6. StoredKept'
    BY DEF LoginTypes, LockKept, Working, PlacesKept, Polling, Resting, StoredKept, Syncing, LoginSteps
  <1>7. DisconnectIsFinal'
    BY DEF LoginTypes, LockKept, Working, PlacesKept, Polling, Resting, DisconnectIsFinal
  <1>8. CliTokenUntouched'
    BY DEF LoginTypes, LockKept, Working, PlacesKept, Polling, Resting, OwnTokens, Syncing,
        CliTokenUntouched
  <1> QED  BY <1>1, <1>2, <1>3, <1>4, <1>5, <1>6, <1>7, <1>8 DEF LoginInv

LEMMA SyncedStep ==
    ASSUME LoginInv, NEW c \in Callers, Synced(c)
    PROVE  LoginInv'
  <1> USE LoginAssumption DEF LoginInv, Synced, LeaveLock, Resting, Unclaimed, DeleteStoredToken,
      HoldsCli, providerVars
  <1>1. LoginTypes'
    <2>1. tokensIssued' \in Nat
      BY DEF LoginTypes
    <2>2. held' \in 0..tokensIssued' /\ saved' \in 0..tokensIssued' /\ cliLogin' \in 0..tokensIssued'
      BY DEF LoginTypes
    <2>3. ours' \subseteq 1..tokensIssued'
      BY DEF LoginTypes, PlacesKept
    <2>4. age' \in [Tokens -> {"fresh", "aging", "expired"}]
      BY DEF LoginTypes
    <2>5. persisted' \in BOOLEAN /\ blind' \in BOOLEAN /\ gone' \in {"no", "cleared", "deleted"}
      BY DEF LoginTypes
    <2>6. call' \in [Callers -> [kind : {"none", "initiate", "refresh", "sync", "disconnect"}, step : LoginSteps]]
      BY DEF LoginTypes, LoginSteps
    <2> QED  BY <2>1, <2>2, <2>3, <2>4, <2>5, <2>6 DEF LoginTypes
  <1>2. LockKept'
    BY DEF LoginTypes, LockKept, Working, Polling, LoginSteps
  <1>3. PlacesKept'
    BY DEF LoginTypes, LockKept, Working, PlacesKept, Polling, DisconnectIsFinal, LoginSteps
  <1>4. NewIsFresh'
    BY DEF LoginTypes, LockKept, Working, PlacesKept, Polling, NewIsFresh, Tokens, NeedsRefresh
  <1>5. OwnTokens'
    BY DEF LoginTypes, LockKept, Working, PlacesKept, Polling, NewIsFresh, OwnTokens, Syncing,
        LoginSteps
  <1>6. StoredKept'
    BY DEF LoginTypes, LockKept, Working, PlacesKept, Polling, StoredKept, Syncing, LoginSteps
  <1>7. DisconnectIsFinal'
    BY DEF LoginTypes, LockKept, Working, PlacesKept, Polling, DisconnectIsFinal
  <1>8. CliTokenUntouched'
    BY DEF LoginTypes, LockKept, Working, PlacesKept, Polling, OwnTokens, Syncing,
        CliTokenUntouched
  <1> QED  BY <1>1, <1>2, <1>3, <1>4, <1>5, <1>6, <1>7, <1>8 DEF LoginInv

LEMMA DisconnectStep ==
    ASSUME LoginInv, NEW c \in Callers, Disconnect(c)
    PROVE  LoginInv'
  <1> USE LoginAssumption DEF LoginInv, Disconnect, Enter, Unclaimed, CancelPolling, providerVars
  <1>1. LoginTypes'
    <2>1. tokensIssued' \in Nat
      BY DEF LoginTypes
    <2>2. held' \in 0..tokensIssued' /\ saved' \in 0..tokensIssued' /\ cliLogin' \in 0..tokensIssued'
      BY DEF LoginTypes
    <2>3. ours' \subseteq 1..tokensIssued'
      BY DEF LoginTypes, PlacesKept
    <2>4. age' \in [Tokens -> {"fresh", "aging", "expired"}]
      BY DEF LoginTypes
    <2>5. persisted' \in BOOLEAN /\ blind' \in BOOLEAN /\ gone' \in {"no", "cleared", "deleted"}
      BY DEF LoginTypes
    <2>6. call' \in [Callers -> [kind : {"none", "initiate", "refresh", "sync", "disconnect"}, step : LoginSteps]]
      BY DEF LoginTypes, LoginSteps
    <2> QED  BY <2>1, <2>2, <2>3, <2>4, <2>5, <2>6 DEF LoginTypes
  <1>2. LockKept'
    BY DEF LoginTypes, LockKept, Working, Polling, Resting, LoginSteps
  <1>3. PlacesKept'
    BY DEF LoginTypes, LockKept, Working, PlacesKept, Polling, Resting, DisconnectIsFinal, LoginSteps
  <1>4. NewIsFresh'
    BY DEF LoginTypes, LockKept, Working, PlacesKept, Polling, Resting, NewIsFresh, Tokens,
        NeedsRefresh
  <1>5. OwnTokens'
    BY DEF LoginTypes, LockKept, Working, PlacesKept, Polling, Resting, NewIsFresh, OwnTokens,
        Syncing, LoginSteps
  <1>6. StoredKept'
    BY DEF LoginTypes, LockKept, Working, PlacesKept, Polling, Resting, StoredKept, Syncing, LoginSteps
  <1>7. DisconnectIsFinal'
    BY DEF LoginTypes, LockKept, Working, PlacesKept, Polling, Resting, DisconnectIsFinal
  <1>8. CliTokenUntouched'
    BY DEF LoginTypes, LockKept, Working, PlacesKept, Polling, Resting, OwnTokens, Syncing,
        CliTokenUntouched
  <1> QED  BY <1>1, <1>2, <1>3, <1>4, <1>5, <1>6, <1>7, <1>8 DEF LoginInv

LEMMA DisconnectedStep ==
    ASSUME LoginInv, NEW c \in Callers, Disconnected(c)
    PROVE  LoginInv'
  <1> USE LoginAssumption DEF LoginInv, Disconnected, LeaveLock, Resting, Unclaimed,
      DeleteStoredToken, memoryVars, providerVars
  <1>1. LoginTypes'
    BY DEF LoginTypes, LoginSteps
  <1>2. LockKept'
    BY DEF LoginTypes, LockKept, Working, Polling, LoginSteps
  <1>3. PlacesKept'
    BY DEF LoginTypes, LockKept, Working, PlacesKept, Polling, DisconnectIsFinal, LoginSteps
  <1>4. NewIsFresh'
    BY DEF LoginTypes, LockKept, Working, PlacesKept, Polling, NewIsFresh, Tokens, NeedsRefresh
  <1>5. OwnTokens'
    BY DEF LoginTypes, LockKept, Working, PlacesKept, Polling, NewIsFresh, OwnTokens, Syncing,
        LoginSteps
  <1>6. StoredKept'
    BY DEF LoginTypes, LockKept, Working, PlacesKept, Polling, StoredKept, Syncing, LoginSteps
  <1>7. DisconnectIsFinal'
    BY DEF LoginTypes, LockKept, Working, PlacesKept, Polling, DisconnectIsFinal
  <1>8. CliTokenUntouched'
    BY DEF LoginTypes, LockKept, Working, PlacesKept, Polling, OwnTokens, Syncing,
        CliTokenUntouched
  <1> QED  BY <1>1, <1>2, <1>3, <1>4, <1>5, <1>6, <1>7, <1>8 DEF LoginInv

LEMMA AgeStep ==
    ASSUME LoginInv, NEW t \in Tokens, Age(t)
    PROVE  LoginInv'
  <1> USE LoginAssumption DEF LoginInv, Age, memoryVars, Unclaimed
  <1>1. LoginTypes'
    <2>1. tokensIssued' \in Nat
      BY DEF LoginTypes
    <2>2. held' \in 0..tokensIssued' /\ saved' \in 0..tokensIssued' /\ cliLogin' \in 0..tokensIssued'
      BY DEF LoginTypes
    <2>3. ours' \subseteq 1..tokensIssued'
      BY DEF LoginTypes, PlacesKept
    <2>4. age' \in [Tokens -> {"fresh", "aging", "expired"}]
      BY DEF LoginTypes
    <2>5. persisted' \in BOOLEAN /\ blind' \in BOOLEAN /\ gone' \in {"no", "cleared", "deleted"}
      BY DEF LoginTypes
    <2>6. call' \in [Callers -> [kind : {"none", "initiate", "refresh", "sync", "disconnect"}, step : LoginSteps]]
      BY DEF LoginTypes, LoginSteps
    <2> QED  BY <2>1, <2>2, <2>3, <2>4, <2>5, <2>6 DEF LoginTypes
  <1>2. LockKept'
    BY DEF LoginTypes, LockKept, Working, Polling, Resting, LoginSteps
  <1>3. PlacesKept'
    BY DEF LoginTypes, LockKept, Working, PlacesKept, Polling, Resting, DisconnectIsFinal, LoginSteps
  <1>4. NewIsFresh'
    BY DEF LoginTypes, LockKept, Working, PlacesKept, Polling, Resting, NewIsFresh, Tokens,
        NeedsRefresh
  <1>5. OwnTokens'
    BY DEF LoginTypes, LockKept, Working, PlacesKept, Polling, Resting, NewIsFresh, OwnTokens,
        Syncing, LoginSteps
  <1>6. StoredKept'
    BY DEF LoginTypes, LockKept, Working, PlacesKept, Polling, Resting, StoredKept, Syncing, LoginSteps
  <1>7. DisconnectIsFinal'
    BY DEF LoginTypes, LockKept, Working, PlacesKept, Polling, Resting, DisconnectIsFinal
  <1>8. CliTokenUntouched'
    BY DEF LoginTypes, LockKept, Working, PlacesKept, Polling, Resting, OwnTokens, Syncing,
        CliTokenUntouched
  <1> QED  BY <1>1, <1>2, <1>3, <1>4, <1>5, <1>6, <1>7, <1>8 DEF LoginInv

LEMMA CliRotatesStep ==
    ASSUME LoginInv, CliRotates
    PROVE  LoginInv'
  <1> USE LoginAssumption DEF LoginInv, CliRotates, Issue, memoryVars
  <1>1. LoginTypes'
    BY DEF LoginTypes, LoginSteps
  <1>2. LockKept'
    BY DEF LoginTypes, LockKept, Working, Polling, Unclaimed, Resting, LoginSteps
  <1>3. PlacesKept'
    BY DEF LoginTypes, LockKept, Working, PlacesKept, Polling, Unclaimed, Resting,
        DisconnectIsFinal, LoginSteps
  <1>4. NewIsFresh'
    BY DEF LoginTypes, LockKept, Working, PlacesKept, Polling, Unclaimed, Resting, NewIsFresh,
        Tokens, NeedsRefresh
  <1>5. OwnTokens'
    BY DEF LoginTypes, LockKept, Working, PlacesKept, Polling, Unclaimed, Resting, NewIsFresh,
        OwnTokens, Syncing, LoginSteps
  <1>6. StoredKept'
    BY DEF LoginTypes, LockKept, Working, PlacesKept, Polling, Unclaimed, Resting, StoredKept,
        Syncing, LoginSteps
  <1>7. DisconnectIsFinal'
    BY DEF LoginTypes, LockKept, Working, PlacesKept, Polling, Unclaimed, Resting,
        DisconnectIsFinal
  <1>8. CliTokenUntouched'
    BY DEF LoginTypes, LockKept, Working, PlacesKept, Polling, Unclaimed, Resting, OwnTokens,
        Syncing, CliTokenUntouched
  <1> QED  BY <1>1, <1>2, <1>3, <1>4, <1>5, <1>6, <1>7, <1>8 DEF LoginInv

LEMMA CliLogsOutStep ==
    ASSUME LoginInv, CliLogsOut
    PROVE  LoginInv'
  <1> USE LoginAssumption DEF LoginInv, CliLogsOut, memoryVars, providerVars
  <1>1. LoginTypes'
    BY DEF LoginTypes, LoginSteps
  <1>2. LockKept'
    BY DEF LoginTypes, LockKept, Working, Polling, Unclaimed, Resting, LoginSteps
  <1>3. PlacesKept'
    BY DEF LoginTypes, LockKept, Working, PlacesKept, Polling, Unclaimed, Resting,
        DisconnectIsFinal, LoginSteps
  <1>4. NewIsFresh'
    BY DEF LoginTypes, LockKept, Working, PlacesKept, Polling, Unclaimed, Resting, NewIsFresh,
        Tokens, NeedsRefresh
  <1>5. OwnTokens'
    BY DEF LoginTypes, LockKept, Working, PlacesKept, Polling, Unclaimed, Resting, NewIsFresh,
        OwnTokens, Syncing, LoginSteps
  <1>6. StoredKept'
    BY DEF LoginTypes, LockKept, Working, PlacesKept, Polling, Unclaimed, Resting, StoredKept,
        Syncing, LoginSteps
  <1>7. DisconnectIsFinal'
    BY DEF LoginTypes, LockKept, Working, PlacesKept, Polling, Unclaimed, Resting,
        DisconnectIsFinal
  <1>8. CliTokenUntouched'
    BY DEF LoginTypes, LockKept, Working, PlacesKept, Polling, Unclaimed, Resting, OwnTokens,
        Syncing, CliTokenUntouched
  <1> QED  BY <1>1, <1>2, <1>3, <1>4, <1>5, <1>6, <1>7, <1>8 DEF LoginInv

LEMMA GetCodexSessionStep ==
    ASSUME LoginInv, GetCodexSession
    PROVE  LoginInv'
  <1> USE LoginAssumption DEF LoginInv, GetCodexSession, NeedsRefresh, Reloaded, providerVars
  <1>1. LoginTypes'
    BY DEF LoginTypes, LoginSteps
  <1>2. LockKept'
    BY DEF LoginTypes, LockKept, Working, Polling, Unclaimed, Resting, LoginSteps
  <1>3. PlacesKept'
    BY DEF LoginTypes, LockKept, Working, PlacesKept, Polling, Unclaimed, Resting,
        DisconnectIsFinal, LoginSteps
  <1>4. NewIsFresh'
    BY DEF LoginTypes, LockKept, Working, PlacesKept, Polling, Unclaimed, Resting, NewIsFresh,
        Tokens
  <1>5. OwnTokens'
    BY DEF LoginTypes, LockKept, Working, PlacesKept, Polling, Unclaimed, Resting, NewIsFresh,
        OwnTokens, Syncing, LoginSteps
  <1>6. StoredKept'
    BY DEF LoginTypes, LockKept, Working, PlacesKept, Polling, Unclaimed, Resting, StoredKept,
        Syncing, LoginSteps
  <1>7. DisconnectIsFinal'
    BY DEF LoginTypes, LockKept, Working, PlacesKept, Polling, Unclaimed, Resting,
        DisconnectIsFinal
  <1>8. CliTokenUntouched'
    BY DEF LoginTypes, LockKept, Working, PlacesKept, Polling, Unclaimed, Resting, OwnTokens,
        Syncing, CliTokenUntouched
  <1> QED  BY <1>1, <1>2, <1>3, <1>4, <1>5, <1>6, <1>7, <1>8 DEF LoginInv

LEMMA PollGrantedStep ==
    ASSUME LoginInv, PollGranted
    PROVE  LoginInv'
  <1> USE LoginAssumption DEF LoginInv, PollGranted, memoryVars, providerVars
  <1>1. LoginTypes'
    BY DEF LoginTypes, LoginSteps
  <1>2. LockKept'
    BY DEF LoginTypes, LockKept, Working, Polling, Unclaimed, Resting, LoginSteps
  <1>3. PlacesKept'
    BY DEF LoginTypes, LockKept, Working, PlacesKept, Polling, Unclaimed, Resting,
        DisconnectIsFinal, LoginSteps
  <1>4. NewIsFresh'
    BY DEF LoginTypes, LockKept, Working, PlacesKept, Polling, Unclaimed, Resting, NewIsFresh,
        Tokens, NeedsRefresh
  <1>5. OwnTokens'
    BY DEF LoginTypes, LockKept, Working, PlacesKept, Polling, Unclaimed, Resting, NewIsFresh,
        OwnTokens, Syncing, LoginSteps
  <1>6. StoredKept'
    BY DEF LoginTypes, LockKept, Working, PlacesKept, Polling, Unclaimed, Resting, StoredKept,
        Syncing, LoginSteps
  <1>7. DisconnectIsFinal'
    BY DEF LoginTypes, LockKept, Working, PlacesKept, Polling, Unclaimed, Resting,
        DisconnectIsFinal
  <1>8. CliTokenUntouched'
    BY DEF LoginTypes, LockKept, Working, PlacesKept, Polling, Unclaimed, Resting, OwnTokens,
        Syncing, CliTokenUntouched
  <1> QED  BY <1>1, <1>2, <1>3, <1>4, <1>5, <1>6, <1>7, <1>8 DEF LoginInv

LEMMA PollExchangesStep ==
    ASSUME LoginInv, PollExchanges
    PROVE  LoginInv'
  <1> USE LoginAssumption DEF LoginInv, PollExchanges, memoryVars, providerVars, Unclaimed,
      Polling
  <1>1. LoginTypes'
    BY DEF LoginTypes, LoginSteps
  <1>2. LockKept'
    BY DEF LoginTypes, LockKept, Working, Resting, LoginSteps
  <1>3. PlacesKept'
    BY DEF LoginTypes, LockKept, Working, PlacesKept, Resting, DisconnectIsFinal, LoginSteps
  <1>4. NewIsFresh'
    BY DEF LoginTypes, LockKept, Working, PlacesKept, Resting, NewIsFresh, Tokens, NeedsRefresh
  <1>5. OwnTokens'
    BY DEF LoginTypes, LockKept, Working, PlacesKept, Resting, NewIsFresh, OwnTokens, Syncing,
        LoginSteps
  <1>6. StoredKept'
    BY DEF LoginTypes, LockKept, Working, PlacesKept, Resting, StoredKept, Syncing, LoginSteps
  <1>7. DisconnectIsFinal'
    BY DEF LoginTypes, LockKept, Working, PlacesKept, Resting, DisconnectIsFinal
  <1>8. CliTokenUntouched'
    BY DEF LoginTypes, LockKept, Working, PlacesKept, Resting, OwnTokens, Syncing,
        CliTokenUntouched
  <1> QED  BY <1>1, <1>2, <1>3, <1>4, <1>5, <1>6, <1>7, <1>8 DEF LoginInv

LEMMA ExchangeFailedStep ==
    ASSUME LoginInv, ExchangeFailed
    PROVE  LoginInv'
  <1> USE LoginAssumption DEF LoginInv, ExchangeFailed, providerVars, Unclaimed
  <1>1. LoginTypes'
    BY DEF LoginTypes, LoginSteps
  <1>2. LockKept'
    BY DEF LoginTypes, LockKept, Working, Polling, Resting, LoginSteps
  <1>3. PlacesKept'
    BY DEF LoginTypes, LockKept, Working, PlacesKept, Polling, Resting, DisconnectIsFinal, LoginSteps
  <1>4. NewIsFresh'
    BY DEF LoginTypes, LockKept, Working, PlacesKept, Polling, Resting, NewIsFresh, Tokens,
        NeedsRefresh
  <1>5. OwnTokens'
    BY DEF LoginTypes, LockKept, Working, PlacesKept, Polling, Resting, NewIsFresh, OwnTokens,
        Syncing, LoginSteps
  <1>6. StoredKept'
    BY DEF LoginTypes, LockKept, Working, PlacesKept, Polling, Resting, StoredKept, Syncing, LoginSteps
  <1>7. DisconnectIsFinal'
    BY DEF LoginTypes, LockKept, Working, PlacesKept, Polling, Resting, DisconnectIsFinal
  <1>8. CliTokenUntouched'
    BY DEF LoginTypes, LockKept, Working, PlacesKept, Polling, Resting, OwnTokens, Syncing,
        CliTokenUntouched
  <1> QED  BY <1>1, <1>2, <1>3, <1>4, <1>5, <1>6, <1>7, <1>8 DEF LoginInv

LEMMA ExchangedStep ==
    ASSUME LoginInv, Exchanged
    PROVE  LoginInv'
  <1> USE LoginAssumption DEF LoginInv, Exchanged, Issue
  <1>1. LoginTypes'
    <2>1. tokensIssued' \in Nat
      BY DEF LoginTypes
    <2>2. held' \in 0..tokensIssued' /\ saved' \in 0..tokensIssued' /\ cliLogin' \in 0..tokensIssued'
      BY DEF LoginTypes
    <2>3. ours' \subseteq 1..tokensIssued'
      BY DEF LoginTypes, PlacesKept
    <2>4. age' \in [Tokens -> {"fresh", "aging", "expired"}]
      BY DEF LoginTypes
    <2>5. persisted' \in BOOLEAN /\ blind' \in BOOLEAN /\ gone' \in {"no", "cleared", "deleted"}
      BY DEF LoginTypes
    <2>6. call' \in [Callers -> [kind : {"none", "initiate", "refresh", "sync", "disconnect"}, step : LoginSteps]]
      BY DEF LoginTypes, LoginSteps
    <2> QED  BY <2>1, <2>2, <2>3, <2>4, <2>5, <2>6 DEF LoginTypes
  <1>2. LockKept'
    BY DEF LoginTypes, LockKept, Working, Polling, Unclaimed, Resting, LoginSteps
  <1>3. PlacesKept'
    BY DEF LoginTypes, LockKept, Working, PlacesKept, Polling, Unclaimed, Resting,
        DisconnectIsFinal, LoginSteps
  <1>4. NewIsFresh'
    BY DEF LoginTypes, LockKept, Working, PlacesKept, Polling, Unclaimed, Resting, NewIsFresh,
        Tokens, NeedsRefresh
  <1>5. OwnTokens'
    BY DEF LoginTypes, LockKept, Working, PlacesKept, Polling, Unclaimed, Resting, NewIsFresh,
        OwnTokens, Syncing, LoginSteps
  <1>6. StoredKept'
    BY DEF LoginTypes, LockKept, Working, PlacesKept, Polling, Unclaimed, Resting, StoredKept,
        Syncing, LoginSteps
  <1>7. DisconnectIsFinal'
    BY DEF LoginTypes, LockKept, Working, PlacesKept, Polling, Unclaimed, Resting,
        DisconnectIsFinal
  <1>8. CliTokenUntouched'
    BY DEF LoginTypes, LockKept, Working, PlacesKept, Polling, Unclaimed, Resting, OwnTokens,
        Syncing, CliTokenUntouched
  <1> QED  BY <1>1, <1>2, <1>3, <1>4, <1>5, <1>6, <1>7, <1>8 DEF LoginInv

LEMMA PollSavedStep ==
    ASSUME LoginInv, PollSaved
    PROVE  LoginInv'
  <1> USE LoginAssumption DEF LoginInv, PollSaved, SaveToken, providerVars, Unclaimed
  <1>1. LoginTypes'
    BY DEF LoginTypes, LoginSteps
  <1>2. LockKept'
    BY DEF LoginTypes, LockKept, Working, Polling, Resting, LoginSteps
  <1>3. PlacesKept'
    BY DEF LoginTypes, LockKept, Working, PlacesKept, Polling, Resting, DisconnectIsFinal, LoginSteps
  <1>4. NewIsFresh'
    BY DEF LoginTypes, LockKept, Working, PlacesKept, Polling, Resting, NewIsFresh, Tokens,
        NeedsRefresh
  <1>5. OwnTokens'
    BY DEF LoginTypes, LockKept, Working, PlacesKept, Polling, Resting, NewIsFresh, OwnTokens,
        Syncing, LoginSteps
  <1>6. StoredKept'
    BY DEF LoginTypes, LockKept, Working, PlacesKept, Polling, Resting, StoredKept, Syncing, LoginSteps
  <1>7. DisconnectIsFinal'
    BY DEF LoginTypes, LockKept, Working, PlacesKept, Polling, Resting, DisconnectIsFinal
  <1>8. CliTokenUntouched'
    BY DEF LoginTypes, LockKept, Working, PlacesKept, Polling, Resting, OwnTokens, Syncing,
        CliTokenUntouched
  <1> QED  BY <1>1, <1>2, <1>3, <1>4, <1>5, <1>6, <1>7, <1>8 DEF LoginInv

LEMMA StopStep ==
    ASSUME LoginInv, Stop
    PROVE  LoginInv'
  <1> USE LoginAssumption DEF LoginInv, Stop, Resting, providerVars, Unclaimed
  <1>1. LoginTypes'
    <2>1. tokensIssued' \in Nat
      BY DEF LoginTypes
    <2>2. held' \in 0..tokensIssued' /\ saved' \in 0..tokensIssued' /\ cliLogin' \in 0..tokensIssued'
      BY DEF LoginTypes
    <2>3. ours' \subseteq 1..tokensIssued'
      BY DEF LoginTypes, PlacesKept
    <2>4. age' \in [Tokens -> {"fresh", "aging", "expired"}]
      BY DEF LoginTypes
    <2>5. persisted' \in BOOLEAN /\ blind' \in BOOLEAN /\ gone' \in {"no", "cleared", "deleted"}
      BY DEF LoginTypes
    <2>6. call' \in [Callers -> [kind : {"none", "initiate", "refresh", "sync", "disconnect"}, step : LoginSteps]]
      BY DEF LoginTypes, LoginSteps
    <2> QED  BY <2>1, <2>2, <2>3, <2>4, <2>5, <2>6 DEF LoginTypes
  <1>2. LockKept'
    BY DEF LoginTypes, LockKept, Working, Polling, LoginSteps
  <1>3. PlacesKept'
    BY DEF LoginTypes, LockKept, Working, PlacesKept, Polling, DisconnectIsFinal, LoginSteps
  <1>4. NewIsFresh'
    BY DEF LoginTypes, LockKept, Working, PlacesKept, Polling, NewIsFresh, Tokens, NeedsRefresh
  <1>5. OwnTokens'
    BY DEF LoginTypes, LockKept, Working, PlacesKept, Polling, NewIsFresh, OwnTokens, Syncing,
        LoginSteps
  <1>6. StoredKept'
    BY DEF LoginTypes, LockKept, Working, PlacesKept, Polling, StoredKept, Syncing, LoginSteps
  <1>7. DisconnectIsFinal'
    BY DEF LoginTypes, LockKept, Working, PlacesKept, Polling, DisconnectIsFinal
  <1>8. CliTokenUntouched'
    BY DEF LoginTypes, LockKept, Working, PlacesKept, Polling, OwnTokens, Syncing,
        CliTokenUntouched
  <1> QED  BY <1>1, <1>2, <1>3, <1>4, <1>5, <1>6, <1>7, <1>8 DEF LoginInv

LEMMA LoadRefreshedStep ==
    ASSUME LoginInv, LoadRefreshed
    PROVE  LoginInv'
  <1> USE LoginAssumption DEF LoginInv, LoadRefreshed, Issue, Spend
  <1>1. LoginTypes'
    <2>1. tokensIssued' \in Nat
      BY DEF LoginTypes
    <2>2. held' \in 0..tokensIssued' /\ saved' \in 0..tokensIssued' /\ cliLogin' \in 0..tokensIssued'
      BY DEF LoginTypes
    <2>3. ours' \subseteq 1..tokensIssued'
      <3>1. tokensIssued \in Nat /\ ours \subseteq 1..tokensIssued /\ held \in 1..tokensIssued
        BY DEF LoginTypes, PlacesKept
      <3>2. tokensIssued' \in {tokensIssued, tokensIssued + 1} /\ ours' \in {ours, ours \cup {held}}
        OBVIOUS
      <3> QED  BY <3>1, <3>2
    <2>4. age' \in [Tokens -> {"fresh", "aging", "expired"}]
      BY DEF LoginTypes
    <2>5. persisted' \in BOOLEAN /\ blind' \in BOOLEAN /\ gone' \in {"no", "cleared", "deleted"}
      BY DEF LoginTypes
    <2>6. call' \in [Callers -> [kind : {"none", "initiate", "refresh", "sync", "disconnect"}, step : LoginSteps]]
      BY DEF LoginTypes, LoginSteps
    <2> QED  BY <2>1, <2>2, <2>3, <2>4, <2>5, <2>6 DEF LoginTypes
  <1>2. LockKept'
    BY DEF LoginTypes, LockKept, Working, Polling, Unclaimed, Resting, LoginSteps
  <1>3. PlacesKept'
    BY DEF LoginTypes, LockKept, Working, PlacesKept, Polling, Unclaimed, Resting,
        DisconnectIsFinal, LoginSteps
  <1>4. NewIsFresh'
    BY DEF LoginTypes, LockKept, Working, PlacesKept, Polling, Unclaimed, Resting, NewIsFresh,
        Tokens, NeedsRefresh
  <1>5. OwnTokens'
    BY DEF LoginTypes, LockKept, Working, PlacesKept, Polling, Unclaimed, Resting, NewIsFresh,
        OwnTokens, Syncing, LoginSteps
  <1>6. StoredKept'
    BY DEF LoginTypes, LockKept, Working, PlacesKept, Polling, Unclaimed, Resting, StoredKept,
        Syncing, LoginSteps
  <1>7. DisconnectIsFinal'
    BY DEF LoginTypes, LockKept, Working, PlacesKept, Polling, Unclaimed, Resting,
        DisconnectIsFinal
  <1>8. CliTokenUntouched'
    BY DEF LoginTypes, LockKept, Working, PlacesKept, Polling, Unclaimed, Resting, OwnTokens,
        Syncing, CliTokenUntouched
  <1> QED  BY <1>1, <1>2, <1>3, <1>4, <1>5, <1>6, <1>7, <1>8 DEF LoginInv

LEMMA LoadSavedStep ==
    ASSUME LoginInv, LoadSaved
    PROVE  LoginInv'
  <1> USE LoginAssumption DEF LoginInv, LoadSaved, SaveToken, providerVars
  <1>1. LoginTypes'
    BY DEF LoginTypes, LoginSteps
  <1>2. LockKept'
    BY DEF LoginTypes, LockKept, Working, Polling, Unclaimed, Resting, LoginSteps
  <1>3. PlacesKept'
    BY DEF LoginTypes, LockKept, Working, PlacesKept, Polling, Unclaimed, Resting,
        DisconnectIsFinal, LoginSteps
  <1>4. NewIsFresh'
    BY DEF LoginTypes, LockKept, Working, PlacesKept, Polling, Unclaimed, Resting, NewIsFresh,
        Tokens, NeedsRefresh
  <1>5. OwnTokens'
    BY DEF LoginTypes, LockKept, Working, PlacesKept, Polling, Unclaimed, Resting, NewIsFresh,
        OwnTokens, Syncing, LoginSteps
  <1>6. StoredKept'
    BY DEF LoginTypes, LockKept, Working, PlacesKept, Polling, Unclaimed, Resting, StoredKept,
        Syncing, LoginSteps
  <1>7. DisconnectIsFinal'
    BY DEF LoginTypes, LockKept, Working, PlacesKept, Polling, Unclaimed, Resting,
        DisconnectIsFinal
  <1>8. CliTokenUntouched'
    BY DEF LoginTypes, LockKept, Working, PlacesKept, Polling, Unclaimed, Resting, OwnTokens,
        Syncing, CliTokenUntouched
  <1> QED  BY <1>1, <1>2, <1>3, <1>4, <1>5, <1>6, <1>7, <1>8 DEF LoginInv

LEMMA AutoSyncStep ==
    ASSUME LoginInv, AutoSync
    PROVE  LoginInv'
  <1> USE LoginAssumption DEF LoginInv, AutoSync, DeleteStoredToken, HoldsCli, memoryVars,
      providerVars
  <1>1. LoginTypes'
    <2>1. tokensIssued' \in Nat
      BY DEF LoginTypes
    <2>2. held' \in 0..tokensIssued' /\ saved' \in 0..tokensIssued' /\ cliLogin' \in 0..tokensIssued'
      BY DEF LoginTypes
    <2>3. ours' \subseteq 1..tokensIssued'
      BY DEF LoginTypes, PlacesKept
    <2>4. age' \in [Tokens -> {"fresh", "aging", "expired"}]
      BY DEF LoginTypes
    <2>5. persisted' \in BOOLEAN /\ blind' \in BOOLEAN /\ gone' \in {"no", "cleared", "deleted"}
      BY DEF LoginTypes
    <2>6. call' \in [Callers -> [kind : {"none", "initiate", "refresh", "sync", "disconnect"}, step : LoginSteps]]
      BY DEF LoginTypes, LoginSteps
    <2> QED  BY <2>1, <2>2, <2>3, <2>4, <2>5, <2>6 DEF LoginTypes
  <1>2. LockKept'
    BY DEF LoginTypes, LockKept, Working, Polling, Unclaimed, Resting, LoginSteps
  <1>3. PlacesKept'
    BY DEF LoginTypes, LockKept, Working, PlacesKept, Polling, Unclaimed, Resting,
        DisconnectIsFinal, LoginSteps
  <1>4. NewIsFresh'
    BY DEF LoginTypes, LockKept, Working, PlacesKept, Polling, Unclaimed, Resting, NewIsFresh,
        Tokens, NeedsRefresh
  <1>5. OwnTokens'
    BY DEF LoginTypes, LockKept, Working, PlacesKept, Polling, Unclaimed, Resting, NewIsFresh,
        OwnTokens, Syncing, LoginSteps
  <1>6. StoredKept'
    BY DEF LoginTypes, LockKept, Working, PlacesKept, Polling, Unclaimed, Resting, StoredKept,
        Syncing, LoginSteps
  <1>7. DisconnectIsFinal'
    BY DEF LoginTypes, LockKept, Working, PlacesKept, Polling, Unclaimed, Resting,
        DisconnectIsFinal
  <1>8. CliTokenUntouched'
    BY DEF LoginTypes, LockKept, Working, PlacesKept, Polling, Unclaimed, Resting, OwnTokens,
        Syncing, CliTokenUntouched
  <1> QED  BY <1>1, <1>2, <1>3, <1>4, <1>5, <1>6, <1>7, <1>8 DEF LoginInv

LEMMA PollEndsStep ==
    ASSUME LoginInv, NEW status \in {"error", "expired"}, PollEnds(status)
    PROVE  LoginInv'
  <1> USE LoginAssumption DEF LoginInv, PollEnds, providerVars
  <1>1. LoginTypes'
    BY DEF LoginTypes, LoginSteps
  <1>2. LockKept'
    BY DEF LoginTypes, LockKept, Working, Polling, Unclaimed, Resting, LoginSteps
  <1>3. PlacesKept'
    BY DEF LoginTypes, LockKept, Working, PlacesKept, Polling, Unclaimed, Resting,
        DisconnectIsFinal, LoginSteps
  <1>4. NewIsFresh'
    BY DEF LoginTypes, LockKept, Working, PlacesKept, Polling, Unclaimed, Resting, NewIsFresh,
        Tokens, NeedsRefresh
  <1>5. OwnTokens'
    BY DEF LoginTypes, LockKept, Working, PlacesKept, Polling, Unclaimed, Resting, NewIsFresh,
        OwnTokens, Syncing, LoginSteps
  <1>6. StoredKept'
    BY DEF LoginTypes, LockKept, Working, PlacesKept, Polling, Unclaimed, Resting, StoredKept,
        Syncing, LoginSteps
  <1>7. DisconnectIsFinal'
    BY DEF LoginTypes, LockKept, Working, PlacesKept, Polling, Unclaimed, Resting,
        DisconnectIsFinal
  <1>8. CliTokenUntouched'
    BY DEF LoginTypes, LockKept, Working, PlacesKept, Polling, Unclaimed, Resting, OwnTokens,
        Syncing, CliTokenUntouched
  <1> QED  BY <1>1, <1>2, <1>3, <1>4, <1>5, <1>6, <1>7, <1>8 DEF LoginInv

LEMMA LoadStoredTokenStep ==
    ASSUME LoginInv, NEW readable \in BOOLEAN, LoadStoredToken(readable)
    PROVE  LoginInv'
  <1> USE LoginAssumption DEF LoginInv, LoadStoredToken, NeedsRefresh, CopyOfCli, memoryVars,
      providerVars
  <1>1. LoginTypes'
    <2>1. tokensIssued' \in Nat
      BY DEF LoginTypes
    <2>2. held' \in 0..tokensIssued' /\ saved' \in 0..tokensIssued' /\ cliLogin' \in 0..tokensIssued'
      BY DEF LoginTypes
    <2>3. ours' \subseteq 1..tokensIssued'
      BY DEF LoginTypes, PlacesKept
    <2>4. age' \in [Tokens -> {"fresh", "aging", "expired"}]
      BY DEF LoginTypes
    <2>5. persisted' \in BOOLEAN /\ blind' \in BOOLEAN /\ gone' \in {"no", "cleared", "deleted"}
      BY DEF LoginTypes
    <2>6. call' \in [Callers -> [kind : {"none", "initiate", "refresh", "sync", "disconnect"}, step : LoginSteps]]
      BY DEF LoginTypes, LoginSteps
    <2> QED  BY <2>1, <2>2, <2>3, <2>4, <2>5, <2>6 DEF LoginTypes
  <1>2. LockKept'
    BY DEF LoginTypes, LockKept, Working, Polling, Unclaimed, Resting, LoginSteps
  <1>3. PlacesKept'
    BY DEF LoginTypes, LockKept, Working, PlacesKept, Polling, Unclaimed, Resting,
        DisconnectIsFinal, LoginSteps
  <1>4. NewIsFresh'
    BY DEF LoginTypes, LockKept, Working, PlacesKept, Polling, Unclaimed, Resting, NewIsFresh,
        Tokens
  <1>5. OwnTokens'
    BY DEF LoginTypes, LockKept, Working, PlacesKept, Polling, Unclaimed, Resting, NewIsFresh,
        OwnTokens, Syncing, LoginSteps
  <1>6. StoredKept'
    BY DEF LoginTypes, LockKept, Working, PlacesKept, Polling, Unclaimed, Resting, StoredKept,
        Syncing, LoginSteps
  <1>7. DisconnectIsFinal'
    BY DEF LoginTypes, LockKept, Working, PlacesKept, Polling, Unclaimed, Resting,
        DisconnectIsFinal
  <1>8. CliTokenUntouched'
    BY DEF LoginTypes, LockKept, Working, PlacesKept, Polling, Unclaimed, Resting, OwnTokens,
        Syncing, CliTokenUntouched
  <1> QED  BY <1>1, <1>2, <1>3, <1>4, <1>5, <1>6, <1>7, <1>8 DEF LoginInv

-----------------------------------------------------------------------------
LEMMA LoginInitially == LoginInit => LoginInv
  <1> SUFFICES ASSUME LoginInit PROVE LoginInv
    OBVIOUS
  <1> USE LoginAssumption DEF LoginInit, Resting, Unclaimed, Tokens
  <1>1. LoginTypes
    <2>1. /\ tokensIssued \in Nat /\ ours \subseteq 1..tokensIssued
          /\ held \in 0..tokensIssued /\ saved \in 0..tokensIssued /\ cliLogin \in 0..tokensIssued
      OBVIOUS
    <2>2. age \in [Tokens -> {"fresh", "aging", "expired"}]
      OBVIOUS
    <2>3. call \in [Callers -> [kind : {"none", "initiate", "refresh", "sync", "disconnect"}, step : LoginSteps]]
      BY DEF LoginSteps
    <2> QED  BY <2>1, <2>2, <2>3 DEF LoginTypes
  <1>2. LockKept
    BY DEF LockKept, Working
  <1>3. PlacesKept
    BY DEF PlacesKept
  <1>4. NewIsFresh
    BY DEF NewIsFresh
  <1>5. OwnTokens /\ StoredKept
    BY DEF OwnTokens, StoredKept
  <1>6. DisconnectIsFinal /\ CliTokenUntouched
    BY DEF DisconnectIsFinal, CliTokenUntouched
  <1> QED  BY <1>1, <1>2, <1>3, <1>4, <1>5, <1>6 DEF LoginInv

LEMMA LoginIdle == LoginInv /\ UNCHANGED loginVars => LoginInv'
  <1> SUFFICES ASSUME LoginInv, UNCHANGED loginVars PROVE LoginInv'
    OBVIOUS
  <1> USE DEF LoginInv, loginVars, memoryVars, providerVars
  <1>1. LoginTypes' /\ NewIsFresh'
    BY DEF LoginTypes, NewIsFresh
  <1>2. LockKept' /\ PlacesKept'
    BY DEF LockKept, Working, PlacesKept
  <1>3. OwnTokens' /\ StoredKept'
    BY DEF OwnTokens, StoredKept, Syncing
  <1>4. DisconnectIsFinal' /\ CliTokenUntouched'
    BY DEF DisconnectIsFinal, CliTokenUntouched
  <1> QED  BY <1>1, <1>2, <1>3, <1>4

LEMMA LoginInductive == LoginInv /\ LoginNext => LoginInv'
  <1> SUFFICES ASSUME LoginInv, LoginNext PROVE LoginInv'
    OBVIOUS
  <1>1. CASE \E t \in Tokens : Age(t)
    BY <1>1, AgeStep
  <1>2. ASSUME NEW c \in Callers, CallerNext(c) PROVE LoginInv'
    BY <1>2, InitiateDeviceCodeStep, DeviceCodeIssuedStep, DeviceCodeRefusedStep,
       RefreshOfCliStep, RefreshStep, RefreshAnsweredStep, RefreshFailedStep, RefreshSavedStep,
       SyncUnreadableStep, SyncFromCodexCliStep, SyncedStep, DisconnectStep, DisconnectedStep
      DEF CallerNext
  <1>3. CASE CliRotates
    BY <1>3, CliRotatesStep
  <1>4. CASE CliLogsOut
    BY <1>4, CliLogsOutStep
  <1>5. CASE GetCodexSession
    BY <1>5, GetCodexSessionStep
  <1>6. CASE PollGranted
    BY <1>6, PollGrantedStep
  <1>7. CASE PollExchanges
    BY <1>7, PollExchangesStep
  <1>8. CASE ExchangeFailed
    BY <1>8, ExchangeFailedStep
  <1>9. CASE Exchanged
    BY <1>9, ExchangedStep
  <1>10. CASE PollSaved
    BY <1>10, PollSavedStep
  <1>11. CASE Stop
    BY <1>11, StopStep
  <1>12. CASE LoadRefreshed
    BY <1>12, LoadRefreshedStep
  <1>13. CASE LoadSaved
    BY <1>13, LoadSavedStep
  <1>14. CASE AutoSync
    BY <1>14, AutoSyncStep
  <1>15. CASE \E status \in {"error", "expired"} : PollEnds(status)
    BY <1>15, PollEndsStep
  <1>16. CASE \E readable \in BOOLEAN : LoadStoredToken(readable)
    BY <1>16, LoadStoredTokenStep
  <1> QED  BY <1>1, <1>2, <1>3, <1>4, <1>5, <1>6, <1>7, <1>8, <1>9, <1>10, <1>11, <1>12, <1>13,
       <1>14, <1>15, <1>16
    DEF LoginNext

LEMMA LoginInvIsSafe == LoginInv => LoginSafe
  BY LoginAssumption
     DEF LoginInv, LoginSafe, PersistedIsStored, StoredKept, Syncing, LockKept, Working, Unclaimed

(* A disconnect is final, the runtime never uses the refresh token the     *)
(* Codex CLI holds, and what the status calls persisted is what a restart  *)
(* loads: however requests, polls, restarts and the CLI meet               *)
(* (services/oauth).                                                       *)
THEOREM LoginIsSafe == LoginSpec => []LoginSafe
  <1>1. LoginInv /\ [LoginNext]_loginVars => LoginInv'
    BY LoginInductive, LoginIdle
  <1> QED  BY LoginInitially, <1>1, LoginInvIsSafe, PTL DEF LoginSpec

-----------------------------------------------------------------------------
(* ModelAccess: any providers, secrets, models, configurations, changes.   *)

Keys == Secrets \cup {NoKey, "shell", "json"}
Change == [kind : {"store", "delete"}, p : Providers, key : Secrets \cup {NoKey}, done : BOOLEAN]

AccessTypes ==
    /\ fromShell \in [Providers -> {NoKey, "shell"}] /\ fromJson \in [Providers -> {NoKey, "json"}]
    /\ environ \in [Providers -> Keys] /\ active \in [Providers -> Keys]
    /\ backup \in [Providers -> Keys \cup {Untouched}]
    /\ fromDb \subseteq Providers /\ loaded \subseteq Providers
    /\ storedKeys \in [Providers -> Secrets \cup {NoKey}]
    /\ change \in [KeyRequests -> Change \cup {Quiet}]

(* A provider without a stored key in force has nothing backed up, so that *)
(* the next store backs up what the operator configured and no stored key. *)
NoStaleBackup == \A p \in Providers \ fromDb : backup[p] = Untouched

AccessInv == AccessTypes /\ NoStaleBackup /\ OperatorKeyComesBack /\ SubscriptionGuard

AccessSpec == AccessInit /\ [][AccessNext]_accessVars

-----------------------------------------------------------------------------
(* Keys.                                                                   *)

LEMMA ConfiguredIsNoMark ==
    ASSUME AccessTypes, NEW p \in Providers
    PROVE  Configured(p) # Untouched
  BY DEF AccessTypes, Configured, Untouched, NoKey

LEMMA AChange ==
    ASSUME AccessTypes, NEW r \in KeyRequests, change[r] # Quiet
    PROVE  /\ change[r] \in Change /\ change[r].p \in Providers
           /\ change[r].key \in Secrets \cup {NoKey}
  BY DEF AccessTypes, Change

LEMMA StartStep ==
    ASSUME AccessInv, NEW read \in SUBSET Providers, StartAccess(read),
           UNCHANGED <<fromShell, fromJson, storedKeys>>
    PROVE  /\ environ' \in [Providers -> Keys] /\ active' \in [Providers -> Keys]
           /\ backup' \in [Providers -> Keys \cup {Untouched}]
           /\ fromDb' \subseteq Providers /\ loaded' \subseteq Providers
           /\ NoStaleBackup' /\ OperatorKeyComesBack'
  <1>1. AccessTypes
    BY DEF AccessInv
  <1>2. /\ environ' \in [Providers -> Keys] /\ active' \in [Providers -> Keys]
        /\ backup' \in [Providers -> Keys \cup {Untouched}]
        /\ fromDb' \subseteq Providers /\ loaded' \subseteq Providers
    BY <1>1 DEF StartAccess, AccessTypes, Keys, Known
  <1>3. NoStaleBackup'
    BY DEF StartAccess, NoStaleBackup
  <1>4. OperatorKeyComesBack'
    BY <1>1 DEF StartAccess, OperatorKeyComesBack, Configured, Known, AccessTypes
  <1> QED  BY <1>2, <1>3, <1>4

LEMMA RestartStep ==
    ASSUME AccessInv, Restart
    PROVE  AccessInv'
  <1>1. PICK read \in SUBSET Providers : StartAccess(read)
    BY DEF Restart
  <1>2. /\ environ' \in [Providers -> Keys] /\ active' \in [Providers -> Keys]
        /\ backup' \in [Providers -> Keys \cup {Untouched}]
        /\ fromDb' \subseteq Providers /\ loaded' \subseteq Providers
        /\ NoStaleBackup' /\ OperatorKeyComesBack'
    BY <1>1, StartStep DEF Restart
  <1>3. AccessTypes'
    BY <1>2 DEF Restart, AccessInv, AccessTypes
  <1>4. SubscriptionGuard'
    BY DEF Restart, SubscriptionGuard
  <1> QED  BY <1>2, <1>3, <1>4 DEF AccessInv

(* Asking, committing and giving up change neither keys nor routes.        *)
LEMMA RequestStep ==
    ASSUME AccessInv, NEW r \in KeyRequests,
           StoreKey(r) \/ DeleteKey(r) \/ CommitKey(r) \/ NotCommitted(r)
    PROVE  AccessInv'
  <1>0. AccessTypes
    BY DEF AccessInv
  <1>1. UNCHANGED <<llm, fromShell, fromJson, keyVars, loaded, built>>
    BY DEF StoreKey, DeleteKey, AskChange, CommitKey, NotCommitted
  <1>2. storedKeys' \in [Providers -> Secrets \cup {NoKey}]
    <2>1. CASE StoreKey(r) \/ DeleteKey(r) \/ NotCommitted(r)
      BY <1>0, <2>1 DEF StoreKey, DeleteKey, AskChange, NotCommitted, AccessTypes
    <2>2. CASE CommitKey(r)
      BY <1>0, <2>2, AChange DEF CommitKey, AccessTypes
    <2> QED  BY <2>1, <2>2
  <1>3. change' \in [KeyRequests -> Change \cup {Quiet}]
    <2>1. CASE StoreKey(r)
      <3>1. PICK p \in Providers, key \in Secrets : AskChange(r, "store", p, key)
        BY <2>1 DEF StoreKey
      <3>2. [kind |-> "store", p |-> p, key |-> key, done |-> FALSE] \in Change
        BY DEF Change
      <3> QED  BY <1>0, <3>1, <3>2 DEF AskChange, AccessTypes
    <2>2. CASE DeleteKey(r)
      <3>1. PICK p \in Providers : AskChange(r, "delete", p, NoKey)
        BY <2>2 DEF DeleteKey
      <3>2. [kind |-> "delete", p |-> p, key |-> NoKey, done |-> FALSE] \in Change
        BY DEF Change
      <3> QED  BY <1>0, <3>1, <3>2 DEF AskChange, AccessTypes
    <2>3. CASE CommitKey(r)
      <3>1. change[r] \in Change
        BY <1>0, <2>3, AChange DEF CommitKey
      <3>2. [change[r] EXCEPT !.done = TRUE] \in Change
        BY <3>1 DEF Change
      <3> QED  BY <1>0, <2>3, <3>2 DEF CommitKey, AccessTypes
    <2>4. CASE NotCommitted(r)
      BY <1>0, <2>4 DEF NotCommitted, AccessTypes
    <2> QED  BY <2>1, <2>2, <2>3, <2>4
  <1>4. AccessTypes'
    BY <1>0, <1>1, <1>2, <1>3 DEF AccessTypes, keyVars
  <1>5. NoStaleBackup' /\ OperatorKeyComesBack' /\ SubscriptionGuard'
    BY <1>1 DEF AccessInv, keyVars, NoStaleBackup, OperatorKeyComesBack, Configured, Known,
                SubscriptionGuard
  <1> QED  BY <1>4, <1>5 DEF AccessInv

(* The first stored key backs up the operator's, a later one nothing.      *)
LEMMA ReloadStep ==
    ASSUME AccessInv, NEW r \in KeyRequests, ReloadProviderKey(r)
    PROVE  AccessInv'
  <1> DEFINE p == change[r].p
  <1>0. AccessTypes /\ change[r] # Quiet
    BY DEF AccessInv, ReloadProviderKey, Quiet
  <1>1. p \in Providers /\ change[r].key \in Keys
    BY <1>0, AChange DEF Keys
  <1>2. BackedUp(p) = Configured(p)
    <2>1. CASE p \in fromDb
      BY <1>0, <1>1, <2>1, ConfiguredIsNoMark DEF AccessInv, OperatorKeyComesBack, BackedUp
    <2>2. CASE p \notin fromDb
      BY <1>1, <2>2 DEF AccessInv, OperatorKeyComesBack, NoStaleBackup, BackedUp
    <2> QED  BY <2>1, <2>2
  <1>3. BackedUp(p) \in Keys
    BY <1>0, <1>1 DEF BackedUp, AccessTypes
  <1>4. AccessTypes'
    BY <1>0, <1>1, <1>3 DEF ReloadProviderKey, AccessTypes
  <1>5. NoStaleBackup'
    BY <1>0, <1>1 DEF AccessInv, ReloadProviderKey, NoStaleBackup, AccessTypes
  <1>6. OperatorKeyComesBack'
    BY <1>0, <1>1, <1>2 DEF AccessInv, ReloadProviderKey, OperatorKeyComesBack, Configured, Known,
                            AccessTypes
  <1>7. SubscriptionGuard'
    BY DEF AccessInv, ReloadProviderKey, SubscriptionGuard
  <1> QED  BY <1>4, <1>5, <1>6, <1>7 DEF AccessInv

LEMMA RemoveStep ==
    ASSUME AccessInv, NEW r \in KeyRequests, RemoveProviderKey(r)
    PROVE  AccessInv'
  <1> DEFINE p == change[r].p
             left == IF backup[p] = Untouched THEN environ[p] ELSE backup[p]
  <1>0. AccessTypes /\ change[r] # Quiet
    BY DEF AccessInv, RemoveProviderKey, Quiet
  <1>1. p \in Providers
    BY <1>0, AChange
  <1>2. left = Configured(p)
    <2>1. CASE p \in fromDb
      BY <1>0, <1>1, <2>1, ConfiguredIsNoMark DEF AccessInv, OperatorKeyComesBack
    <2>2. CASE p \notin fromDb
      BY <1>1, <2>2 DEF AccessInv, OperatorKeyComesBack, NoStaleBackup
    <2> QED  BY <2>1, <2>2
  <1>3. left \in Keys
    BY <1>0, <1>1 DEF AccessTypes
  <1>4. AccessTypes'
    BY <1>0, <1>1, <1>3 DEF RemoveProviderKey, AccessTypes
  <1>5. NoStaleBackup'
    BY <1>0, <1>1 DEF AccessInv, RemoveProviderKey, NoStaleBackup, AccessTypes
  <1>6. OperatorKeyComesBack'
    BY <1>0, <1>1, <1>2 DEF AccessInv, RemoveProviderKey, OperatorKeyComesBack, Configured, Known,
                            AccessTypes
  <1>7. SubscriptionGuard'
    BY DEF AccessInv, RemoveProviderKey, SubscriptionGuard
  <1> QED  BY <1>4, <1>5, <1>6, <1>7 DEF AccessInv

-----------------------------------------------------------------------------
(* Routes.                                                                 *)

(* However the subscription's readings come out, with codex_only a model   *)
(* of OpenAI is refused or goes through it.                                *)
LEMMA NoKeyForOpenAi ==
    ASSUME NEW m, NEW connected, llm.codex_only, OfOpenAi(m)
    PROVE  RouteOf(m, connected) # "api key"
  BY DEF RouteOf

LEMMA BuildStep ==
    ASSUME AccessInv, BuildAgent
    PROVE  AccessInv'
  <1>1. UNCHANGED <<llm, fromShell, fromJson, keyVars, loaded, storedKeys, change, changes>>
    BY DEF BuildAgent
  <1>2. SubscriptionGuard'
    <2>1. PICK m, connected, via :
             /\ built' = [model |-> m, via |-> via]
             /\ via \in {"refused", RouteOf(m, connected)}
      <3>1. PICK reading \in [1..4 -> BOOLEAN], asked \in Models \cup {NoModel} :
               \E m \in (IF asked = NoModel THEN EffectiveModels(reading[1]) ELSE {asked}) :
                  built' = [model |-> m,
                            via |-> IF \/ "refused" \in {RouteOf(m, reading[2]), RouteOf(m, reading[3])}
                                       \/ RouteOf(m, reading[3]) = "subscription" /\ ~reading[4]
                                    THEN "refused" ELSE RouteOf(m, reading[3])]
        BY DEF BuildAgent
      <3>2. PICK m \in (IF asked = NoModel THEN EffectiveModels(reading[1]) ELSE {asked}) :
               built' = [model |-> m,
                         via |-> IF \/ "refused" \in {RouteOf(m, reading[2]), RouteOf(m, reading[3])}
                                    \/ RouteOf(m, reading[3]) = "subscription" /\ ~reading[4]
                                 THEN "refused" ELSE RouteOf(m, reading[3])]
        BY <3>1
      <3> DEFINE via == IF \/ "refused" \in {RouteOf(m, reading[2]), RouteOf(m, reading[3])}
                           \/ RouteOf(m, reading[3]) = "subscription" /\ ~reading[4]
                        THEN "refused" ELSE RouteOf(m, reading[3])
      <3>3. via \in {"refused", RouteOf(m, reading[3])}
        OBVIOUS
      <3> QED  BY <3>2, <3>3
    <2>2. built'.model = m /\ built'.via = via
      BY <2>1
    <2>3. llm'.codex_only /\ OfOpenAi(m) => via # "api key"
      BY <1>1, <2>1, NoKeyForOpenAi
    <2> QED  BY <2>2, <2>3 DEF SubscriptionGuard, OfOpenAi
  <1>3. AccessTypes' /\ NoStaleBackup' /\ OperatorKeyComesBack'
    BY <1>1 DEF AccessInv, keyVars, AccessTypes, NoStaleBackup, OperatorKeyComesBack, Configured, Known
  <1> QED  BY <1>2, <1>3 DEF AccessInv

-----------------------------------------------------------------------------
(* The invariant.                                                          *)

LEMMA AccessInitially ==
    ASSUME AccessInit
    PROVE  AccessInv
  <1>1. AccessTypes
    BY DEF AccessInit, AccessTypes, Keys, Known, Change
  <1>2. NoStaleBackup
    BY DEF AccessInit, NoStaleBackup
  <1>3. OperatorKeyComesBack
    BY DEF AccessInit, OperatorKeyComesBack, Configured, Known
  <1>4. SubscriptionGuard
    BY DEF AccessInit, SubscriptionGuard
  <1> QED  BY <1>1, <1>2, <1>3, <1>4 DEF AccessInv

LEMMA AccessInductive ==
    ASSUME AccessInv, [AccessNext]_accessVars
    PROVE  AccessInv'
  <1>1. CASE AccessNext
    BY <1>1, RestartStep, BuildStep, RequestStep, ReloadStep, RemoveStep DEF AccessNext
  <1>2. CASE UNCHANGED accessVars
    BY <1>2 DEF accessVars, keyVars, AccessInv, AccessTypes, NoStaleBackup, OperatorKeyComesBack,
                Configured, Known, SubscriptionGuard
  <1> QED  BY <1>1, <1>2

(* Whatever keys are stored and deleted, in whatever order their requests  *)
(* end or are lost, and however often the process starts: the operator's   *)
(* key comes back, and codex_only is never got round.                      *)
THEOREM KeysAndRoutes == AccessSpec => []AccessHolds
  <1>1. AccessSpec => []AccessInv
    BY AccessInitially, AccessInductive, PTL DEF AccessSpec
  <1>2. AccessInv => AccessHolds
    BY DEF AccessInv, AccessHolds
  <1> QED  BY <1>1, <1>2, PTL

-----------------------------------------------------------------------------
(* RuntimeStart: any processes, clients, fields and values, and any number *)
(* of starts, faults and changes.                                          *)

Places == Awaits \union {"off", "starting", "serving", "stopping"}
Names == {"access", "database", "services"}
Lists == Seq(Names)
Overlay == [Fields -> Values \union {0}]
Process == [config : [required : BOOLEAN, migrate : BOOLEAN], pc : Places, next : 1..4,
            started : Lists, owes : SUBSET Names, healthy : BOOLEAN,
            upgrade : {"none", "waiting", "current", "upgrading", "done", "failed"},
            overlay : Overlay, lock : Clients \union {Nobody}]
Requested == [at : {"waiting"}, p : Processes, f : Fields, v : Values \union {0}]
Written == [at : {"saving", "saved"}, p : Processes, f : Fields, v : Values \union {0},
            new : Overlay]

ServerTypes == server \in [up : BOOLEAN, schema : {"missing", "empty", "old", "head"},
                           lock : Processes \union {Nobody}, row : Overlay]
ProcTypes == proc \in [Processes -> Process]
PatchTypes == patch \in [Clients -> {NoPatch} \union Requested \union Written]
ToldTypes == told \in [Processes -> Overlay]
HistoryTypes == history \in [starts : Nat, faults : Nat, updates : Nat, upgrades : Nat,
                             writer : Processes \union {Nobody}, doubt : BOOLEAN]

(* What runs is on the list, and a database in use runs.                   *)
OnList ==
    \A p \in Processes :
        /\ proc[p].pc = "off" => proc[p].owes = {}
        /\ \A n \in proc[p].owes : \E i \in 1..Len(proc[p].started) : proc[p].started[i] = n
        /\ proc[p].healthy => "database" \in proc[p].owes
        /\ proc[p].pc \in {"probing", "creating", "reprobing"} => "database" \in proc[p].owes

(* Who upgrades holds the lock of the server, and there is something to    *)
(* do; who has nothing to do, or is done, leaves the current schema.       *)
OneUpgrade ==
    /\ history.upgrades <= 1
    /\ history.upgrades # 0 => server.schema = "head"
    /\ \A p \in Processes :
          /\ proc[p].upgrade = "upgrading" => server.lock = p /\ server.schema # "head"
          /\ proc[p].upgrade \in {"current", "done"} => server.schema = "head"

(* Past the start of the database, what the process found stands.          *)
PastDatabase(p) ==
    /\ proc[p].pc \in {"starting", "acquiring", "loading", "cleaning", "serving"}
    /\ proc[p].next \in {3, 4}

DatabaseFound ==
    \A p \in Processes :
        /\ proc[p].pc \in {"probing", "creating", "reprobing", "migrating"} => proc[p].next = 3
        /\ proc[p].pc = "migrating" => proc[p].healthy
        /\ proc[p].pc \in {"loading", "cleaning", "serving"} => proc[p].next \in {3, 4}
        /\ PastDatabase(p) =>
              /\ Config(p).required => proc[p].healthy
              /\ proc[p].healthy /\ Config(p).migrate => server.schema = "head"

(* A change is one of a process that serves, and once it is being written  *)
(* it holds the lock of the settings it was built from.                    *)
ChangesServed ==
    \A c \in Clients : patch[c] # NoPatch =>
        /\ proc[patch[c].p].pc = "serving"
        /\ patch[c].at # "waiting" =>
              /\ proc[patch[c].p].lock = c
              /\ patch[c].new = [proc[patch[c].p].overlay EXCEPT ![patch[c].f] = patch[c].v]

Loaded(p) == proc[p].pc \in {"cleaning", "serving"}
OverlayTold == \A p \in Processes : Loaded(p) => proc[p].overlay = told[p]

(* The row is what its last writer has in force, or is about to have.      *)
SavedBy(p) == {c \in Clients : patch[c].at = "saved" /\ patch[c].p = p}
Settled(p) ==
    /\ Loaded(p)
    /\ proc[p].healthy /\ history.writer = p /\ ~history.doubt
RowWritten ==
    \A p \in Processes : Settled(p) =>
        /\ \A c \in SavedBy(p) : server.row = patch[c].new
        /\ SavedBy(p) = {} => server.row = proc[p].overlay

(* The list of what is started.                                            *)
LEMMA InOrder ==
    /\ Len(Components) = 3
    /\ \A n \in 1..3 : /\ Components[n] \in Names
                       /\ Components[n] = "database" <=> n = 2
  <1>1. Components = <<"access", "database", "services">>
    BY DEF Components
  <1>2. Len(Components) = 3
    BY <1>1
  <1>3. Components[1] = "access" /\ Components[2] = "database" /\ Components[3] = "services"
    BY <1>1
  <1>4. \A n \in 1..3 : n = 1 \/ n = 2 \/ n = 3
    OBVIOUS
  <1> QED  BY <1>2, <1>3, <1>4 DEF Names

LEMMA Appended ==
    ASSUME NEW s \in Lists, NEW n \in Names
    PROVE  /\ Append(s, n) \in Lists /\ Len(s) \in Nat
           /\ Len(Append(s, n)) = Len(s) + 1 /\ Append(s, n)[Len(s) + 1] = n
           /\ \A i \in 1..Len(s) : Append(s, n)[i] = s[i]
  BY DEF Lists

LEMMA LastDropped ==
    ASSUME NEW s \in Lists, s # <<>>
    PROVE  /\ Len(s) \in Nat \ {0} /\ s[Len(s)] \in Names
           /\ SubSeq(s, 1, Len(s) - 1) \in Lists
           /\ Len(SubSeq(s, 1, Len(s) - 1)) = Len(s) - 1
           /\ \A i \in 1..(Len(s) - 1) : SubSeq(s, 1, Len(s) - 1)[i] = s[i]
  <1>1. Len(s) \in Nat \ {0}
    OBVIOUS
  <1>2. s[Len(s)] \in Names /\ SubSeq(s, 1, Len(s) - 1) \in Lists
    BY <1>1 DEF Lists
  <1>3. Len(SubSeq(s, 1, Len(s) - 1)) = Len(s) - 1
    BY <1>1, SubSeqProperties DEF Lists
  <1>4. \A i \in 1..(Len(s) - 1) : SubSeq(s, 1, Len(s) - 1)[i] = s[i]
    BY <1>1
  <1> QED  BY <1>1, <1>2, <1>3, <1>4

LEMMA Counted ==
    ASSUME NEW r \in Process
    PROVE  /\ r.next \in Int /\ r.next >= 1 /\ r.next <= 4
           /\ r.next < 4 => r.next \in 1..3 /\ r.next + 1 \in 1..4
  <1>1. r.next \in 1..4
    BY DEF Process
  <1> QED  BY <1>1

LEMMA OffIs ==
    ASSUME NEW c \in [required : BOOLEAN, migrate : BOOLEAN]
    PROVE  /\ Off(c) \in Process /\ Off(c).config = c /\ Off(c).pc = "off"
           /\ Off(c).next = 1 /\ Off(c).started = <<>> /\ Off(c).owes = {}
           /\ ~Off(c).healthy /\ Off(c).upgrade = "none" /\ Off(c).lock = Nobody
  <1>1. <<>> \in Lists /\ Unset \in Overlay
    BY DEF Lists, Unset, Overlay
  <1> QED  BY <1>1 DEF Off, Process, Places

(* What a process keeps when its result is taken or its database disposed. *)
LEMMA ResultTaken ==
    ASSUME NEW r \in Process
    PROVE  /\ [r EXCEPT !.upgrade = "none"] \in Process
           /\ [r EXCEPT !.upgrade = "none"].next = r.next
           /\ [r EXCEPT !.upgrade = "none"].started = r.started
           /\ [r EXCEPT !.upgrade = "none"].config = r.config
           /\ [r EXCEPT !.upgrade = "none"].overlay = r.overlay
           /\ [r EXCEPT !.upgrade = "none"].lock = r.lock
           /\ [r EXCEPT !.upgrade = "none"].upgrade = "none"
  BY DEF Process

LEMMA DisposedIs ==
    ASSUME NEW p \in Processes, proc[p] \in Process
    PROVE  Disposed(p) \in Process /\ [Disposed(p) EXCEPT !.upgrade = "none"] \in Process
  <1>1. proc[p].owes \ {"database"} \subseteq Names
    BY DEF Process
  <1>2. Disposed(p) \in Process
    BY <1>1 DEF Disposed, Process, Places
  <1> QED  BY <1>2, ResultTaken

LEMMA DisposedKeeps ==
    ASSUME NEW p \in Processes, proc[p] \in Process
    PROVE  /\ Disposed(p).next = proc[p].next /\ Disposed(p).started = proc[p].started
           /\ Disposed(p).config = proc[p].config /\ Disposed(p).overlay = proc[p].overlay
           /\ Disposed(p).lock = proc[p].lock /\ Disposed(p).upgrade = proc[p].upgrade
  BY DEF Disposed, Process

(* What a change in flight looks like.                                     *)
LEMMA Stages ==
    ASSUME PatchTypes, NEW c \in Clients
    PROVE  /\ patch[c].at = "waiting" => patch[c] \in Requested
           /\ patch[c].at \in {"saving", "saved"} => patch[c] \in Written
           /\ patch[c] = NoPatch <=> patch[c].at = "none"
           /\ patch[c] # NoPatch => patch[c].p \in Processes /\ patch[c].f \in Fields
  <1>1. patch[c] \in {NoPatch} \union Requested \union Written
    BY DEF PatchTypes
  <1>2. NoPatch.at = "none"
    BY DEF NoPatch
  <1>3. \A r \in Requested : r.at = "waiting" /\ r.p \in Processes /\ r.f \in Fields
    BY DEF Requested
  <1>4. \A r \in Written : r.at \in {"saving", "saved"} /\ r.p \in Processes /\ r.f \in Fields
    BY DEF Written
  <1> QED  BY <1>1, <1>2, <1>3, <1>4

(* What an action does to a process, field by field: what it leaves alone. *)
Others(p) == \A q \in Processes \ {p} : proc'[q] = proc[q]
SameList(p) == /\ proc'[p].started = proc[p].started /\ proc'[p].owes = proc[p].owes
               /\ proc'[p].healthy = proc[p].healthy
SameSettings(p) == proc'[p].overlay = proc[p].overlay /\ proc'[p].lock = proc[p].lock
Onward(p, to) == /\ proc'[p].pc = to /\ proc'[p].next = proc[p].next
                 /\ proc'[p].config = proc[p].config /\ proc'[p].upgrade = proc[p].upgrade
                 /\ SameList(p) /\ SameSettings(p)
OnlyUpgrade(p) == /\ proc'[p].pc = proc[p].pc /\ proc'[p].next = proc[p].next
                  /\ proc'[p].config = proc[p].config /\ SameList(p) /\ SameSettings(p)
OnlySettings(p) == /\ proc'[p].pc = proc[p].pc /\ proc'[p].next = proc[p].next
                   /\ proc'[p].config = proc[p].config /\ proc'[p].upgrade = proc[p].upgrade
                   /\ SameList(p)
SameStory == /\ history'.upgrades = history.upgrades /\ history'.writer = history.writer
             /\ history'.doubt = history.doubt
OtherChanges(c) == \A d \in Clients \ {c} : patch'[d] = patch[d]


LEMMA BecomesDoes ==
    ASSUME ProcTypes, NEW p \in Processes, NEW new \in Process,
           proc' = [proc EXCEPT ![p] = new]
    PROVE  ProcTypes' /\ proc'[p] = new /\ Others(p)
  BY DEF ProcTypes, Others

LEMMA BootDoes ==
    ASSUME HistoryTypes, ProcTypes, NEW p \in Processes, Boot(p)
    PROVE  /\ ProcTypes'
           /\ Others(p)
           /\ proc[p].pc = "off"
           /\ proc'[p].pc = "starting" /\ proc'[p].next = 1
           /\ proc'[p].started = <<>> /\ proc'[p].owes = {} /\ ~proc'[p].healthy
           /\ proc'[p].config = proc[p].config /\ proc'[p].upgrade = proc[p].upgrade
           /\ proc'[p].lock = Nobody
           /\ SameStory /\ UNCHANGED <<server, patch, told>>
  <1> DEFINE new == [Off(Config(p)) EXCEPT !.pc = "starting", !.upgrade = proc[p].upgrade]
  <1>1. proc[p] \in Process /\ Config(p) \in [required : BOOLEAN, migrate : BOOLEAN]
    BY DEF ProcTypes, Process, Config
  <1>2. new \in Process
    <2>1. Off(Config(p)) \in Process
      BY <1>1, OffIs
    <2> QED  BY <1>1, <2>1 DEF Process, Places
  <1>3. proc' = [proc EXCEPT ![p] = new]
    BY DEF Boot, Becomes
  <1>4. proc'[p] = new /\ ProcTypes' /\ Others(p)
    BY <1>2, <1>3, BecomesDoes
  <1>5. SameStory
    BY DEF Boot, SameStory
  <1> QED  BY <1>1, <1>4, <1>5, OffIs DEF Boot, Config

LEMMA StartNextDoes ==
    ASSUME HistoryTypes, ProcTypes, NEW p \in Processes, StartNext(p)
    PROVE  /\ ProcTypes'
           /\ Others(p)
           /\ proc[p].pc = "starting" /\ proc[p].next < 4
           /\ proc'[p].next = proc[p].next + 1
           /\ proc'[p].pc = IF proc[p].next = 2 THEN "probing" ELSE "acquiring"
           /\ proc'[p].started = Append(proc[p].started, Components[proc[p].next])
           /\ proc'[p].owes = proc[p].owes \union {Components[proc[p].next]}
           /\ proc'[p].healthy = proc[p].healthy /\ proc'[p].upgrade = proc[p].upgrade
           /\ proc'[p].config = proc[p].config /\ SameSettings(p)
           /\ UNCHANGED <<server, patch, told, history>>
  <1> DEFINE n == proc[p].next
             new == [proc[p] EXCEPT !.started = Append(@, Components[n]),
                                    !.owes = @ \union {Components[n]}, !.next = @ + 1,
                                    !.pc = IF n = 2 THEN "probing" ELSE "acquiring"]
  <1>1. proc[p] \in Process
    BY DEF ProcTypes
  <1>2. n \in 1..3 /\ Components[n] \in Names /\ (Components[n] = "database" <=> n = 2)
    <2>1. n <= Len(Components)
      BY DEF StartNext
    <2> QED  BY <1>1, <2>1, Counted, InOrder
  <1>3. new \in Process
    <2>1. proc[p].started \in Lists
      BY <1>1 DEF Process
    <2>2. Append(proc[p].started, Components[n]) \in Lists /\ n + 1 \in 1..4
      BY <1>1, <1>2, <2>1, Appended
    <2> QED  BY <1>1, <1>2, <2>2 DEF Process, Places, Awaits
  <1>4. proc' = [proc EXCEPT ![p] = new]
    BY <1>2 DEF StartNext, Becomes, Recorded
  <1>5. proc'[p] = new /\ ProcTypes' /\ Others(p)
    BY <1>3, <1>4, BecomesDoes
  <1>6. proc[p].pc = "starting" /\ UNCHANGED <<server, patch, told, history>>
    BY DEF StartNext
  <1>7. /\ new.next = n + 1 /\ new.pc = (IF n = 2 THEN "probing" ELSE "acquiring")
        /\ new.started = Append(proc[p].started, Components[n])
        /\ new.owes = proc[p].owes \union {Components[n]}
    BY <1>1
  <1>8. /\ new.healthy = proc[p].healthy /\ new.upgrade = proc[p].upgrade
        /\ new.config = proc[p].config /\ new.overlay = proc[p].overlay
        /\ new.lock = proc[p].lock
    BY <1>1
  <1>9. n < 4
    BY <1>2
  <1> QED  BY <1>5, <1>6, <1>7, <1>8, <1>9 DEF SameSettings

LEMMA ComponentUpDoes ==
    ASSUME HistoryTypes, ProcTypes, NEW p \in Processes, ComponentUp(p)
    PROVE  /\ ProcTypes'
           /\ Others(p)
           /\ proc[p].pc = "acquiring"
           /\ Onward(p, "starting")
           /\ UNCHANGED <<server, patch, told, history>>
  BY RuntimeAssumption DEF ComponentUp, Becomes, ProcTypes, Process, HistoryTypes,
      Others, Onward, SameList, SameSettings, Places

LEMMA StartBrokenDoes ==
    ASSUME HistoryTypes, ProcTypes, NEW p \in Processes, StartBroken(p)
    PROVE  /\ ProcTypes'
           /\ Others(p)
           /\ proc[p].pc \in Awaits
           /\ Onward(p, "stopping")
           /\ SameStory /\ UNCHANGED <<server, patch, told>>
  BY RuntimeAssumption DEF StartBroken, Goes, Becomes, Faulted, ProcTypes, Process,
      HistoryTypes, SameStory, Others, Onward, SameList, SameSettings, Places, Awaits

LEMMA CancelStopDoes ==
    ASSUME HistoryTypes, ProcTypes, NEW p \in Processes, CancelStop(p)
    PROVE  /\ ProcTypes'
           /\ proc' = proc
           /\ SameStory /\ UNCHANGED <<server, patch, told>>
  BY DEF CancelStop, Becomes, StopCancelled, Faulted, ProcTypes, HistoryTypes, SameStory

LEMMA StopOneDoes ==
    ASSUME HistoryTypes, ProcTypes, NEW p \in Processes, StopOne(p)
    PROVE  /\ ProcTypes'
           /\ Others(p)
           /\ proc[p].pc = "stopping" /\ proc'[p].pc = "stopping"
           /\ proc[p].started # <<>>
           /\ proc'[p].started = SubSeq(proc[p].started, 1, Len(proc[p].started) - 1)
           /\ proc'[p].owes = proc[p].owes \ {proc[p].started[Len(proc[p].started)]}
           /\ proc'[p].healthy =>
                 proc[p].healthy /\ proc[p].started[Len(proc[p].started)] # "database"
           /\ proc'[p].next = proc[p].next /\ proc'[p].upgrade = proc[p].upgrade
           /\ proc'[p].config = proc[p].config /\ SameSettings(p)
           /\ UNCHANGED <<server, patch, told, history>>
  <1> DEFINE s == proc[p].started
             new == [proc[p] EXCEPT !.started = SubSeq(@, 1, Len(s) - 1), !.owes = @ \ {s[Len(s)]},
                                    !.healthy = @ /\ s[Len(s)] # "database"]
  <1>1. proc[p] \in Process /\ s \in Lists
    BY DEF ProcTypes, Process
  <1>2. s # <<>> /\ s[Len(s)] \in Names /\ SubSeq(s, 1, Len(s) - 1) \in Lists
    BY <1>1, LastDropped DEF StopOne
  <1>3. new \in Process
    BY <1>1, <1>2 DEF Process
  <1>4. proc' = [proc EXCEPT ![p] = new]
    BY DEF StopOne, Becomes
  <1>5. proc'[p] = new /\ ProcTypes' /\ Others(p)
    BY <1>3, <1>4, BecomesDoes
  <1>6. /\ new.started = SubSeq(s, 1, Len(s) - 1) /\ new.owes = proc[p].owes \ {s[Len(s)]}
        /\ new.healthy => proc[p].healthy /\ s[Len(s)] # "database"
    BY <1>1 DEF Process
  <1>7. /\ new.pc = proc[p].pc /\ new.next = proc[p].next /\ new.upgrade = proc[p].upgrade
        /\ new.config = proc[p].config /\ new.overlay = proc[p].overlay
        /\ new.lock = proc[p].lock
    BY <1>1
  <1> QED  BY <1>2, <1>5, <1>6, <1>7 DEF StopOne, SameSettings

LEMMA StartedNoneDoes ==
    ASSUME HistoryTypes, ProcTypes, NEW p \in Processes, StartedNone(p)
    PROVE  /\ ProcTypes'
           /\ Others(p)
           /\ proc[p].pc = "stopping" /\ proc[p].started = <<>>
           /\ Onward(p, "off")
           /\ UNCHANGED <<server, patch, told, history>>
  BY DEF StartedNone, Goes, Becomes, ProcTypes, Process, HistoryTypes, Others, Onward,
      SameList, SameSettings, Places, Nobody

LEMMA ShutdownDoes ==
    ASSUME HistoryTypes, ProcTypes, NEW p \in Processes, Shutdown(p)
    PROVE  /\ ProcTypes'
           /\ Others(p)
           /\ proc[p].pc = "serving"
           /\ \A c \in Clients : patch[c].at # "none" => patch[c].p # p
           /\ Onward(p, "stopping")
           /\ UNCHANGED <<server, patch, told, history>>
  BY DEF Shutdown, Goes, Becomes, ProcTypes, Process, HistoryTypes, Others, Onward,
      SameList, SameSettings, Places, Nobody

LEMMA KillDoes ==
    ASSUME HistoryTypes, ProcTypes, ServerTypes, NEW p \in Processes, Kill(p)
    PROVE  /\ ProcTypes'
           /\ Others(p)
           /\ proc'[p].pc = "off" /\ proc'[p].owes = {} /\ ~proc'[p].healthy
           /\ proc'[p].upgrade = "none"
           /\ proc'[p].config = proc[p].config
           /\ ServerTypes' /\ server'.row = server.row /\ server'.schema = server.schema
           /\ server'.lock = (IF server.lock = p THEN Nobody ELSE server.lock)
           /\ \A c \in Clients : patch'[c] =
                 IF patch[c].at # "none" /\ patch[c].p = p THEN NoPatch ELSE patch[c]
           /\ SameStory /\ UNCHANGED told
  <1>1. proc[p] \in Process /\ Config(p) \in [required : BOOLEAN, migrate : BOOLEAN]
    BY DEF ProcTypes, Process, Config
  <1>2. proc' = [proc EXCEPT ![p] = Off(Config(p))]
    BY DEF Kill, Becomes
  <1>3. proc'[p] = Off(Config(p)) /\ ProcTypes' /\ Others(p)
    BY <1>1, <1>2, OffIs, BecomesDoes
  <1>4. SameStory
    BY DEF Kill, Faulted, SameStory
  <1>5. /\ ServerTypes' /\ server'.row = server.row /\ server'.schema = server.schema
        /\ server'.lock = (IF server.lock = p THEN Nobody ELSE server.lock)
    BY DEF Kill, ServerTypes, Nobody
  <1>6. \A c \in Clients : patch'[c] =
           IF patch[c].at # "none" /\ patch[c].p = p THEN NoPatch ELSE patch[c]
    BY DEF Kill
  <1>7. UNCHANGED told
    BY DEF Kill
  <1> QED  BY <1>1, <1>3, <1>4, OffIs, <1>5, <1>6, <1>7 DEF Config

LEMMA ProbeDoes ==
    ASSUME HistoryTypes, ProcTypes, NEW p \in Processes, Probe(p)
    PROVE  /\ ProcTypes'
           /\ Others(p)
           /\ proc[p].pc \in {"probing", "reprobing"} /\ proc[p].upgrade = "none"
           /\ proc'[p].next = proc[p].next /\ proc'[p].started = proc[p].started
           /\ proc'[p].config = proc[p].config /\ SameSettings(p)
           /\ \/ /\ proc'[p].pc = "migrating" /\ proc'[p].upgrade = "waiting"
                 /\ proc'[p].healthy /\ proc'[p].owes = proc[p].owes
              \/ /\ proc'[p].pc = "starting" /\ ~Config(p).migrate
                 /\ proc'[p].upgrade = "none" /\ proc'[p].healthy
                 /\ proc'[p].owes = proc[p].owes
              \/ /\ proc'[p].pc = "starting" /\ ~Config(p).required
                 /\ proc'[p].upgrade = "none" /\ ~proc'[p].healthy
                 /\ proc'[p].owes = proc[p].owes
              \/ /\ proc'[p].pc = "creating" /\ proc'[p].upgrade = "none"
                 /\ proc'[p].healthy = proc[p].healthy /\ proc'[p].owes = proc[p].owes
              \/ /\ proc'[p].pc = "stopping" /\ proc'[p].upgrade = "none"
                 /\ ~proc'[p].healthy /\ proc'[p].owes = proc[p].owes \ {"database"}
           /\ UNCHANGED <<server, patch, told, history>>
  <1>1. proc[p] \in Process
    BY DEF ProcTypes
  <1>2. PICK new : /\ proc' = [proc EXCEPT ![p] = new]
                   /\ \/ new = [proc[p] EXCEPT !.healthy = TRUE, !.pc = "migrating", !.upgrade = "waiting"]
                      \/ /\ ~Config(p).migrate
                         /\ new = [proc[p] EXCEPT !.healthy = TRUE, !.pc = "starting"]
                      \/ /\ ~Config(p).required
                         /\ new = [proc[p] EXCEPT !.healthy = FALSE, !.pc = "starting"]
                      \/ new = [proc[p] EXCEPT !.pc = "creating"]
                      \/ new = Disposed(p)
    BY DEF Probe, Becomes, Found
  <1>3. new \in Process
    <2>1. /\ [proc[p] EXCEPT !.healthy = TRUE, !.pc = "migrating", !.upgrade = "waiting"] \in Process
          /\ [proc[p] EXCEPT !.healthy = TRUE, !.pc = "starting"] \in Process
      BY <1>1 DEF Process, Places, Awaits
    <2>2. /\ [proc[p] EXCEPT !.healthy = FALSE, !.pc = "starting"] \in Process
          /\ [proc[p] EXCEPT !.pc = "creating"] \in Process
      BY <1>1 DEF Process, Places, Awaits
    <2> QED  BY <1>1, <1>2, <2>1, <2>2, DisposedIs
  <1>4. proc'[p] = new /\ ProcTypes' /\ Others(p)
    BY <1>2, <1>3, BecomesDoes
  <1>5. /\ new.next = proc[p].next /\ new.started = proc[p].started
        /\ new.config = proc[p].config /\ new.overlay = proc[p].overlay
        /\ new.lock = proc[p].lock
    BY <1>1, <1>2, DisposedKeeps DEF Process
  <1>6. proc[p].pc \in {"probing", "reprobing"} /\ proc[p].upgrade = "none"
    BY DEF Probe
  <1>7. \/ /\ new.pc = "migrating" /\ new.upgrade = "waiting" /\ new.healthy
           /\ new.owes = proc[p].owes
        \/ /\ new.pc = "starting" /\ ~Config(p).migrate /\ new.upgrade = "none"
           /\ new.healthy /\ new.owes = proc[p].owes
        \/ /\ new.pc = "starting" /\ ~Config(p).required /\ new.upgrade = "none"
           /\ ~new.healthy /\ new.owes = proc[p].owes
        \/ /\ new.pc = "creating" /\ new.upgrade = "none"
           /\ new.healthy = proc[p].healthy /\ new.owes = proc[p].owes
        \/ /\ new.pc = "stopping" /\ new.upgrade = "none" /\ ~new.healthy
           /\ new.owes = proc[p].owes \ {"database"}
    BY <1>1, <1>2, <1>6 DEF Process, Disposed
  <1>8. UNCHANGED <<server, patch, told, history>>
    BY DEF Probe
  <1> QED  BY <1>4, <1>5, <1>6, <1>7, <1>8 DEF SameSettings

LEMMA CreateDatabaseDoes ==
    ASSUME HistoryTypes, ProcTypes, ServerTypes, NEW p \in Processes, CreateDatabase(p)
    PROVE  /\ ProcTypes'
           /\ Others(p)
           /\ proc[p].pc = "creating"
           /\ proc'[p].next = proc[p].next /\ proc'[p].started = proc[p].started
           /\ proc'[p].upgrade = proc[p].upgrade
           /\ proc'[p].config = proc[p].config /\ SameSettings(p)
           /\ \/ /\ proc'[p].pc = "reprobing" /\ SameList(p)
                 /\ (server'.schema = "head" <=> server.schema = "head")
              \/ /\ proc'[p].pc = "stopping" /\ ~proc'[p].healthy
                 /\ proc'[p].owes = proc[p].owes \ {"database"} /\ UNCHANGED server
           /\ ServerTypes' /\ server'.row = server.row /\ server'.lock = server.lock
           /\ UNCHANGED <<patch, told, history>>
  <1>1. proc[p] \in Process
    BY DEF ProcTypes
  <1>2. PICK new : /\ proc' = [proc EXCEPT ![p] = new]
                   /\ \/ /\ server' = [server EXCEPT !.schema = IF @ = "missing" THEN "empty" ELSE @]
                         /\ new = [proc[p] EXCEPT !.pc = "reprobing"]
                      \/ /\ UNCHANGED server
                         /\ new = Disposed(p)
    BY DEF CreateDatabase, Becomes, Goes
  <1>3. new \in Process
    BY <1>1, <1>2, DisposedIs DEF Process, Places, Awaits
  <1>4. proc'[p] = new /\ ProcTypes' /\ Others(p)
    BY <1>2, <1>3, BecomesDoes
  <1>5. /\ new.next = proc[p].next /\ new.started = proc[p].started
        /\ new.upgrade = proc[p].upgrade /\ new.config = proc[p].config
        /\ new.overlay = proc[p].overlay /\ new.lock = proc[p].lock
    BY <1>1, <1>2 DEF Process, Disposed
  <1>6. \/ /\ new.pc = "reprobing" /\ new.owes = proc[p].owes
           /\ new.healthy = proc[p].healthy
           /\ (server'.schema = "head" <=> server.schema = "head")
        \/ /\ new.pc = "stopping" /\ ~new.healthy /\ new.owes = proc[p].owes \ {"database"}
           /\ UNCHANGED server
    BY <1>1, <1>2 DEF Process, Disposed, ServerTypes
  <1>7. proc[p].pc = "creating" /\ UNCHANGED <<patch, told, history>>
    BY DEF CreateDatabase
  <1>8. ServerTypes' /\ server'.row = server.row /\ server'.lock = server.lock
    BY <1>2 DEF ServerTypes
  <1> QED  BY <1>4, <1>5, <1>6, <1>7, <1>8 DEF SameList, SameSettings

LEMMA BeginUpgradeDoes ==
    ASSUME HistoryTypes, ProcTypes, ServerTypes, NEW p \in Processes, BeginUpgrade(p)
    PROVE  /\ ProcTypes'
           /\ Others(p)
           /\ proc[p].upgrade = "waiting" /\ OnlyUpgrade(p)
           /\ \/ /\ server.lock = Nobody /\ server'.lock = p
                 /\ proc'[p].upgrade = (IF server.schema = "head" THEN "current" ELSE "upgrading")
              \/ /\ UNCHANGED server /\ proc'[p].upgrade = "failed"
           /\ ServerTypes' /\ server'.row = server.row /\ server'.schema = server.schema
           /\ UNCHANGED <<patch, told, history>>
  <1>1. proc[p] \in Process
    BY DEF ProcTypes
  <1>2. PICK new : /\ proc' = [proc EXCEPT ![p] = new]
                   /\ \/ /\ server.lock = Nobody /\ server' = [server EXCEPT !.lock = p]
                         /\ new = [proc[p] EXCEPT !.upgrade = IF server.schema = "head" THEN "current" ELSE "upgrading"]
                      \/ /\ UNCHANGED server
                         /\ new = [proc[p] EXCEPT !.upgrade = "failed"]
    BY DEF BeginUpgrade, Becomes, UpgradeFree
  <1>3. new \in Process
    BY <1>1, <1>2 DEF Process
  <1>4. proc'[p] = new /\ ProcTypes' /\ Others(p)
    BY <1>2, <1>3, BecomesDoes
  <1>5. /\ new.pc = proc[p].pc /\ new.next = proc[p].next /\ new.started = proc[p].started
        /\ new.owes = proc[p].owes /\ new.healthy = proc[p].healthy
        /\ new.config = proc[p].config /\ new.overlay = proc[p].overlay
        /\ new.lock = proc[p].lock
    BY <1>1, <1>2 DEF Process
  <1>6. \/ /\ server.lock = Nobody /\ server'.lock = p
           /\ new.upgrade = (IF server.schema = "head" THEN "current" ELSE "upgrading")
        \/ UNCHANGED server /\ new.upgrade = "failed"
    BY <1>1, <1>2 DEF Process, ServerTypes
  <1>7. proc[p].upgrade = "waiting" /\ UNCHANGED <<patch, told, history>>
    BY DEF BeginUpgrade
  <1>8. ServerTypes' /\ server'.row = server.row /\ server'.schema = server.schema
    BY <1>2 DEF ServerTypes
  <1> QED  BY <1>4, <1>5, <1>6, <1>7, <1>8 DEF SameList, SameSettings, OnlyUpgrade

LEMMA EndUpgradeDoes ==
    ASSUME HistoryTypes, ProcTypes, ServerTypes, NEW p \in Processes, EndUpgrade(p)
    PROVE  /\ ProcTypes'
           /\ Others(p)
           /\ proc[p].upgrade \in {"current", "upgrading"}
           /\ proc'[p].upgrade = "done" /\ OnlyUpgrade(p)
           /\ ServerTypes' /\ server'.row = server.row /\ server'.schema = "head"
           /\ server'.lock = (IF server.lock = p THEN Nobody ELSE server.lock)
           /\ HistoryTypes' /\ history'.writer = history.writer
           /\ history'.doubt = history.doubt
           /\ \/ /\ proc[p].upgrade = "upgrading"
                 /\ history'.upgrades = history.upgrades + 1
              \/ /\ proc[p].upgrade = "current"
                 /\ history'.upgrades = history.upgrades
           /\ UNCHANGED <<patch, told>>
  <1> DEFINE new == [proc[p] EXCEPT !.upgrade = "done"]
  <1>1. proc[p] \in Process
    BY DEF ProcTypes
  <1>2. new \in Process
    BY <1>1 DEF Process
  <1>3. proc' = [proc EXCEPT ![p] = new]
    BY <1>1 DEF EndUpgrade, Becomes
  <1>4. proc'[p] = new /\ ProcTypes' /\ Others(p)
    BY <1>2, <1>3, BecomesDoes
  <1>5. /\ new.pc = proc[p].pc /\ new.next = proc[p].next /\ new.started = proc[p].started
        /\ new.owes = proc[p].owes /\ new.healthy = proc[p].healthy
        /\ new.config = proc[p].config /\ new.upgrade = "done"
        /\ new.overlay = proc[p].overlay /\ new.lock = proc[p].lock
    BY <1>1
  <1>6. /\ ServerTypes' /\ server'.row = server.row /\ server'.schema = "head"
        /\ server'.lock = (IF server.lock = p THEN Nobody ELSE server.lock)
    BY DEF EndUpgrade, ServerTypes, Nobody
  <1>7. CASE proc[p].upgrade = "upgrading"
    <2>1. history' = [history EXCEPT !.upgrades = @ + 1]
      BY <1>7 DEF EndUpgrade
    <2>2. /\ HistoryTypes' /\ history'.writer = history.writer
          /\ history'.doubt = history.doubt /\ history'.upgrades = history.upgrades + 1
      BY <2>1 DEF HistoryTypes
    <2> QED  BY <1>4, <1>5, <1>6, <1>7, <2>2
        DEF EndUpgrade, OnlyUpgrade, SameList, SameSettings
  <1>8. CASE proc[p].upgrade = "current"
    <2>1. history' = [history EXCEPT !.upgrades = history.upgrades]
      BY <1>8 DEF EndUpgrade
    <2>2. /\ HistoryTypes' /\ history'.writer = history.writer
          /\ history'.doubt = history.doubt /\ history'.upgrades = history.upgrades
      BY <2>1 DEF HistoryTypes
    <2> QED  BY <1>4, <1>5, <1>6, <1>8, <2>2
        DEF EndUpgrade, OnlyUpgrade, SameList, SameSettings
  <1> QED  BY <1>7, <1>8 DEF EndUpgrade

LEMMA MigratedDoes ==
    ASSUME HistoryTypes, ProcTypes, NEW p \in Processes, Migrated(p)
    PROVE  /\ ProcTypes'
           /\ Others(p)
           /\ proc[p].pc = "migrating" /\ proc'[p].upgrade = "none"
           /\ proc'[p].next = proc[p].next /\ proc'[p].started = proc[p].started
           /\ proc'[p].config = proc[p].config /\ SameSettings(p)
           /\ \/ /\ proc[p].upgrade = "done" /\ proc'[p].pc = "starting"
                 /\ SameList(p)
              \/ /\ proc'[p].pc = "stopping" /\ ~proc'[p].healthy
                 /\ proc'[p].owes = proc[p].owes \ {"database"}
           /\ UNCHANGED <<server, patch, told, history>>
  <1>1. proc[p] \in Process
    BY DEF ProcTypes
  <1>2. PICK r : /\ proc' = [proc EXCEPT ![p] = [r EXCEPT !.upgrade = "none"]]
                 /\ \/ /\ proc[p].upgrade = "done"
                       /\ r = [proc[p] EXCEPT !.pc = "starting"]
                    \/ r = Disposed(p)
    BY DEF Migrated, Becomes
  <1>3. /\ r \in Process
        /\ r.next = proc[p].next /\ r.started = proc[p].started
        /\ r.config = proc[p].config /\ r.overlay = proc[p].overlay /\ r.lock = proc[p].lock
    <2>1. CASE r = [proc[p] EXCEPT !.pc = "starting"]
      BY <1>1, <2>1 DEF Process, Places
    <2> QED  BY <1>1, <1>2, <2>1, DisposedIs, DisposedKeeps
  <1>4. DEFINE new == [r EXCEPT !.upgrade = "none"]
  <1>5. /\ new \in Process
        /\ new.next = proc[p].next /\ new.started = proc[p].started
        /\ new.config = proc[p].config /\ new.overlay = proc[p].overlay
        /\ new.lock = proc[p].lock /\ new.upgrade = "none"
    BY <1>3, ResultTaken
  <1>6. \/ /\ proc[p].upgrade = "done" /\ new.pc = "starting"
           /\ new.owes = proc[p].owes /\ new.healthy = proc[p].healthy
        \/ /\ new.pc = "stopping" /\ ~new.healthy /\ new.owes = proc[p].owes \ {"database"}
    BY <1>1, <1>2, <1>3 DEF Process, Disposed
  <1> HIDE DEF new
  <1>8. proc'[p] = new /\ ProcTypes' /\ Others(p)
    BY <1>2, <1>5, BecomesDoes DEF new
  <1>7. proc[p].pc = "migrating" /\ UNCHANGED <<server, patch, told, history>>
    BY DEF Migrated
  <1> QED  BY <1>5, <1>6, <1>7, <1>8 DEF SameList, SameSettings

LEMMA ThreadEndsDoes ==
    ASSUME HistoryTypes, ProcTypes, NEW p \in Processes, ThreadEnds(p)
    PROVE  /\ ProcTypes'
           /\ Others(p)
           /\ proc[p].pc # "migrating" /\ proc'[p].upgrade = "none" /\ OnlyUpgrade(p)
           /\ UNCHANGED <<server, patch, told, history>>
  BY DEF ThreadEnds, Becomes, ProcTypes, Process, HistoryTypes, Others, SameList,
      SameSettings, OnlyUpgrade

LEMMA AllStartedDoes ==
    ASSUME HistoryTypes, ProcTypes, NEW p \in Processes, AllStarted(p)
    PROVE  /\ ProcTypes'
           /\ Others(p)
           /\ proc[p].pc = "starting" /\ proc[p].next > 3
           /\ Onward(p, "loading")
           /\ UNCHANGED <<server, patch, told, history>>
  <1> DEFINE new == [proc[p] EXCEPT !.pc = "loading"]
  <1>1. proc[p] \in Process
    BY DEF ProcTypes
  <1>2. new \in Process
    BY <1>1 DEF Process, Places, Awaits
  <1>3. proc' = [proc EXCEPT ![p] = new]
    BY <1>1 DEF AllStarted, Goes, Becomes
  <1>4. proc'[p] = new /\ ProcTypes' /\ Others(p)
    BY <1>2, <1>3, BecomesDoes
  <1>5. /\ new.pc = "loading" /\ new.next = proc[p].next /\ new.config = proc[p].config
        /\ new.upgrade = proc[p].upgrade /\ new.started = proc[p].started
        /\ new.owes = proc[p].owes /\ new.healthy = proc[p].healthy
        /\ new.overlay = proc[p].overlay /\ new.lock = proc[p].lock
    BY <1>1
  <1> QED  BY <1>1, <1>4, <1>5, InOrder DEF AllStarted, SameList, SameSettings, Onward

LEMMA LoadDoes ==
    ASSUME HistoryTypes, ProcTypes, ServerTypes, ToldTypes, NEW p \in Processes, Load(p)
    PROVE  /\ ProcTypes'
           /\ Others(p)
           /\ proc[p].pc = "loading" /\ proc'[p].pc \in {"cleaning", "stopping"}
           /\ proc'[p].next = proc[p].next /\ proc'[p].upgrade = proc[p].upgrade
           /\ proc'[p].config = proc[p].config /\ proc'[p].lock = proc[p].lock
           /\ SameList(p)
           /\ proc'[p].pc = "cleaning" /\ proc[p].healthy =>
                 proc'[p].overlay = server.row
           /\ \A q \in Processes : told'[q] = IF q = p THEN proc'[p].overlay ELSE told[q]
           /\ UNCHANGED <<server, patch, history>>
  <1> DEFINE readable == proc[p].healthy /\ server.up /\ server.schema # "empty"
             overlay == IF readable THEN server.row ELSE Unset
             refused == IF proc[p].healthy THEN ~readable ELSE Config(p).required
             new == [proc[p] EXCEPT !.pc = IF refused THEN "stopping" ELSE "cleaning",
                                    !.overlay = overlay]
  <1>1. proc[p] \in Process
    BY DEF ProcTypes
  <1>2. overlay \in Overlay
    BY DEF ServerTypes, Unset, Overlay
  <1>3. new \in Process
    <2> HIDE DEF overlay, refused
    <2> QED  BY <1>1, <1>2 DEF Process, Places, Awaits
  <1>4. proc' = [proc EXCEPT ![p] = new] /\ told' = [told EXCEPT ![p] = overlay]
    BY DEF Load, Becomes
  <1>5. proc'[p] = new /\ ProcTypes' /\ Others(p)
    BY <1>3, <1>4, BecomesDoes
  <1>6. /\ new.pc \in {"cleaning", "stopping"} /\ (new.pc = "cleaning" => ~refused)
        /\ new.overlay = overlay
        /\ new.next = proc[p].next /\ new.config = proc[p].config
        /\ new.upgrade = proc[p].upgrade /\ new.started = proc[p].started
        /\ new.owes = proc[p].owes /\ new.healthy = proc[p].healthy
        /\ new.lock = proc[p].lock
    <2> HIDE DEF overlay, refused
    <2> QED  BY <1>1
  <1>7. new.pc = "cleaning" /\ proc[p].healthy => overlay = server.row
    BY <1>6
  <1>8. \A q \in Processes : told'[q] = IF q = p THEN overlay ELSE told[q]
    BY <1>4 DEF ToldTypes
  <1>9. proc[p].pc = "loading" /\ UNCHANGED <<server, patch, history>>
    BY DEF Load
  <1> HIDE DEF overlay, refused, new
  <1>10. \A q \in Processes : told'[q] = IF q = p THEN proc'[p].overlay ELSE told[q]
    BY <1>5, <1>6, <1>8
  <1>11. proc'[p].pc = "cleaning" /\ proc[p].healthy => proc'[p].overlay = server.row
    BY <1>5, <1>6, <1>7
  <1> QED  BY <1>5, <1>6, <1>9, <1>10, <1>11 DEF SameList

LEMMA CleanUpDoes ==
    ASSUME HistoryTypes, ProcTypes, NEW p \in Processes, CleanUp(p)
    PROVE  /\ ProcTypes'
           /\ Others(p)
           /\ proc[p].pc = "cleaning"
           /\ Onward(p, "serving")
           /\ UNCHANGED <<server, patch, told, history>>
  BY RuntimeAssumption DEF CleanUp, Goes, Becomes, ProcTypes, Process, HistoryTypes,
      Others, Onward, SameList, SameSettings, Places, Nobody

LEMMA BeginPatchDoes ==
    ASSUME HistoryTypes, ProcTypes, PatchTypes, NEW c \in Clients, NEW p \in Processes, NEW f \in Fields,
               NEW v \in Values \union {0}, BeginPatch(c, p, f, v)
    PROVE  /\ ProcTypes'
           /\ proc[p].pc = "serving"
           /\ patch[c] = NoPatch
           /\ patch'[c] = [at |-> "waiting", p |-> p, f |-> f, v |-> v]
           /\ patch'[c].at = "waiting" /\ patch'[c].p = p
           /\ OtherChanges(c)
           /\ SameStory /\ UNCHANGED <<server, proc, told>>
  <1>1. SameStory
    BY DEF BeginPatch, SameStory
  <1>3. /\ patch'[c] = [at |-> "waiting", p |-> p, f |-> f, v |-> v]
        /\ OtherChanges(c)
    BY DEF BeginPatch, PatchTypes, OtherChanges
  <1>4. patch'[c].at = "waiting" /\ patch'[c].p = p
    BY <1>3
  <1>2. ProcTypes'
    BY DEF BeginPatch, ProcTypes
  <1> QED  BY <1>1, <1>2, <1>3, <1>4 DEF BeginPatch

LEMMA TakeDoes ==
    ASSUME HistoryTypes, ProcTypes, PatchTypes, NEW c \in Clients, Take(c)
    PROVE  /\ ProcTypes'
           /\ patch[c] \in Requested /\ patch[c].p \in Processes
           /\ Others(patch[c].p) /\ OnlySettings(patch[c].p)
           /\ proc[patch[c].p].lock = Nobody /\ proc'[patch[c].p].lock = c
           /\ proc'[patch[c].p].overlay = proc[patch[c].p].overlay
           /\ patch'[c] = [at |-> "saving", p |-> patch[c].p, f |-> patch[c].f, v |-> patch[c].v,
                           new |-> [proc[patch[c].p].overlay EXCEPT ![patch[c].f] = patch[c].v]]
           /\ patch[c].at = "waiting" /\ patch'[c].at = "saving"
           /\ patch'[c].p = patch[c].p
           /\ patch'[c].f = patch[c].f /\ patch'[c].v = patch[c].v
           /\ patch'[c].new = [proc[patch[c].p].overlay EXCEPT ![patch[c].f] = patch[c].v]
           /\ OtherChanges(c)
           /\ UNCHANGED <<server, told, history>>
  <1>1. patch[c] \in Requested /\ patch[c].p \in Processes
    BY Stages DEF Take, Requested
  <1> DEFINE q == patch[c].p
             new == [proc[q] EXCEPT !.lock = c]
  <1>2. proc[q] \in Process
    BY <1>1 DEF ProcTypes
  <1>3. new \in Process
    BY <1>1, <1>2 DEF Process
  <1>4. proc' = [proc EXCEPT ![q] = new]
    BY DEF Take, Becomes
  <1>5. proc'[q] = new /\ ProcTypes' /\ Others(q)
    BY <1>1, <1>3, <1>4, BecomesDoes
  <1>6. /\ new.pc = proc[q].pc /\ new.next = proc[q].next /\ new.started = proc[q].started
        /\ new.owes = proc[q].owes /\ new.healthy = proc[q].healthy
        /\ new.config = proc[q].config /\ new.upgrade = proc[q].upgrade
        /\ new.overlay = proc[q].overlay /\ new.lock = c
    BY <1>1, <1>2
  <1>7. patch' = [patch EXCEPT ![c] = [at |-> "saving", p |-> q, f |-> @.f, v |-> @.v,
                     new |-> [proc[q].overlay EXCEPT ![patch[c].f] = patch[c].v]]]
    BY DEF Take
  <1>8. /\ patch'[c] = [at |-> "saving", p |-> q, f |-> patch[c].f, v |-> patch[c].v,
                       new |-> [proc[q].overlay EXCEPT ![patch[c].f] = patch[c].v]]
        /\ OtherChanges(c)
    BY <1>7 DEF PatchTypes, OtherChanges
  <1>9. /\ patch[c].at = "waiting" /\ proc[q].lock = Nobody
        /\ UNCHANGED <<server, told, history>>
    BY DEF Take, SettingsFree
  <1>10. /\ patch'[c].at = "saving" /\ patch'[c].p = q
         /\ patch'[c].f = patch[c].f /\ patch'[c].v = patch[c].v
         /\ patch'[c].new = [proc[q].overlay EXCEPT ![patch[c].f] = patch[c].v]
    BY <1>8
  <1> QED  BY <1>1, <1>5, <1>6, <1>8, <1>9, <1>10 DEF OnlySettings, SameList

LEMMA PersistOverlayDoes ==
    ASSUME HistoryTypes, ProcTypes, PatchTypes, ServerTypes, NEW c \in Clients, PersistOverlay(c)
    PROVE  /\ ProcTypes'
           /\ patch[c] \in Written /\ patch[c].at = "saving"
           /\ patch'[c] \in Written /\ patch'[c].at = "saved"
           /\ patch'[c].p = patch[c].p
           /\ patch'[c].f = patch[c].f /\ patch'[c].v = patch[c].v
           /\ patch'[c].new = patch[c].new
           /\ OtherChanges(c)
           /\ ServerTypes' /\ server'.row = patch[c].new
           /\ server'.schema = server.schema /\ server'.lock = server.lock
           /\ HistoryTypes' /\ history'.writer = patch[c].p
           /\ history'.upgrades = history.upgrades
           /\ patch[c].p \in Processes
           /\ UNCHANGED <<proc, told>>
  <1>1. patch[c] \in Written /\ patch[c].at = "saving"
    BY Stages DEF PersistOverlay
  <1>2. patch' = [patch EXCEPT ![c] = [patch[c] EXCEPT !.at = "saved"]]
    BY DEF PersistOverlay
  <1>3. patch'[c] = [patch[c] EXCEPT !.at = "saved"] /\ OtherChanges(c)
    BY <1>2 DEF PatchTypes, OtherChanges
  <1>4. /\ [patch[c] EXCEPT !.at = "saved"] \in Written
        /\ [patch[c] EXCEPT !.at = "saved"].at = "saved"
        /\ [patch[c] EXCEPT !.at = "saved"].p = patch[c].p
        /\ [patch[c] EXCEPT !.at = "saved"].f = patch[c].f
        /\ [patch[c] EXCEPT !.at = "saved"].v = patch[c].v
        /\ [patch[c] EXCEPT !.at = "saved"].new = patch[c].new
    BY <1>1 DEF Written
  <1>5. ProcTypes'
    BY DEF PersistOverlay, ProcTypes
  <1>6. patch[c].p \in Processes /\ patch[c].new \in Overlay
    BY <1>1 DEF Written
  <1>7. /\ ServerTypes' /\ server'.row = patch[c].new
        /\ server'.schema = server.schema /\ server'.lock = server.lock
    BY <1>6 DEF PersistOverlay, ServerTypes
  <1>8. /\ HistoryTypes' /\ history'.writer = patch[c].p
        /\ history'.upgrades = history.upgrades
    BY <1>6 DEF PersistOverlay, HistoryTypes
  <1>9. UNCHANGED <<proc, told>>
    BY DEF PersistOverlay
  <1> QED  BY <1>1, <1>3, <1>4, <1>5, <1>6, <1>7, <1>8, <1>9

LEMMA PersistFailsDoes ==
    ASSUME HistoryTypes, ProcTypes, PatchTypes, ServerTypes, NEW c \in Clients, PersistFails(c)
    PROVE  /\ ProcTypes'
           /\ patch[c] \in Written /\ patch[c].at = "saving" /\ patch'[c] = NoPatch
           /\ OtherChanges(c)
           /\ Others(patch[c].p) /\ OnlySettings(patch[c].p)
           /\ proc'[patch[c].p].overlay = proc[patch[c].p].overlay
           /\ \/ /\ UNCHANGED <<server, history>>
              \/ /\ history'.doubt = TRUE /\ history'.writer = history.writer
                 /\ history'.upgrades = history.upgrades
           /\ ServerTypes' /\ server'.schema = server.schema
           /\ server'.lock = server.lock
           /\ HistoryTypes' /\ patch[c].p \in Processes
           /\ UNCHANGED told
  <1>1. patch[c] \in Written /\ patch[c].p \in Processes
    BY Stages DEF PersistFails, Written
  <1> DEFINE q == patch[c].p
             new == [Unlocked(q) EXCEPT !.overlay = Meanwhile(c)]
  <1>2. proc[q] \in Process
    BY <1>1 DEF ProcTypes
  <1>3. new \in Process
    BY <1>1, <1>2 DEF Process, Unlocked, Meanwhile
  <1>4. proc' = [proc EXCEPT ![q] = new]
    BY DEF PersistFails, Becomes
  <1>5. proc'[q] = new /\ ProcTypes' /\ Others(q)
    BY <1>1, <1>3, <1>4, BecomesDoes
  <1>6. /\ new.pc = proc[q].pc /\ new.next = proc[q].next /\ new.started = proc[q].started
        /\ new.owes = proc[q].owes /\ new.healthy = proc[q].healthy
        /\ new.config = proc[q].config /\ new.upgrade = proc[q].upgrade
        /\ new.overlay = proc[q].overlay
    BY <1>1, <1>2 DEF Unlocked, Meanwhile
  <1>7. patch'[c] = NoPatch /\ OtherChanges(c)
    BY DEF PersistFails, PatchTypes, OtherChanges
  <1>8. /\ ServerTypes' /\ server'.schema = server.schema /\ server'.lock = server.lock
    <2>1. patch[c].new \in Overlay
      BY <1>1 DEF Written
    <2>2. UNCHANGED server \/ server' = [server EXCEPT !.row = patch[c].new]
      BY DEF PersistFails
    <2> QED  BY <2>1, <2>2 DEF ServerTypes
  <1>10. \/ UNCHANGED <<server, history>>
         \/ history' = [history EXCEPT !.faults = @ + 1, !.doubt = TRUE]
    BY DEF PersistFails
  <1>11. /\ HistoryTypes'
         /\ \/ UNCHANGED <<server, history>>
            \/ /\ history'.doubt = TRUE /\ history'.writer = history.writer
               /\ history'.upgrades = history.upgrades
    <2>1. CASE UNCHANGED <<server, history>>
      BY <2>1 DEF HistoryTypes
    <2>2. CASE history' = [history EXCEPT !.faults = @ + 1, !.doubt = TRUE]
      <3>1. history.faults + 1 \in Nat
        BY DEF HistoryTypes
      <3>2. PICK n \in Nat : history' = [history EXCEPT !.faults = n, !.doubt = TRUE]
        BY <2>2, <3>1
      <3>3. HistoryTypes'
        BY <3>2 DEF HistoryTypes
      <3>4. /\ history'.doubt = TRUE /\ history'.writer = history.writer
            /\ history'.upgrades = history.upgrades
        BY <2>2
      <3> QED  BY <3>3, <3>4
    <2> QED  BY <1>10, <2>1, <2>2
  <1>9. patch[c].at = "saving" /\ UNCHANGED told
    BY DEF PersistFails
  <1> QED  BY <1>1, <1>5, <1>6, <1>7, <1>8, <1>9, <1>11 DEF OnlySettings, SameList

LEMMA AdoptDoes ==
    ASSUME HistoryTypes, ProcTypes, PatchTypes, ToldTypes, NEW c \in Clients, Adopt(c)
    PROVE  /\ ProcTypes'
           /\ patch[c] \in Written /\ patch[c].p \in Processes /\ patch'[c] = NoPatch
           /\ patch[c].at = "saved" \/ ~proc[patch[c].p].healthy
           /\ OtherChanges(c)
           /\ Others(patch[c].p) /\ OnlySettings(patch[c].p)
           /\ proc'[patch[c].p].overlay = patch[c].new
           /\ \A q \in Processes :
                 told'[q] = IF q = patch[c].p THEN [told[q] EXCEPT ![patch[c].f] = patch[c].v]
                            ELSE told[q]
           /\ UNCHANGED <<server, history>>
  <1>1. patch[c] \in Written /\ patch[c].p \in Processes
    BY Stages DEF Adopt, Written
  <1> DEFINE q == patch[c].p
             new == [Unlocked(q) EXCEPT !.overlay = patch[c].new]
  <1>2. proc[q] \in Process
    BY <1>1 DEF ProcTypes
  <1>3. new \in Process
    BY <1>1, <1>2 DEF Process, Unlocked, Written
  <1>4. proc' = [proc EXCEPT ![q] = new]
    BY DEF Adopt, Becomes
  <1>5. proc'[q] = new /\ ProcTypes' /\ Others(q)
    BY <1>1, <1>3, <1>4, BecomesDoes
  <1>6. /\ new.pc = proc[q].pc /\ new.next = proc[q].next /\ new.started = proc[q].started
        /\ new.owes = proc[q].owes /\ new.healthy = proc[q].healthy
        /\ new.config = proc[q].config /\ new.upgrade = proc[q].upgrade
        /\ new.overlay = patch[c].new
    BY <1>1, <1>2 DEF Unlocked
  <1>7. patch'[c] = NoPatch /\ OtherChanges(c)
    BY DEF Adopt, PatchTypes, OtherChanges
  <1>8. told' = [told EXCEPT ![q] = [told[q] EXCEPT ![patch[c].f] = patch[c].v]]
    BY DEF Adopt
  <1>9. \A r \in Processes :
           told'[r] = IF r = q THEN [told[r] EXCEPT ![patch[c].f] = patch[c].v] ELSE told[r]
    BY <1>8 DEF ToldTypes
  <1>10. (patch[c].at = "saved" \/ ~proc[q].healthy) /\ UNCHANGED <<server, history>>
    BY DEF Adopt
  <1> QED  BY <1>1, <1>5, <1>6, <1>7, <1>9, <1>10 DEF OnlySettings, SameList

LEMMA OutageDoes ==
    ASSUME HistoryTypes, ProcTypes, ServerTypes, Outage
    PROVE  /\ ProcTypes'
           /\ \A q \in Processes :
                 /\ proc'[q].upgrade = IF proc[q].upgrade = "upgrading" THEN "failed"
                                       ELSE proc[q].upgrade
                 /\ OnlyUpgrade(q)
           /\ ServerTypes' /\ server'.row = server.row
           /\ server'.schema = server.schema /\ server'.lock = Nobody
           /\ SameStory /\ UNCHANGED <<patch, told>>
  <1>1. ASSUME NEW q \in Processes
        PROVE  /\ proc'[q] \in Process /\ OnlyUpgrade(q)
               /\ proc'[q].upgrade = IF proc[q].upgrade = "upgrading" THEN "failed" ELSE proc[q].upgrade
    <2>1. proc[q] \in Process
      BY DEF ProcTypes
    <2>2. proc'[q] = IF proc[q].upgrade = "upgrading"
                     THEN [proc[q] EXCEPT !.upgrade = "failed"] ELSE proc[q]
      BY DEF Outage
    <2>3. CASE proc[q].upgrade = "upgrading"
      <3> DEFINE new == [proc[q] EXCEPT !.upgrade = "failed"]
      <3>1. new \in Process /\ new.upgrade = "failed"
        BY <2>1 DEF Process
      <3>2. /\ new.pc = proc[q].pc /\ new.next = proc[q].next /\ new.started = proc[q].started
            /\ new.owes = proc[q].owes /\ new.healthy = proc[q].healthy
            /\ new.config = proc[q].config /\ new.overlay = proc[q].overlay
            /\ new.lock = proc[q].lock
        BY <2>1
      <3> QED  BY <2>2, <2>3, <3>1, <3>2 DEF OnlyUpgrade, SameList, SameSettings
    <2>4. CASE proc[q].upgrade # "upgrading"
      BY <2>1, <2>2, <2>4 DEF OnlyUpgrade, SameList, SameSettings
    <2> QED  BY <2>3, <2>4
  <1>2. ProcTypes'
    BY <1>1 DEF ProcTypes, Outage
  <1>3. SameStory
    BY DEF Outage, Faulted, SameStory
  <1>4. /\ ServerTypes' /\ server'.row = server.row /\ server'.schema = server.schema
        /\ server'.lock = Nobody
    BY DEF Outage, ServerTypes
  <1> QED  BY <1>1, <1>2, <1>3, <1>4 DEF Outage

(* A step of a process that does not serve leaves the changes alone.       *)
LEMMA Elsewhere ==
    ASSUME PatchTypes, ChangesServed, NEW p \in Processes, Others(p), UNCHANGED patch,
           \/ proc[p].pc # "serving"
           \/ proc'[p].pc = proc[p].pc /\ SameSettings(p)
    PROVE  ChangesServed'
  <1> SUFFICES ASSUME NEW c \in Clients, patch[c] # NoPatch
               PROVE  /\ proc'[patch[c].p].pc = "serving"
                      /\ patch[c].at # "waiting" =>
                            /\ proc'[patch[c].p].lock = c
                            /\ patch[c].new =
                                    [proc'[patch[c].p].overlay EXCEPT ![patch[c].f] = patch[c].v]
    BY DEF ChangesServed
  <1>1. patch[c].p \in Processes
    BY Stages
  <1>2. CASE patch[c].p # p
    BY <1>1, <1>2 DEF ChangesServed, Others
  <1>3. CASE patch[c].p = p
    BY <1>3 DEF ChangesServed, SameSettings
  <1> QED  BY <1>2, <1>3

(* Nor, unless it is about to serve, what is in force.                     *)
LEMMA OverlaysStand ==
    ASSUME OverlayTold, NEW p \in Processes, Others(p), UNCHANGED told,
           \/ proc'[p].pc \notin {"cleaning", "serving"}
           \/ /\ proc'[p].overlay = proc[p].overlay
              /\ proc[p].pc \in {"cleaning", "serving"}
    PROVE  OverlayTold'
  BY DEF OverlayTold, Loaded, Others

LEMMA RowStands ==
    ASSUME RowWritten, NEW p \in Processes, Others(p), UNCHANGED patch,
           history'.writer = history.writer, history'.doubt = history.doubt,
           server'.row = server.row,
           \/ proc'[p].pc \notin {"cleaning", "serving"}
           \/ /\ proc'[p].overlay = proc[p].overlay /\ proc'[p].healthy = proc[p].healthy
              /\ proc[p].pc \in {"cleaning", "serving"}
    PROVE  RowWritten'
  <1> SUFFICES ASSUME NEW q \in Processes, Settled(q)'
               PROVE  /\ \A c \in SavedBy(q) : server.row = patch[c].new
                      /\ SavedBy(q) = {} => server.row = proc'[q].overlay
    BY DEF RowWritten, SavedBy
  <1>1. CASE q # p
    BY <1>1 DEF RowWritten, Settled, Loaded, Others
  <1>2. CASE q = p
    BY <1>2 DEF RowWritten, Settled, Loaded
  <1> QED  BY <1>1, <1>2

(* A change of the settings changes nothing else of any process.           *)
LEMMA SettingsAlone ==
    ASSUME NEW p \in Processes, Others(p), OnlySettings(p)
    PROVE  \A q \in Processes : OnlySettings(q)
  BY DEF Others, OnlySettings, SameList

(* Nor does one that is not yet saved change which are.                    *)
LEMMA SavedStand ==
    ASSUME NEW c \in Clients, OtherChanges(c), patch[c].at # "saved", patch'[c].at # "saved",
           NEW q \in Processes
    PROVE  SavedBy(q)' = SavedBy(q) /\ \A d \in SavedBy(q) : patch'[d] = patch[d]
  <1>1. \A d \in Clients : d \in SavedBy(q)' <=> d \in SavedBy(q)
    BY DEF SavedBy, OtherChanges
  <1>2. \A d \in SavedBy(q) : patch'[d] = patch[d]
    BY DEF SavedBy, OtherChanges
  <1>3. SavedBy(q)' \subseteq Clients /\ SavedBy(q) \subseteq Clients
    BY DEF SavedBy
  <1> QED  BY <1>1, <1>2, <1>3

(* The state of the server keeps its type.                                 *)
LEMMA ServerTypesStep ==
    ASSUME ServerTypes, ProcTypes, PatchTypes, ToldTypes, HistoryTypes, RuntimeNext
    PROVE  ServerTypes'
  <1>1. CASE UNCHANGED server
    BY <1>1 DEF ServerTypes
  <1>2. ASSUME Outage PROVE ServerTypes'
    BY <1>2, OutageDoes
  <1>3. ASSUME Back PROVE ServerTypes'
    BY <1>3 DEF ServerTypes, Back
  <1>4. ASSUME NEW p \in Processes, Kill(p) PROVE ServerTypes'
    BY <1>4, KillDoes
  <1>5. ASSUME NEW p \in Processes, CreateDatabase(p) PROVE ServerTypes'
    BY <1>5, CreateDatabaseDoes
  <1>6. ASSUME NEW p \in Processes, BeginUpgrade(p) PROVE ServerTypes'
    BY <1>6, BeginUpgradeDoes
  <1>7. ASSUME NEW p \in Processes, EndUpgrade(p) PROVE ServerTypes'
    BY <1>7, EndUpgradeDoes
  <1>8. ASSUME NEW c \in Clients, PersistOverlay(c) PROVE ServerTypes'
    BY <1>8, PersistOverlayDoes
  <1>9. ASSUME NEW c \in Clients, PersistFails(c) PROVE ServerTypes'
    BY <1>9, PersistFailsDoes
  <1>10. ASSUME NEW p \in Processes, Boot(p) \/ StartNext(p) \/ ComponentUp(p)
              \/ StartBroken(p) \/ CancelStop(p) \/ StopOne(p) \/ StartedNone(p)
              \/ Shutdown(p) \/ Probe(p) \/ Migrated(p) \/ ThreadEnds(p)
              \/ AllStarted(p) \/ Load(p) \/ CleanUp(p)
       PROVE  UNCHANGED server
    BY <1>10 DEF Boot, StartNext, ComponentUp, StartBroken, CancelStop, StopOne,
        StartedNone, Shutdown, Probe, Migrated, ThreadEnds, AllStarted, Load, CleanUp
  <1>11. ASSUME NEW c \in Clients, NEW p \in Processes, NEW f \in Fields,
               NEW v \in Values \union {0}, BeginPatch(c, p, f, v)
       PROVE  UNCHANGED server
    BY <1>11 DEF BeginPatch
  <1>12. ASSUME NEW c \in Clients, Take(c) \/ Adopt(c) PROVE UNCHANGED server
    BY <1>12 DEF Take, Adopt
  <1> QED  BY <1>1, <1>2, <1>3, <1>4, <1>5, <1>6, <1>7, <1>8, <1>9, <1>10, <1>11, <1>12
      DEF RuntimeNext

(* The processes keep their type.                                          *)
LEMMA ProcTypesStep ==
    ASSUME ProcTypes, ServerTypes, PatchTypes, ToldTypes, HistoryTypes, RuntimeNext
    PROVE  ProcTypes'
  <1>1. CASE UNCHANGED proc
    BY <1>1 DEF ProcTypes
  <1>2. ASSUME Outage PROVE ProcTypes'
    BY <1>2, OutageDoes DEF ProcTypes
  <1>3. ASSUME NEW p \in Processes, Boot(p) PROVE ProcTypes'
    BY <1>3, BootDoes DEF ProcTypes
  <1>4. ASSUME NEW p \in Processes, StartNext(p) PROVE ProcTypes'
    BY <1>4, StartNextDoes DEF ProcTypes
  <1>5. ASSUME NEW p \in Processes, ComponentUp(p) PROVE ProcTypes'
    BY <1>5, ComponentUpDoes DEF ProcTypes
  <1>6. ASSUME NEW p \in Processes, StartBroken(p) PROVE ProcTypes'
    BY <1>6, StartBrokenDoes DEF ProcTypes
  <1>7. ASSUME NEW p \in Processes, CancelStop(p) PROVE ProcTypes'
    BY <1>7, CancelStopDoes DEF ProcTypes
  <1>8. ASSUME NEW p \in Processes, StopOne(p) PROVE ProcTypes'
    BY <1>8, StopOneDoes DEF ProcTypes
  <1>9. ASSUME NEW p \in Processes, StartedNone(p) PROVE ProcTypes'
    BY <1>9, StartedNoneDoes DEF ProcTypes
  <1>10. ASSUME NEW p \in Processes, Shutdown(p) PROVE ProcTypes'
    BY <1>10, ShutdownDoes DEF ProcTypes
  <1>11. ASSUME NEW p \in Processes, Kill(p) PROVE ProcTypes'
    BY <1>11, KillDoes DEF ProcTypes
  <1>12. ASSUME NEW p \in Processes, Probe(p) PROVE ProcTypes'
    BY <1>12, ProbeDoes DEF ProcTypes
  <1>13. ASSUME NEW p \in Processes, CreateDatabase(p) PROVE ProcTypes'
    BY <1>13, CreateDatabaseDoes DEF ProcTypes
  <1>14. ASSUME NEW p \in Processes, BeginUpgrade(p) PROVE ProcTypes'
    BY <1>14, BeginUpgradeDoes DEF ProcTypes
  <1>15. ASSUME NEW p \in Processes, EndUpgrade(p) PROVE ProcTypes'
    BY <1>15, EndUpgradeDoes DEF ProcTypes
  <1>16. ASSUME NEW p \in Processes, Migrated(p) PROVE ProcTypes'
    BY <1>16, MigratedDoes DEF ProcTypes
  <1>17. ASSUME NEW p \in Processes, ThreadEnds(p) PROVE ProcTypes'
    BY <1>17, ThreadEndsDoes DEF ProcTypes
  <1>18. ASSUME NEW p \in Processes, AllStarted(p) PROVE ProcTypes'
    BY <1>18, AllStartedDoes DEF ProcTypes
  <1>19. ASSUME NEW p \in Processes, Load(p) PROVE ProcTypes'
    BY <1>19, LoadDoes DEF ProcTypes
  <1>20. ASSUME NEW p \in Processes, CleanUp(p) PROVE ProcTypes'
    BY <1>20, CleanUpDoes DEF ProcTypes
  <1>21. ASSUME NEW c \in Clients, Take(c) PROVE ProcTypes'
    BY <1>21, TakeDoes DEF ProcTypes
  <1>22. ASSUME NEW c \in Clients, PersistFails(c) PROVE ProcTypes'
    BY <1>22, PersistFailsDoes DEF ProcTypes
  <1>23. ASSUME NEW c \in Clients, Adopt(c) PROVE ProcTypes'
    BY <1>23, AdoptDoes DEF ProcTypes
  <1>24. ASSUME Back PROVE UNCHANGED proc
    BY <1>24 DEF Back
  <1>25. ASSUME NEW c \in Clients, NEW p \in Processes, NEW f \in Fields,
               NEW v \in Values \union {0}, BeginPatch(c, p, f, v)
       PROVE  UNCHANGED proc
    BY <1>25 DEF BeginPatch
  <1>26. ASSUME NEW c \in Clients, PersistOverlay(c) PROVE UNCHANGED proc
    BY <1>26 DEF PersistOverlay
  <1> QED  BY <1>1, <1>2, <1>3, <1>4, <1>5, <1>6, <1>7, <1>8, <1>9, <1>10, <1>11, <1>12,
              <1>13, <1>14, <1>15, <1>16, <1>17, <1>18, <1>19, <1>20, <1>21, <1>22,
              <1>23, <1>24, <1>25, <1>26
      DEF RuntimeNext

(* Changes keep their type.                                                *)
LEMMA PatchTypesStep ==
    ASSUME PatchTypes, ServerTypes, ProcTypes, ToldTypes, HistoryTypes, RuntimeNext
    PROVE  PatchTypes'
  <1>1. CASE UNCHANGED patch
    BY <1>1 DEF PatchTypes
  <1>2. ASSUME NEW p \in Processes, Kill(p) PROVE PatchTypes'
    BY <1>2 DEF PatchTypes, Kill
  <1>3. ASSUME NEW c \in Clients, NEW p \in Processes, NEW f \in Fields,
               NEW v \in Values \union {0}, BeginPatch(c, p, f, v)
       PROVE  PatchTypes'
    <2>1. [at |-> "waiting", p |-> p, f |-> f, v |-> v] \in Requested
      BY DEF Requested
    <2>2. patch' = [patch EXCEPT ![c] = [at |-> "waiting", p |-> p, f |-> f, v |-> v]]
      BY <1>3 DEF BeginPatch
    <2> QED  BY <2>1, <2>2 DEF PatchTypes
  <1>4. ASSUME NEW c \in Clients, Take(c) PROVE PatchTypes'
    <2>1. /\ patch[c].p \in Processes /\ patch[c].f \in Fields
          /\ patch[c].v \in Values \union {0}
      BY <1>4, TakeDoes DEF Requested
    <2>2. proc[patch[c].p].overlay \in Overlay
      BY <2>1 DEF ProcTypes, Process
    <2>3. [proc[patch[c].p].overlay EXCEPT ![patch[c].f] = patch[c].v] \in Overlay
      BY <2>1, <2>2 DEF Overlay
    <2>4. [at |-> "saving", p |-> patch[c].p, f |-> patch[c].f, v |-> patch[c].v,
           new |-> [proc[patch[c].p].overlay EXCEPT ![patch[c].f] = patch[c].v]] \in Written
      BY <2>1, <2>3 DEF Written
    <2>5. patch' = [patch EXCEPT ![c] = patch'[c]]
      BY <1>4 DEF Take
    <2> QED  BY <1>4, TakeDoes, <2>4, <2>5 DEF PatchTypes
  <1>5. ASSUME NEW c \in Clients, PersistOverlay(c) PROVE PatchTypes'
    <2>1. patch'[c] \in Written
      BY <1>5, PersistOverlayDoes
    <2>2. patch' = [patch EXCEPT ![c] = patch'[c]]
      BY <1>5 DEF PersistOverlay
    <2> QED  BY <2>1, <2>2 DEF PatchTypes
  <1>6. ASSUME NEW c \in Clients, PersistFails(c) PROVE PatchTypes'
    BY <1>6 DEF PatchTypes, PersistFails
  <1>7. ASSUME NEW c \in Clients, Adopt(c) PROVE PatchTypes'
    BY <1>7 DEF PatchTypes, Adopt
  <1>8. ASSUME Outage \/ Back PROVE UNCHANGED patch
    BY <1>8 DEF Outage, Back
  <1>9. ASSUME NEW p \in Processes, Boot(p) \/ StartNext(p) \/ ComponentUp(p)
              \/ StartBroken(p) \/ CancelStop(p) \/ StopOne(p) \/ StartedNone(p)
              \/ Shutdown(p) \/ Probe(p) \/ CreateDatabase(p) \/ BeginUpgrade(p)
              \/ EndUpgrade(p) \/ Migrated(p) \/ ThreadEnds(p) \/ AllStarted(p)
              \/ Load(p) \/ CleanUp(p)
       PROVE  UNCHANGED patch
    BY <1>9 DEF Boot, StartNext, ComponentUp, StartBroken, CancelStop, StopOne,
        StartedNone, Shutdown, Probe, CreateDatabase, BeginUpgrade, EndUpgrade,
        Migrated, ThreadEnds, AllStarted, Load, CleanUp
  <1> QED  BY <1>1, <1>2, <1>3, <1>4, <1>5, <1>6, <1>7, <1>8, <1>9 DEF RuntimeNext

(* What callers were told keeps its type.                                  *)
LEMMA ToldTypesStep ==
    ASSUME ToldTypes, ServerTypes, ProcTypes, PatchTypes, HistoryTypes, RuntimeNext
    PROVE  ToldTypes'
  <1>1. CASE UNCHANGED told
    BY <1>1 DEF ToldTypes
  <1>2. ASSUME NEW p \in Processes, Load(p) PROVE ToldTypes'
    <2>1. proc'[p].overlay \in Overlay
      BY <1>2, LoadDoes DEF ProcTypes, Process
    <2>2. told' = [told EXCEPT ![p] = proc'[p].overlay]
      BY <1>2, LoadDoes DEF Load
    <2> QED  BY <2>1, <2>2 DEF ToldTypes
  <1>3. ASSUME NEW c \in Clients, Adopt(c) PROVE ToldTypes'
    <2>1. /\ patch[c].p \in Processes /\ patch[c].f \in Fields
          /\ patch[c].v \in Values \union {0}
      BY <1>3, AdoptDoes DEF Written
    <2>2. [told[patch[c].p] EXCEPT ![patch[c].f] = patch[c].v] \in Overlay
      BY <2>1 DEF ToldTypes, Overlay
    <2>3. told' = [told EXCEPT ![patch[c].p] = [told[patch[c].p] EXCEPT ![patch[c].f] = patch[c].v]]
      BY <1>3 DEF Adopt
    <2> QED  BY <2>2, <2>3 DEF ToldTypes
  <1>4. ASSUME Outage \/ Back PROVE UNCHANGED told
    BY <1>4 DEF Outage, Back
  <1>5. ASSUME NEW p \in Processes, Boot(p) \/ StartNext(p) \/ ComponentUp(p)
              \/ StartBroken(p) \/ CancelStop(p) \/ StopOne(p) \/ StartedNone(p)
              \/ Shutdown(p) \/ Kill(p) \/ Probe(p) \/ CreateDatabase(p)
              \/ BeginUpgrade(p) \/ EndUpgrade(p) \/ Migrated(p) \/ ThreadEnds(p)
              \/ AllStarted(p) \/ CleanUp(p)
       PROVE  UNCHANGED told
    BY <1>5 DEF Boot, StartNext, ComponentUp, StartBroken, CancelStop, StopOne,
        StartedNone, Shutdown, Kill, Probe, CreateDatabase, BeginUpgrade, EndUpgrade,
        Migrated, ThreadEnds, AllStarted, CleanUp
  <1>6. ASSUME NEW c \in Clients, NEW p \in Processes, NEW f \in Fields,
               NEW v \in Values \union {0}, BeginPatch(c, p, f, v)
       PROVE  UNCHANGED told
    BY <1>6 DEF BeginPatch
  <1>7. ASSUME NEW c \in Clients, Take(c) \/ PersistOverlay(c) \/ PersistFails(c)
       PROVE  UNCHANGED told
    BY <1>7 DEF Take, PersistOverlay, PersistFails
  <1> QED  BY <1>1, <1>2, <1>3, <1>4, <1>5, <1>6, <1>7 DEF RuntimeNext

(* What happened keeps its type.                                           *)
LEMMA HistoryTypesStep ==
    ASSUME HistoryTypes, ServerTypes, ProcTypes, PatchTypes, ToldTypes, RuntimeNext
    PROVE  HistoryTypes'
  <1>1. CASE UNCHANGED history
    BY <1>1 DEF HistoryTypes
  <1>2. ASSUME Outage PROVE HistoryTypes'
    BY <1>2 DEF Outage, Faulted, HistoryTypes
  <1>3. ASSUME NEW p \in Processes, Boot(p) PROVE HistoryTypes'
    BY <1>3 DEF Boot, HistoryTypes
  <1>4. ASSUME NEW p \in Processes, StartBroken(p) PROVE HistoryTypes'
    BY <1>4 DEF StartBroken, Faulted, HistoryTypes
  <1>5. ASSUME NEW p \in Processes, CancelStop(p) PROVE HistoryTypes'
    BY <1>5 DEF CancelStop, Faulted, HistoryTypes
  <1>6. ASSUME NEW p \in Processes, Kill(p) PROVE HistoryTypes'
    BY <1>6 DEF Kill, Faulted, HistoryTypes
  <1>7. ASSUME NEW p \in Processes, EndUpgrade(p) PROVE HistoryTypes'
    BY <1>7, EndUpgradeDoes
  <1>8. ASSUME NEW c \in Clients, NEW p \in Processes, NEW f \in Fields,
               NEW v \in Values \union {0}, BeginPatch(c, p, f, v)
       PROVE  HistoryTypes'
    BY <1>8 DEF BeginPatch, HistoryTypes
  <1>9. ASSUME NEW c \in Clients, PersistOverlay(c) PROVE HistoryTypes'
    BY <1>9, PersistOverlayDoes
  <1>10. ASSUME NEW c \in Clients, PersistFails(c) PROVE HistoryTypes'
    BY <1>10, PersistFailsDoes
  <1>11. ASSUME Back PROVE UNCHANGED history
    BY <1>11 DEF Back
  <1>12. ASSUME NEW p \in Processes, StartNext(p) \/ ComponentUp(p) \/ StopOne(p)
              \/ StartedNone(p) \/ Shutdown(p) \/ Probe(p) \/ CreateDatabase(p)
              \/ BeginUpgrade(p) \/ Migrated(p) \/ ThreadEnds(p) \/ AllStarted(p)
              \/ Load(p) \/ CleanUp(p)
       PROVE  UNCHANGED history
    BY <1>12 DEF StartNext, ComponentUp, StopOne, StartedNone, Shutdown, Probe,
        CreateDatabase, BeginUpgrade, Migrated, ThreadEnds, AllStarted, Load, CleanUp
  <1>13. ASSUME NEW c \in Clients, Take(c) \/ Adopt(c) PROVE UNCHANGED history
    BY <1>13 DEF Take, Adopt
  <1> QED  BY <1>1, <1>2, <1>3, <1>4, <1>5, <1>6, <1>7, <1>8, <1>9, <1>10, <1>11, <1>12,
              <1>13
      DEF RuntimeNext

(* What runs stays on the list of what is to be stopped.                   *)
LEMMA OnListStep ==
    ASSUME OnList, ServerTypes, ProcTypes, PatchTypes, ToldTypes, HistoryTypes,
          RuntimeNext
    PROVE  OnList'
  <1>1. CASE UNCHANGED proc
    BY <1>1 DEF OnList
  <1>2. ASSUME Outage PROVE OnList'
    BY <1>2, OutageDoes DEF OnList, OnlyUpgrade, SameList
  <1>3. ASSUME NEW p \in Processes, Boot(p) PROVE OnList'
    BY <1>3, BootDoes DEF OnList, Others
  <1>4. ASSUME NEW p \in Processes, StartNext(p) PROVE OnList'
    <2>1. proc[p] \in Process /\ proc[p].next \in 1..3 /\ proc[p].started \in Lists
      BY <1>4, StartNextDoes DEF ProcTypes, Process
    <2>2. /\ Components[proc[p].next] \in Names
          /\ Components[proc[p].next] = "database" <=> proc[p].next = 2
      BY <2>1, InOrder
    <2>3. \A n \in proc'[p].owes :
             \E i \in 1..Len(proc'[p].started) : proc'[p].started[i] = n
      <3> SUFFICES ASSUME NEW n \in proc'[p].owes
                   PROVE  \E i \in 1..Len(proc'[p].started) : proc'[p].started[i] = n
        OBVIOUS
      <3>1. CASE n = Components[proc[p].next]
        <4>1. Len(proc[p].started) + 1 \in 1..Len(proc'[p].started)
          BY <1>4, <2>1, <2>2, StartNextDoes
        <4>2. proc'[p].started[Len(proc[p].started) + 1] = n
          BY <1>4, <3>1, <2>1, <2>2, StartNextDoes
        <4> QED  BY <4>1, <4>2
      <3>2. CASE n \in proc[p].owes
        <4>1. PICK i \in 1..Len(proc[p].started) : proc[p].started[i] = n
          BY <3>2 DEF OnList
        <4>2. i \in 1..Len(proc'[p].started) /\ proc'[p].started[i] = n
          BY <1>4, <4>1, <2>1, <2>2, StartNextDoes
        <4> QED  BY <4>2
      <3> QED  BY <1>4, <3>1, <3>2, StartNextDoes
    <2> QED  BY <1>4, <2>2, <2>3, StartNextDoes DEF OnList, Others
  <1>5. ASSUME NEW p \in Processes, ComponentUp(p) PROVE OnList'
    BY <1>5, ComponentUpDoes DEF OnList, Others, Onward, SameList
  <1>6. ASSUME NEW p \in Processes, StartBroken(p) PROVE OnList'
    BY <1>6, StartBrokenDoes DEF OnList, Others, Onward, SameList
  <1>7. ASSUME NEW p \in Processes, CancelStop(p) PROVE OnList'
    BY <1>7, CancelStopDoes DEF OnList
  <1>8. ASSUME NEW p \in Processes, StopOne(p) PROVE OnList'
    <2>1. proc[p].started \in Lists /\ proc[p].started # <<>>
      BY <1>8, StopOneDoes DEF ProcTypes, Process
    <2>2. \A n \in proc'[p].owes :
             \E i \in 1..Len(proc'[p].started) : proc'[p].started[i] = n
      <3> SUFFICES ASSUME NEW n \in proc'[p].owes
                   PROVE  \E i \in 1..Len(proc'[p].started) : proc'[p].started[i] = n
        OBVIOUS
      <3>1. n \in proc[p].owes /\ n # proc[p].started[Len(proc[p].started)]
        BY <1>8, StopOneDoes
      <3>2. PICK i \in 1..Len(proc[p].started) : proc[p].started[i] = n
        BY <3>1 DEF OnList
      <3>3. i \in 1..(Len(proc[p].started) - 1)
        BY <2>1, <3>1, <3>2
      <3>4. proc'[p].started = SubSeq(proc[p].started, 1, Len(proc[p].started) - 1)
        BY <1>8, StopOneDoes
      <3>5. i \in 1..Len(proc'[p].started) /\ proc'[p].started[i] = n
        BY <2>1, <3>2, <3>3, <3>4, LastDropped
      <3> QED  BY <3>5
    <2> QED  BY <1>8, <2>2, StopOneDoes DEF OnList, Others
  <1>9. ASSUME NEW p \in Processes, StartedNone(p) PROVE OnList'
    <2>1. Len(proc[p].started) = 0
      BY <1>9, StartedNoneDoes
    <2>2. proc[p].owes = {}
      BY <2>1 DEF OnList
    <2> QED  BY <1>9, <2>2, StartedNoneDoes DEF OnList, Others, Onward, SameList
  <1>10. ASSUME NEW p \in Processes, Shutdown(p) PROVE OnList'
    BY <1>10, ShutdownDoes DEF OnList, Others, Onward, SameList
  <1>11. ASSUME NEW p \in Processes, Kill(p) PROVE OnList'
    BY <1>11, KillDoes DEF OnList, Others
  <1>12. ASSUME NEW p \in Processes, Probe(p) PROVE OnList'
    BY <1>12, ProbeDoes DEF OnList, Others
  <1>13. ASSUME NEW p \in Processes, CreateDatabase(p) PROVE OnList'
    BY <1>13, CreateDatabaseDoes DEF OnList, Others, SameList
  <1>14. ASSUME NEW p \in Processes, BeginUpgrade(p) PROVE OnList'
    BY <1>14, BeginUpgradeDoes DEF OnList, Others, OnlyUpgrade, SameList
  <1>15. ASSUME NEW p \in Processes, EndUpgrade(p) PROVE OnList'
    BY <1>15, EndUpgradeDoes DEF OnList, Others, OnlyUpgrade, SameList
  <1>16. ASSUME NEW p \in Processes, Migrated(p) PROVE OnList'
    BY <1>16, MigratedDoes DEF OnList, Others, SameList
  <1>17. ASSUME NEW p \in Processes, ThreadEnds(p) PROVE OnList'
    BY <1>17, ThreadEndsDoes DEF OnList, Others, OnlyUpgrade, SameList
  <1>18. ASSUME NEW p \in Processes, AllStarted(p) PROVE OnList'
    BY <1>18, AllStartedDoes DEF OnList, Others, Onward, SameList
  <1>19. ASSUME NEW p \in Processes, Load(p) PROVE OnList'
    BY <1>19, LoadDoes DEF OnList, Others, SameList
  <1>20. ASSUME NEW p \in Processes, CleanUp(p) PROVE OnList'
    BY <1>20, CleanUpDoes DEF OnList, Others, Onward, SameList
  <1>21. ASSUME NEW c \in Clients, Take(c) PROVE OnList'
    <2>1. \A q \in Processes : OnlySettings(q)
      BY <1>21, TakeDoes, SettingsAlone
    <2>2. UNCHANGED <<server, history>>
      BY <1>21, TakeDoes
    <2> QED
      BY <2>1, <2>2 DEF OnList, OnlySettings, SameList
  <1>22. ASSUME NEW c \in Clients, PersistFails(c) PROVE OnList'
    <2>1. \A q \in Processes : OnlySettings(q)
      BY <1>22, PersistFailsDoes, SettingsAlone
    <2>2. /\ server'.schema = server.schema /\ server'.lock = server.lock
          /\ history'.upgrades = history.upgrades
      BY <1>22, PersistFailsDoes
    <2> QED
      BY <2>1, <2>2 DEF OnList, OnlySettings, SameList
  <1>23. ASSUME NEW c \in Clients, Adopt(c) PROVE OnList'
    <2>1. \A q \in Processes : OnlySettings(q)
      BY <1>23, AdoptDoes, SettingsAlone
    <2>2. UNCHANGED <<server, history>>
      BY <1>23, AdoptDoes
    <2> QED
      BY <2>1, <2>2 DEF OnList, OnlySettings, SameList
  <1>24. ASSUME Back PROVE UNCHANGED proc
    BY <1>24 DEF Back
  <1>25. ASSUME NEW c \in Clients, NEW p \in Processes, NEW f \in Fields,
               NEW v \in Values \union {0}, BeginPatch(c, p, f, v)
       PROVE  UNCHANGED proc
    BY <1>25 DEF BeginPatch
  <1>26. ASSUME NEW c \in Clients, PersistOverlay(c) PROVE UNCHANGED proc
    BY <1>26 DEF PersistOverlay
  <1> QED  BY <1>1, <1>2, <1>3, <1>4, <1>5, <1>6, <1>7, <1>8, <1>9, <1>10, <1>11, <1>12,
              <1>13, <1>14, <1>15, <1>16, <1>17, <1>18, <1>19, <1>20, <1>21, <1>22,
              <1>23, <1>24, <1>25, <1>26
      DEF RuntimeNext

(* The upgrade is run once.                                                *)
LEMMA OneUpgradeStep ==
    ASSUME OneUpgrade, ServerTypes, ProcTypes, PatchTypes, ToldTypes, HistoryTypes,
          RuntimeNext
    PROVE  OneUpgrade'
  <1>1. CASE UNCHANGED <<proc, server, history>>
    BY <1>1 DEF OneUpgrade
  <1>2. ASSUME Outage PROVE OneUpgrade'
    BY <1>2, OutageDoes DEF OneUpgrade, SameStory
  <1>3. ASSUME Back PROVE OneUpgrade'
    BY <1>3 DEF OneUpgrade, Back
  <1>4. ASSUME NEW p \in Processes, Boot(p) PROVE OneUpgrade'
    BY <1>4, BootDoes DEF OneUpgrade, Others, SameStory
  <1>5. ASSUME NEW p \in Processes, StartNext(p) PROVE OneUpgrade'
    BY <1>5, StartNextDoes DEF OneUpgrade, Others
  <1>6. ASSUME NEW p \in Processes, ComponentUp(p) PROVE OneUpgrade'
    BY <1>6, ComponentUpDoes DEF OneUpgrade, Others, Onward
  <1>7. ASSUME NEW p \in Processes, StartBroken(p) PROVE OneUpgrade'
    BY <1>7, StartBrokenDoes DEF OneUpgrade, Others, Onward, SameStory
  <1>8. ASSUME NEW p \in Processes, CancelStop(p) PROVE OneUpgrade'
    BY <1>8, CancelStopDoes DEF OneUpgrade, SameStory
  <1>9. ASSUME NEW p \in Processes, StopOne(p) PROVE OneUpgrade'
    BY <1>9, StopOneDoes DEF OneUpgrade, Others
  <1>10. ASSUME NEW p \in Processes, StartedNone(p) PROVE OneUpgrade'
    BY <1>10, StartedNoneDoes DEF OneUpgrade, Others, Onward
  <1>11. ASSUME NEW p \in Processes, Shutdown(p) PROVE OneUpgrade'
    BY <1>11, ShutdownDoes DEF OneUpgrade, Others, Onward
  <1>12. ASSUME NEW p \in Processes, Kill(p) PROVE OneUpgrade'
    BY <1>12, KillDoes DEF OneUpgrade, Others, SameStory
  <1>13. ASSUME NEW p \in Processes, Probe(p) PROVE OneUpgrade'
    BY <1>13, ProbeDoes DEF OneUpgrade, Others
  <1>14. ASSUME NEW p \in Processes, CreateDatabase(p) PROVE OneUpgrade'
    BY <1>14, CreateDatabaseDoes DEF OneUpgrade, Others
  <1>15. ASSUME NEW p \in Processes, BeginUpgrade(p) PROVE OneUpgrade'
    BY <1>15, BeginUpgradeDoes, RuntimeAssumption DEF OneUpgrade, Others
  <1>16. ASSUME NEW p \in Processes, EndUpgrade(p) PROVE OneUpgrade'
    BY <1>16, EndUpgradeDoes DEF OneUpgrade, Others
  <1>17. ASSUME NEW p \in Processes, Migrated(p) PROVE OneUpgrade'
    BY <1>17, MigratedDoes DEF OneUpgrade, Others
  <1>18. ASSUME NEW p \in Processes, ThreadEnds(p) PROVE OneUpgrade'
    BY <1>18, ThreadEndsDoes DEF OneUpgrade, Others
  <1>19. ASSUME NEW p \in Processes, AllStarted(p) PROVE OneUpgrade'
    BY <1>19, AllStartedDoes DEF OneUpgrade, Others, Onward
  <1>20. ASSUME NEW p \in Processes, Load(p) PROVE OneUpgrade'
    BY <1>20, LoadDoes DEF OneUpgrade, Others
  <1>21. ASSUME NEW p \in Processes, CleanUp(p) PROVE OneUpgrade'
    BY <1>21, CleanUpDoes DEF OneUpgrade, Others, Onward
  <1>22. ASSUME NEW c \in Clients, NEW p \in Processes, NEW f \in Fields,
               NEW v \in Values \union {0}, BeginPatch(c, p, f, v)
       PROVE  OneUpgrade'
    <2>1. SameStory /\ UNCHANGED <<server, proc>>
      BY <1>22, BeginPatchDoes
    <2> QED  BY <2>1 DEF OneUpgrade, SameStory
  <1>23. ASSUME NEW c \in Clients, Take(c) PROVE OneUpgrade'
    <2>1. \A q \in Processes : OnlySettings(q)
      BY <1>23, TakeDoes, SettingsAlone
    <2>2. UNCHANGED <<server, history>>
      BY <1>23, TakeDoes
    <2> QED
      BY <2>1, <2>2 DEF OneUpgrade, OnlySettings
  <1>24. ASSUME NEW c \in Clients, PersistOverlay(c) PROVE OneUpgrade'
    BY <1>24, PersistOverlayDoes DEF OneUpgrade
  <1>25. ASSUME NEW c \in Clients, PersistFails(c) PROVE OneUpgrade'
    <2>1. \A q \in Processes : OnlySettings(q)
      BY <1>25, PersistFailsDoes, SettingsAlone
    <2>2. /\ server'.schema = server.schema /\ server'.lock = server.lock
          /\ history'.upgrades = history.upgrades
      BY <1>25, PersistFailsDoes
    <2> QED
      BY <2>1, <2>2 DEF OneUpgrade, OnlySettings
  <1>26. ASSUME NEW c \in Clients, Adopt(c) PROVE OneUpgrade'
    <2>1. \A q \in Processes : OnlySettings(q)
      BY <1>26, AdoptDoes, SettingsAlone
    <2>2. UNCHANGED <<server, history>>
      BY <1>26, AdoptDoes
    <2> QED
      BY <2>1, <2>2 DEF OneUpgrade, OnlySettings
  <1> QED  BY <1>1, <1>2, <1>3, <1>4, <1>5, <1>6, <1>7, <1>8, <1>9, <1>10, <1>11, <1>12,
              <1>13, <1>14, <1>15, <1>16, <1>17, <1>18, <1>19, <1>20, <1>21, <1>22,
              <1>23, <1>24, <1>25, <1>26
      DEF RuntimeNext

(* What a start found of the database stands.                              *)
LEMMA DatabaseFoundStep ==
    ASSUME DatabaseFound, ServerTypes, ProcTypes, PatchTypes, ToldTypes, HistoryTypes,
          OneUpgrade, RuntimeNext
    PROVE  DatabaseFound'
  <1>1. CASE UNCHANGED <<proc, server>>
    BY <1>1 DEF DatabaseFound, PastDatabase, Config
  <1>2. ASSUME Outage PROVE DatabaseFound'
    BY <1>2, OutageDoes DEF DatabaseFound, PastDatabase, Config, OnlyUpgrade, SameList
  <1>3. ASSUME Back PROVE DatabaseFound'
    BY <1>3 DEF DatabaseFound, PastDatabase, Config, Back
  <1>4. ASSUME NEW p \in Processes, Boot(p) PROVE DatabaseFound'
    BY <1>4, BootDoes DEF DatabaseFound, PastDatabase, Config, Others
  <1>5. ASSUME NEW p \in Processes, StartNext(p) PROVE DatabaseFound'
    BY <1>5, StartNextDoes, Counted DEF DatabaseFound, PastDatabase, Config, ProcTypes,
        Others
  <1>6. ASSUME NEW p \in Processes, ComponentUp(p) PROVE DatabaseFound'
    BY <1>6, ComponentUpDoes DEF DatabaseFound, PastDatabase, Config, Others, Onward,
        SameList
  <1>7. ASSUME NEW p \in Processes, StartBroken(p) PROVE DatabaseFound'
    BY <1>7, StartBrokenDoes DEF DatabaseFound, PastDatabase, Config, Others, Onward
  <1>8. ASSUME NEW p \in Processes, CancelStop(p) PROVE DatabaseFound'
    BY <1>8, CancelStopDoes DEF DatabaseFound, PastDatabase, Config
  <1>9. ASSUME NEW p \in Processes, StopOne(p) PROVE DatabaseFound'
    BY <1>9, StopOneDoes DEF DatabaseFound, PastDatabase, Config, Others
  <1>10. ASSUME NEW p \in Processes, StartedNone(p) PROVE DatabaseFound'
    BY <1>10, StartedNoneDoes DEF DatabaseFound, PastDatabase, Config, Others, Onward
  <1>11. ASSUME NEW p \in Processes, Shutdown(p) PROVE DatabaseFound'
    BY <1>11, ShutdownDoes DEF DatabaseFound, PastDatabase, Config, Others, Onward
  <1>12. ASSUME NEW p \in Processes, Kill(p) PROVE DatabaseFound'
    BY <1>12, KillDoes DEF DatabaseFound, PastDatabase, Config, Others
  <1>13. ASSUME NEW p \in Processes, Probe(p) PROVE DatabaseFound'
    BY <1>13, ProbeDoes DEF DatabaseFound, PastDatabase, Config, Others
  <1>14. ASSUME NEW p \in Processes, CreateDatabase(p) PROVE DatabaseFound'
    BY <1>14, CreateDatabaseDoes DEF DatabaseFound, PastDatabase, Config, Others
  <1>15. ASSUME NEW p \in Processes, BeginUpgrade(p) PROVE DatabaseFound'
    BY <1>15, BeginUpgradeDoes DEF DatabaseFound, PastDatabase, Config, Others,
        OnlyUpgrade, SameList
  <1>16. ASSUME NEW p \in Processes, EndUpgrade(p) PROVE DatabaseFound'
    BY <1>16, EndUpgradeDoes DEF DatabaseFound, PastDatabase, Config, Others,
        OnlyUpgrade, SameList
  <1>17. ASSUME NEW p \in Processes, Migrated(p) PROVE DatabaseFound'
    BY <1>17, MigratedDoes DEF DatabaseFound, PastDatabase, Config, OneUpgrade, Others,
        SameList
  <1>18. ASSUME NEW p \in Processes, ThreadEnds(p) PROVE DatabaseFound'
    BY <1>18, ThreadEndsDoes DEF DatabaseFound, PastDatabase, Config, Others,
        OnlyUpgrade, SameList
  <1>19. ASSUME NEW p \in Processes, AllStarted(p) PROVE DatabaseFound'
    BY <1>19, AllStartedDoes, Counted DEF DatabaseFound, PastDatabase, Config,
        ProcTypes, Others, Onward, SameList
  <1>20. ASSUME NEW p \in Processes, Load(p) PROVE DatabaseFound'
    BY <1>20, LoadDoes DEF DatabaseFound, PastDatabase, Config, Others, SameList
  <1>21. ASSUME NEW p \in Processes, CleanUp(p) PROVE DatabaseFound'
    BY <1>21, CleanUpDoes DEF DatabaseFound, PastDatabase, Config, Others, Onward,
        SameList
  <1>22. ASSUME NEW c \in Clients, Take(c) PROVE DatabaseFound'
    <2>1. \A q \in Processes : OnlySettings(q)
      BY <1>22, TakeDoes, SettingsAlone
    <2>2. UNCHANGED <<server, history>>
      BY <1>22, TakeDoes
    <2> QED
      BY <2>1, <2>2 DEF DatabaseFound, OnlySettings, SameList, PastDatabase, Config
  <1>23. ASSUME NEW c \in Clients, PersistOverlay(c) PROVE DatabaseFound'
    BY <1>23, PersistOverlayDoes DEF DatabaseFound, PastDatabase, Config
  <1>24. ASSUME NEW c \in Clients, PersistFails(c) PROVE DatabaseFound'
    <2>1. \A q \in Processes : OnlySettings(q)
      BY <1>24, PersistFailsDoes, SettingsAlone
    <2>2. /\ server'.schema = server.schema /\ server'.lock = server.lock
          /\ history'.upgrades = history.upgrades
      BY <1>24, PersistFailsDoes
    <2> QED
      BY <2>1, <2>2 DEF DatabaseFound, OnlySettings, SameList, PastDatabase, Config
  <1>25. ASSUME NEW c \in Clients, Adopt(c) PROVE DatabaseFound'
    <2>1. \A q \in Processes : OnlySettings(q)
      BY <1>25, AdoptDoes, SettingsAlone
    <2>2. UNCHANGED <<server, history>>
      BY <1>25, AdoptDoes
    <2> QED
      BY <2>1, <2>2 DEF DatabaseFound, OnlySettings, SameList, PastDatabase, Config
  <1>26. ASSUME NEW c \in Clients, NEW p \in Processes, NEW f \in Fields,
               NEW v \in Values \union {0}, BeginPatch(c, p, f, v)
       PROVE  UNCHANGED <<proc, server>>
    BY <1>26 DEF BeginPatch
  <1> QED  BY <1>1, <1>2, <1>3, <1>4, <1>5, <1>6, <1>7, <1>8, <1>9, <1>10, <1>11, <1>12,
              <1>13, <1>14, <1>15, <1>16, <1>17, <1>18, <1>19, <1>20, <1>21, <1>22,
              <1>23, <1>24, <1>25, <1>26
      DEF RuntimeNext

(* Changes are made one at a time, where somebody serves.                  *)
LEMMA ChangesServedStep ==
    ASSUME ChangesServed, ServerTypes, ProcTypes, PatchTypes, ToldTypes, HistoryTypes,
          RuntimeNext
    PROVE  ChangesServed'
  <1>1. CASE UNCHANGED <<proc, patch>>
    BY <1>1 DEF ChangesServed
  <1>2. ASSUME Outage PROVE ChangesServed'
    BY <1>2, OutageDoes, Stages DEF ChangesServed, OnlyUpgrade, SameSettings
  <1>3. ASSUME NEW p \in Processes, Boot(p) PROVE ChangesServed'
    BY <1>3, BootDoes, Elsewhere
  <1>4. ASSUME NEW p \in Processes, StartNext(p) PROVE ChangesServed'
    BY <1>4, StartNextDoes, Elsewhere
  <1>5. ASSUME NEW p \in Processes, ComponentUp(p) PROVE ChangesServed'
    BY <1>5, ComponentUpDoes, Elsewhere
  <1>6. ASSUME NEW p \in Processes, StartBroken(p) PROVE ChangesServed'
    BY <1>6, StartBrokenDoes, Elsewhere DEF Awaits
  <1>7. ASSUME NEW p \in Processes, CancelStop(p) PROVE ChangesServed'
    BY <1>7, CancelStopDoes DEF ChangesServed
  <1>8. ASSUME NEW p \in Processes, StopOne(p) PROVE ChangesServed'
    BY <1>8, StopOneDoes, Elsewhere
  <1>9. ASSUME NEW p \in Processes, StartedNone(p) PROVE ChangesServed'
    BY <1>9, StartedNoneDoes, Elsewhere
  <1>10. ASSUME NEW p \in Processes, Shutdown(p) PROVE ChangesServed'
    <2> SUFFICES ASSUME NEW c \in Clients, patch[c] # NoPatch
                 PROVE  /\ proc'[patch[c].p].pc = "serving"
                        /\ patch[c].at # "waiting" =>
                              /\ proc'[patch[c].p].lock = c
                              /\ patch[c].new =
                                    [proc'[patch[c].p].overlay EXCEPT ![patch[c].f] = patch[c].v]
      BY <1>10, ShutdownDoes DEF ChangesServed
    <2>1. patch[c].p \in Processes \ {p}
      BY <1>10, ShutdownDoes, Stages
    <2> QED  BY <1>10, <2>1, ShutdownDoes DEF ChangesServed, Others
  <1>11. ASSUME NEW p \in Processes, Kill(p) PROVE ChangesServed'
    BY <1>11, KillDoes, Stages DEF ChangesServed, Others
  <1>12. ASSUME NEW p \in Processes, Probe(p) PROVE ChangesServed'
    BY <1>12, ProbeDoes, Elsewhere
  <1>13. ASSUME NEW p \in Processes, CreateDatabase(p) PROVE ChangesServed'
    BY <1>13, CreateDatabaseDoes, Elsewhere
  <1>14. ASSUME NEW p \in Processes, BeginUpgrade(p) PROVE ChangesServed'
    BY <1>14, BeginUpgradeDoes, Elsewhere DEF OnlyUpgrade
  <1>15. ASSUME NEW p \in Processes, EndUpgrade(p) PROVE ChangesServed'
    BY <1>15, EndUpgradeDoes, Elsewhere DEF OnlyUpgrade
  <1>16. ASSUME NEW p \in Processes, Migrated(p) PROVE ChangesServed'
    BY <1>16, MigratedDoes, Elsewhere
  <1>17. ASSUME NEW p \in Processes, ThreadEnds(p) PROVE ChangesServed'
    BY <1>17, ThreadEndsDoes, Elsewhere DEF OnlyUpgrade
  <1>18. ASSUME NEW p \in Processes, AllStarted(p) PROVE ChangesServed'
    BY <1>18, AllStartedDoes, Elsewhere
  <1>19. ASSUME NEW p \in Processes, Load(p) PROVE ChangesServed'
    BY <1>19, LoadDoes, Elsewhere
  <1>20. ASSUME NEW p \in Processes, CleanUp(p) PROVE ChangesServed'
    BY <1>20, CleanUpDoes, Elsewhere
  <1>21. ASSUME NEW c \in Clients, NEW p \in Processes, NEW f \in Fields,
               NEW v \in Values \union {0}, BeginPatch(c, p, f, v)
       PROVE  ChangesServed'
    <2> SUFFICES ASSUME NEW d \in Clients, patch'[d] # NoPatch
                 PROVE  /\ proc'[patch'[d].p].pc = "serving"
                        /\ patch'[d].at # "waiting" =>
                              /\ proc'[patch'[d].p].lock = d
                              /\ patch'[d].new =
                                    [proc'[patch'[d].p].overlay EXCEPT ![patch'[d].f] = patch'[d].v]
      BY DEF ChangesServed
    <2>1. CASE d = c
      BY <1>21, <2>1, BeginPatchDoes
    <2>2. CASE d # c
      <3>1. patch'[d] = patch[d] /\ UNCHANGED proc
        BY <1>21, <2>2, BeginPatchDoes DEF OtherChanges
      <3> QED  BY <3>1 DEF ChangesServed
    <2> QED  BY <2>1, <2>2
  <1>22. ASSUME NEW c \in Clients, Take(c) PROVE ChangesServed'
    <2> SUFFICES ASSUME NEW d \in Clients, patch'[d] # NoPatch
                 PROVE  /\ proc'[patch'[d].p].pc = "serving"
                        /\ patch'[d].at # "waiting" =>
                              /\ proc'[patch'[d].p].lock = d
                              /\ patch'[d].new =
                                    [proc'[patch'[d].p].overlay EXCEPT ![patch'[d].f] = patch'[d].v]
      BY DEF ChangesServed
    <2> DEFINE q == patch[c].p
    <2>1. /\ q \in Processes /\ patch[c] # NoPatch /\ proc[q].pc = "serving"
          /\ Others(q) /\ OnlySettings(q)
      BY <1>22, TakeDoes, Stages DEF ChangesServed, NoPatch
    <2>2. CASE d = c
      <3>1. /\ patch'[d].p = q /\ patch'[d].f = patch[c].f /\ patch'[d].v = patch[c].v
            /\ patch'[d].new = [proc[q].overlay EXCEPT ![patch[c].f] = patch[c].v]
            /\ proc'[q].lock = c /\ proc'[q].overlay = proc[q].overlay
        BY <1>22, <2>2, TakeDoes
      <3> QED  BY <2>1, <2>2, <3>1 DEF OnlySettings
    <2>3. CASE d # c
      <3>1. patch'[d] = patch[d] /\ patch[d] # NoPatch /\ patch[d].p \in Processes
        <4>1. patch'[d] = patch[d]
          BY <1>22, <2>3, TakeDoes DEF OtherChanges
        <4>2. patch[d] # NoPatch
          BY <4>1
        <4> QED  BY <4>1, <4>2, Stages
      <3>2. CASE patch[d].p # q
        BY <2>1, <3>1, <3>2 DEF ChangesServed, Others
      <3>3. CASE patch[d].p = q
        <4>1. patch[d].at = "waiting"
          <5> SUFFICES ASSUME patch[d].at # "waiting"
                       PROVE  FALSE
            OBVIOUS
          <5>1. proc[q].lock = d
            BY <3>1, <3>3 DEF ChangesServed
          <5>2. proc[q].lock = Nobody
            BY <1>22, TakeDoes
          <5> QED  BY <5>1, <5>2, RuntimeAssumption
        <4> QED  BY <2>1, <3>1, <3>3, <4>1 DEF OnlySettings
      <3> QED  BY <3>2, <3>3
    <2> QED  BY <2>2, <2>3
  <1>23. ASSUME NEW c \in Clients, PersistOverlay(c) PROVE ChangesServed'
    <2> SUFFICES ASSUME NEW d \in Clients, patch'[d] # NoPatch
                 PROVE  /\ proc'[patch'[d].p].pc = "serving"
                        /\ patch'[d].at # "waiting" =>
                              /\ proc'[patch'[d].p].lock = d
                              /\ patch'[d].new =
                                    [proc'[patch'[d].p].overlay EXCEPT ![patch'[d].f] = patch'[d].v]
      BY DEF ChangesServed
    <2>1. patch[d] # NoPatch /\ patch'[d].p = patch[d].p
      BY <1>23, PersistOverlayDoes, Stages DEF OtherChanges
    <2>2. CASE d = c
      BY <1>23, <2>1, <2>2, PersistOverlayDoes DEF ChangesServed
    <2>3. CASE d # c
      BY <1>23, <2>1, <2>3, PersistOverlayDoes DEF ChangesServed, OtherChanges
    <2> QED  BY <2>2, <2>3
  <1>24. ASSUME NEW c \in Clients, PersistFails(c) PROVE ChangesServed'
    <2> SUFFICES ASSUME NEW d \in Clients, patch'[d] # NoPatch
                 PROVE  /\ proc'[patch'[d].p].pc = "serving"
                        /\ patch'[d].at # "waiting" =>
                              /\ proc'[patch'[d].p].lock = d
                              /\ patch'[d].new =
                                    [proc'[patch'[d].p].overlay EXCEPT ![patch'[d].f] = patch'[d].v]
      BY DEF ChangesServed
    <2> DEFINE q == patch[c].p
    <2>1. /\ q \in Processes /\ patch[c] # NoPatch /\ proc[q].pc = "serving"
          /\ Others(q) /\ OnlySettings(q)
      BY <1>24, PersistFailsDoes, Stages DEF ChangesServed, NoPatch
    <2>2. d # c
      BY <1>24, PersistFailsDoes
    <2>3. CASE d # c
      <3>1. patch'[d] = patch[d] /\ patch[d] # NoPatch /\ patch[d].p \in Processes
        BY <1>24, <2>3, PersistFailsDoes, Stages DEF OtherChanges
      <3>2. CASE patch[d].p # q
        BY <2>1, <3>1, <3>2 DEF ChangesServed, Others
      <3>3. CASE patch[d].p = q
        <4>1. patch[d].at = "waiting"
          <5> SUFFICES ASSUME patch[d].at # "waiting"
                       PROVE  FALSE
            OBVIOUS
          <5>1. proc[q].lock = d
            BY <3>1, <3>3 DEF ChangesServed
          <5>2. patch[c].at # "waiting"
            BY <1>24, PersistFailsDoes
          <5>3. proc[q].lock = c
            BY <2>1, <5>2 DEF ChangesServed
          <5> QED  BY <2>3, <5>1, <5>3
        <4> QED  BY <2>1, <3>1, <3>3, <4>1 DEF OnlySettings
      <3> QED  BY <3>2, <3>3
    <2> QED  BY <2>2, <2>3
  <1>25. ASSUME NEW c \in Clients, Adopt(c) PROVE ChangesServed'
    <2> SUFFICES ASSUME NEW d \in Clients, patch'[d] # NoPatch
                 PROVE  /\ proc'[patch'[d].p].pc = "serving"
                        /\ patch'[d].at # "waiting" =>
                              /\ proc'[patch'[d].p].lock = d
                              /\ patch'[d].new =
                                    [proc'[patch'[d].p].overlay EXCEPT ![patch'[d].f] = patch'[d].v]
      BY DEF ChangesServed
    <2> DEFINE q == patch[c].p
    <2>1. /\ q \in Processes /\ patch[c] # NoPatch /\ proc[q].pc = "serving"
          /\ Others(q) /\ OnlySettings(q)
      BY <1>25, AdoptDoes, Stages DEF ChangesServed, Written, NoPatch
    <2>2. d # c
      BY <1>25, AdoptDoes
    <2>3. CASE d # c
      <3>1. patch'[d] = patch[d] /\ patch[d] # NoPatch /\ patch[d].p \in Processes
        BY <1>25, <2>3, AdoptDoes, Stages DEF OtherChanges
      <3>2. CASE patch[d].p # q
        BY <2>1, <3>1, <3>2 DEF ChangesServed, Others
      <3>3. CASE patch[d].p = q
        <4>1. patch[d].at = "waiting"
          <5> SUFFICES ASSUME patch[d].at # "waiting"
                       PROVE  FALSE
            OBVIOUS
          <5>1. proc[q].lock = d
            BY <3>1, <3>3 DEF ChangesServed
          <5>2. patch[c].at # "waiting"
            BY <1>25, AdoptDoes DEF Written
          <5>3. proc[q].lock = c
            BY <2>1, <5>2 DEF ChangesServed
          <5> QED  BY <2>3, <5>1, <5>3
        <4> QED  BY <2>1, <3>1, <3>3, <4>1 DEF OnlySettings
      <3> QED  BY <3>2, <3>3
    <2> QED  BY <2>2, <2>3
  <1>26. ASSUME Back PROVE UNCHANGED <<proc, patch>>
    BY <1>26 DEF Back
  <1> QED  BY <1>1, <1>2, <1>3, <1>4, <1>5, <1>6, <1>7, <1>8, <1>9, <1>10, <1>11, <1>12,
              <1>13, <1>14, <1>15, <1>16, <1>17, <1>18, <1>19, <1>20, <1>21, <1>22,
              <1>23, <1>24, <1>25, <1>26
      DEF RuntimeNext

(* What is in force is what was told.                                      *)
LEMMA OverlayToldStep ==
    ASSUME OverlayTold, ServerTypes, ProcTypes, PatchTypes, ToldTypes, HistoryTypes,
          ChangesServed, RuntimeNext
    PROVE  OverlayTold'
  <1>1. CASE UNCHANGED <<proc, told>>
    BY <1>1 DEF OverlayTold, Loaded
  <1>2. ASSUME Outage PROVE OverlayTold'
    BY <1>2, OutageDoes DEF OverlayTold, Loaded, OnlyUpgrade, SameSettings
  <1>3. ASSUME NEW p \in Processes, Boot(p) PROVE OverlayTold'
    BY <1>3, BootDoes DEF OverlayTold, Loaded, Others
  <1>4. ASSUME NEW p \in Processes, StartNext(p) PROVE OverlayTold'
    BY <1>4, StartNextDoes, OverlaysStand
  <1>5. ASSUME NEW p \in Processes, ComponentUp(p) PROVE OverlayTold'
    BY <1>5, ComponentUpDoes, OverlaysStand DEF Onward
  <1>6. ASSUME NEW p \in Processes, StartBroken(p) PROVE OverlayTold'
    BY <1>6, StartBrokenDoes, OverlaysStand DEF Onward
  <1>7. ASSUME NEW p \in Processes, CancelStop(p) PROVE OverlayTold'
    BY <1>7, CancelStopDoes DEF OverlayTold, Loaded
  <1>8. ASSUME NEW p \in Processes, StopOne(p) PROVE OverlayTold'
    BY <1>8, StopOneDoes, OverlaysStand
  <1>9. ASSUME NEW p \in Processes, StartedNone(p) PROVE OverlayTold'
    BY <1>9, StartedNoneDoes, OverlaysStand DEF Onward
  <1>10. ASSUME NEW p \in Processes, Shutdown(p) PROVE OverlayTold'
    BY <1>10, ShutdownDoes, OverlaysStand DEF Onward
  <1>11. ASSUME NEW p \in Processes, Kill(p) PROVE OverlayTold'
    BY <1>11, KillDoes DEF OverlayTold, Loaded, Others
  <1>12. ASSUME NEW p \in Processes, Probe(p) PROVE OverlayTold'
    BY <1>12, ProbeDoes, OverlaysStand
  <1>13. ASSUME NEW p \in Processes, CreateDatabase(p) PROVE OverlayTold'
    BY <1>13, CreateDatabaseDoes, OverlaysStand
  <1>14. ASSUME NEW p \in Processes, BeginUpgrade(p) PROVE OverlayTold'
    BY <1>14, BeginUpgradeDoes, OverlaysStand DEF OnlyUpgrade, SameSettings
  <1>15. ASSUME NEW p \in Processes, EndUpgrade(p) PROVE OverlayTold'
    BY <1>15, EndUpgradeDoes, OverlaysStand DEF OnlyUpgrade, SameSettings
  <1>16. ASSUME NEW p \in Processes, Migrated(p) PROVE OverlayTold'
    BY <1>16, MigratedDoes, OverlaysStand
  <1>17. ASSUME NEW p \in Processes, ThreadEnds(p) PROVE OverlayTold'
    BY <1>17, ThreadEndsDoes, OverlaysStand DEF OnlyUpgrade, SameSettings
  <1>18. ASSUME NEW p \in Processes, AllStarted(p) PROVE OverlayTold'
    BY <1>18, AllStartedDoes, OverlaysStand DEF Onward
  <1>19. ASSUME NEW p \in Processes, Load(p) PROVE OverlayTold'
    BY <1>19, LoadDoes DEF OverlayTold, Loaded, Others
  <1>20. ASSUME NEW p \in Processes, CleanUp(p) PROVE OverlayTold'
    BY <1>20, CleanUpDoes, OverlaysStand DEF Onward, SameSettings
  <1>21. ASSUME NEW c \in Clients, Take(c) PROVE OverlayTold'
    <2>1. \A q \in Processes : OnlySettings(q) /\ proc'[q].overlay = proc[q].overlay
      BY <1>21, TakeDoes, SettingsAlone DEF Others
    <2>2. UNCHANGED told
      BY <1>21, TakeDoes
    <2> QED  BY <2>1, <2>2 DEF OverlayTold, Loaded, OnlySettings
  <1>22. ASSUME NEW c \in Clients, PersistFails(c) PROVE OverlayTold'
    BY <1>22, PersistFailsDoes DEF OverlayTold, Loaded, Others, OnlySettings
  <1>23. ASSUME NEW c \in Clients, Adopt(c) PROVE OverlayTold'
    <2> DEFINE q == patch[c].p
    <2> SUFFICES ASSUME NEW r \in Processes, Loaded(r)'
                 PROVE  proc'[r].overlay = told'[r]
      BY DEF OverlayTold
    <2>1. q \in Processes /\ patch[c].at # "waiting" /\ patch[c] # NoPatch
      BY <1>23, AdoptDoes DEF Written, NoPatch
    <2>2. CASE r = q
      <3>1. Loaded(q)
        BY <1>23, <2>2, AdoptDoes DEF Loaded, OnlySettings
      <3>2. proc'[q].overlay = [proc[q].overlay EXCEPT ![patch[c].f] = patch[c].v]
        BY <1>23, <2>1, AdoptDoes DEF ChangesServed
      <3>3. told'[q] = [told[q] EXCEPT ![patch[c].f] = patch[c].v]
        BY <1>23, <2>1, AdoptDoes
      <3> QED  BY <2>1, <2>2, <3>1, <3>2, <3>3 DEF OverlayTold
    <2>3. CASE r # q
      BY <1>23, <2>1, <2>3, AdoptDoes DEF OverlayTold, Loaded, Others
    <2> QED  BY <2>2, <2>3
  <1>24. ASSUME Back PROVE UNCHANGED <<proc, told>>
    BY <1>24 DEF Back
  <1>25. ASSUME NEW c \in Clients, NEW p \in Processes, NEW f \in Fields,
               NEW v \in Values \union {0}, BeginPatch(c, p, f, v)
       PROVE  UNCHANGED <<proc, told>>
    BY <1>25 DEF BeginPatch
  <1>26. ASSUME NEW c \in Clients, PersistOverlay(c) PROVE UNCHANGED <<proc, told>>
    BY <1>26 DEF PersistOverlay
  <1> QED  BY <1>1, <1>2, <1>3, <1>4, <1>5, <1>6, <1>7, <1>8, <1>9, <1>10, <1>11, <1>12,
              <1>13, <1>14, <1>15, <1>16, <1>17, <1>18, <1>19, <1>20, <1>21, <1>22,
              <1>23, <1>24, <1>25, <1>26
      DEF RuntimeNext

(* The last writer's row is what it has in force.                          *)
LEMMA RowWrittenStep ==
    ASSUME RowWritten, ServerTypes, ProcTypes, PatchTypes, ToldTypes, HistoryTypes,
          ChangesServed, RuntimeNext
    PROVE  RowWritten'
  <1>1. CASE UNCHANGED <<proc, patch, server, history>>
    BY <1>1 DEF RowWritten, Settled, Loaded, SavedBy
  <1>2. ASSUME Outage PROVE RowWritten'
    BY <1>2, OutageDoes DEF RowWritten, Settled, Loaded, SavedBy, OnlyUpgrade,
        SameStory, SameList, SameSettings
  <1>3. ASSUME Back PROVE RowWritten'
    BY <1>3 DEF RowWritten, Settled, Loaded, SavedBy, Back
  <1>4. ASSUME NEW p \in Processes, Boot(p) PROVE RowWritten'
    BY <1>4, BootDoes, RowStands DEF SameStory
  <1>5. ASSUME NEW p \in Processes, StartNext(p) PROVE RowWritten'
    BY <1>5, StartNextDoes, RowStands
  <1>6. ASSUME NEW p \in Processes, ComponentUp(p) PROVE RowWritten'
    BY <1>6, ComponentUpDoes, RowStands DEF Onward
  <1>7. ASSUME NEW p \in Processes, StartBroken(p) PROVE RowWritten'
    BY <1>7, StartBrokenDoes, RowStands DEF Onward, SameStory
  <1>8. ASSUME NEW p \in Processes, CancelStop(p) PROVE RowWritten'
    BY <1>8, CancelStopDoes DEF RowWritten, Settled, Loaded, SavedBy, SameStory
  <1>9. ASSUME NEW p \in Processes, StopOne(p) PROVE RowWritten'
    BY <1>9, StopOneDoes, RowStands
  <1>10. ASSUME NEW p \in Processes, StartedNone(p) PROVE RowWritten'
    BY <1>10, StartedNoneDoes, RowStands DEF Onward
  <1>11. ASSUME NEW p \in Processes, Shutdown(p) PROVE RowWritten'
    BY <1>11, ShutdownDoes, RowStands DEF Onward
  <1>12. ASSUME NEW p \in Processes, Kill(p) PROVE RowWritten'
    <2> SUFFICES ASSUME NEW q \in Processes, Settled(q)'
                 PROVE  /\ \A d \in SavedBy(q)' : server'.row = patch'[d].new
                        /\ SavedBy(q)' = {} => server'.row = proc'[q].overlay
      BY DEF RowWritten
    <2>1. q # p
      BY <1>12, KillDoes DEF Settled
    <2>2. \A d \in Clients : /\ d \in SavedBy(q)' <=> d \in SavedBy(q)
                             /\ d \in SavedBy(q) => patch'[d] = patch[d]
      BY <1>12, <2>1, KillDoes DEF SavedBy, NoPatch
    <2>3. SavedBy(q)' = SavedBy(q)
      <3>1. SavedBy(q)' \subseteq Clients /\ SavedBy(q) \subseteq Clients
        BY DEF SavedBy
      <3> QED  BY <2>2, <3>1
    <2>4. Settled(q) /\ proc'[q] = proc[q] /\ server'.row = server.row
      BY <1>12, <2>1, KillDoes DEF Settled, Loaded, Others, SameStory
    <2>5. \A d \in SavedBy(q) : d \in Clients
      BY DEF SavedBy
    <2> QED  BY <2>2, <2>3, <2>4, <2>5 DEF RowWritten
  <1>13. ASSUME NEW p \in Processes, Probe(p) PROVE RowWritten'
    BY <1>13, ProbeDoes, RowStands
  <1>14. ASSUME NEW p \in Processes, CreateDatabase(p) PROVE RowWritten'
    BY <1>14, CreateDatabaseDoes, RowStands
  <1>15. ASSUME NEW p \in Processes, BeginUpgrade(p) PROVE RowWritten'
    BY <1>15, BeginUpgradeDoes, RowStands DEF OnlyUpgrade, SameList, SameSettings
  <1>16. ASSUME NEW p \in Processes, EndUpgrade(p) PROVE RowWritten'
    BY <1>16, EndUpgradeDoes, RowStands DEF OnlyUpgrade, SameList, SameSettings
  <1>17. ASSUME NEW p \in Processes, Migrated(p) PROVE RowWritten'
    BY <1>17, MigratedDoes, RowStands
  <1>18. ASSUME NEW p \in Processes, ThreadEnds(p) PROVE RowWritten'
    BY <1>18, ThreadEndsDoes, RowStands DEF OnlyUpgrade, SameList, SameSettings
  <1>19. ASSUME NEW p \in Processes, AllStarted(p) PROVE RowWritten'
    BY <1>19, AllStartedDoes, RowStands DEF Onward
  <1>20. ASSUME NEW p \in Processes, Load(p) PROVE RowWritten'
    <2> SUFFICES ASSUME NEW q \in Processes, Settled(q)'
                 PROVE  /\ \A d \in SavedBy(q)' : server'.row = patch'[d].new
                        /\ SavedBy(q)' = {} => server'.row = proc'[q].overlay
      BY DEF RowWritten
    <2>1. SavedBy(q)' = SavedBy(q) /\ UNCHANGED <<patch, server, history>>
      BY <1>20, LoadDoes DEF SavedBy
    <2>2. CASE q = p
      <3>1. server'.row = proc'[q].overlay
        BY <1>20, <2>1, <2>2, LoadDoes DEF Settled, Loaded, SameList
      <3>2. SavedBy(p) = {}
        <4> SUFFICES ASSUME NEW d \in SavedBy(p)
                     PROVE  FALSE
          OBVIOUS
        <4>1. d \in Clients /\ patch[d].at = "saved" /\ patch[d].p = p
          BY DEF SavedBy
        <4> QED  BY <1>20, <4>1, LoadDoes, Stages DEF ChangesServed
      <3> QED  BY <2>1, <2>2, <3>1, <3>2
    <2>3. CASE q # p
      <3>1. proc'[q] = proc[q] /\ Settled(q)
        BY <1>20, <2>1, <2>3, LoadDoes DEF Settled, Loaded, Others
      <3> QED  BY <2>1, <3>1 DEF RowWritten
    <2> QED  BY <2>2, <2>3
  <1>21. ASSUME NEW p \in Processes, CleanUp(p) PROVE RowWritten'
    BY <1>21, CleanUpDoes, RowStands DEF Onward, SameList, SameSettings
  <1>22. ASSUME NEW c \in Clients, NEW p \in Processes, NEW f \in Fields,
               NEW v \in Values \union {0}, BeginPatch(c, p, f, v)
       PROVE  RowWritten'
    <2> SUFFICES ASSUME NEW q \in Processes, Settled(q)'
                 PROVE  /\ \A d \in SavedBy(q)' : server'.row = patch'[d].new
                        /\ SavedBy(q)' = {} => server'.row = proc'[q].overlay
      BY DEF RowWritten
    <2>2. patch[c].at # "saved" /\ patch'[c].at # "saved" /\ OtherChanges(c)
      <3>1. patch[c] = NoPatch /\ patch'[c].at = "waiting" /\ OtherChanges(c)
        BY <1>22, BeginPatchDoes
      <3> QED  BY <3>1 DEF NoPatch
    <2>3. SavedBy(q)' = SavedBy(q) /\ \A d \in SavedBy(q) : patch'[d] = patch[d]
      BY <2>2, SavedStand
    <2>4. /\ Settled(q) /\ proc'[q].overlay = proc[q].overlay
          /\ server'.row = server.row
      BY <1>22, BeginPatchDoes DEF Settled, Loaded, SameStory
    <2> QED  BY <2>3, <2>4 DEF RowWritten
  <1>23. ASSUME NEW c \in Clients, Take(c) PROVE RowWritten'
    <2> SUFFICES ASSUME NEW q \in Processes, Settled(q)'
                 PROVE  /\ \A d \in SavedBy(q)' : server'.row = patch'[d].new
                        /\ SavedBy(q)' = {} => server'.row = proc'[q].overlay
      BY DEF RowWritten
    <2>1. OnlySettings(q) /\ proc'[q].overlay = proc[q].overlay
      BY <1>23, TakeDoes, SettingsAlone DEF Others
    <2>2. patch[c].at # "saved" /\ patch'[c].at # "saved" /\ OtherChanges(c)
      BY <1>23, TakeDoes
    <2>3. SavedBy(q)' = SavedBy(q) /\ \A d \in SavedBy(q) : patch'[d] = patch[d]
      BY <2>2, SavedStand
    <2>4. /\ Settled(q) /\ proc'[q].overlay = proc[q].overlay
          /\ server'.row = server.row
      BY <1>23, <2>1, TakeDoes DEF Settled, Loaded, OnlySettings, SameList
    <2> QED  BY <2>3, <2>4 DEF RowWritten
  <1>24. ASSUME NEW c \in Clients, PersistOverlay(c) PROVE RowWritten'
    <2> SUFFICES ASSUME NEW q \in Processes, Settled(q)'
                 PROVE  /\ \A d \in SavedBy(q)' : server'.row = patch'[d].new
                        /\ SavedBy(q)' = {} => server'.row = proc'[q].overlay
      BY DEF RowWritten
    <2>1. q = patch[c].p /\ patch'[c] # NoPatch /\ c \in SavedBy(q)'
      BY <1>24, PersistOverlayDoes DEF Settled, SavedBy, NoPatch
    <2>2. ASSUME NEW d \in SavedBy(q)', d # c
          PROVE  FALSE
      <3>1. d \in Clients /\ patch[d].at = "saved" /\ patch[d].p = q
        BY <1>24, <2>2, PersistOverlayDoes DEF SavedBy, OtherChanges
      <3>2. proc[q].lock = d
        BY <3>1, Stages DEF ChangesServed
      <3>3. proc[q].lock = c
        BY <1>24, <2>1, PersistOverlayDoes, Stages DEF ChangesServed
      <3> QED  BY <2>2, <3>2, <3>3
    <2>3. server'.row = patch'[c].new
      BY <1>24, PersistOverlayDoes
    <2> QED  BY <2>1, <2>2, <2>3
  <1>25. ASSUME NEW c \in Clients, PersistFails(c) PROVE RowWritten'
    <2> SUFFICES ASSUME NEW q \in Processes, Settled(q)'
                 PROVE  /\ \A d \in SavedBy(q)' : server'.row = patch'[d].new
                        /\ SavedBy(q)' = {} => server'.row = proc'[q].overlay
      BY DEF RowWritten
    <2>1. OnlySettings(q) /\ proc'[q].overlay = proc[q].overlay
      BY <1>25, PersistFailsDoes, SettingsAlone DEF Others
    <2>6. UNCHANGED <<server, history>>
      BY <1>25, PersistFailsDoes DEF Settled
    <2>2. patch[c].at # "saved" /\ patch'[c].at # "saved" /\ OtherChanges(c)
      <3>1. patch[c].at = "saving" /\ patch'[c] = NoPatch /\ OtherChanges(c)
        BY <1>25, PersistFailsDoes
      <3> QED  BY <3>1 DEF NoPatch
    <2>3. SavedBy(q)' = SavedBy(q) /\ \A d \in SavedBy(q) : patch'[d] = patch[d]
      BY <2>2, SavedStand
    <2>4. /\ Settled(q) /\ proc'[q].overlay = proc[q].overlay
          /\ server'.row = server.row
      BY <1>25, <2>1, <2>6 DEF Settled, Loaded, OnlySettings, SameList
    <2> QED  BY <2>3, <2>4 DEF RowWritten
  <1>26. ASSUME NEW c \in Clients, Adopt(c) PROVE RowWritten'
    <2> SUFFICES ASSUME NEW q \in Processes, Settled(q)'
                 PROVE  /\ \A d \in SavedBy(q)' : server'.row = patch'[d].new
                        /\ SavedBy(q)' = {} => server'.row = proc'[q].overlay
      BY DEF RowWritten
    <2> DEFINE r == patch[c].p
    <2>1. /\ r \in Processes /\ patch[c].at \in {"saving", "saved"} /\ OnlySettings(q)
          /\ UNCHANGED <<server, history>>
      BY <1>26, AdoptDoes, SettingsAlone DEF Written
    <2>2. Settled(q)
      BY <2>1 DEF Settled, Loaded, OnlySettings, SameList
    <2>3. \A d \in Clients \ {c} : /\ d \in SavedBy(q)' <=> d \in SavedBy(q)
                                   /\ patch'[d] = patch[d]
      BY <1>26, AdoptDoes DEF SavedBy, OtherChanges
    <2>4. c \notin SavedBy(q)' /\ SavedBy(q) \subseteq Clients /\ SavedBy(q)' \subseteq Clients
      BY <1>26, AdoptDoes DEF SavedBy, NoPatch
    <2>5. CASE q = r
      <3>1. patch[c].at = "saved" /\ c \in SavedBy(q)
        BY <1>26, <2>2, <2>5, AdoptDoes DEF Settled, SavedBy
      <3>2. proc'[q].overlay = patch[c].new
        BY <1>26, <2>5, AdoptDoes
      <3>3. ASSUME NEW d \in SavedBy(q)'
            PROVE  FALSE
        <4>1. d \in Clients /\ d # c /\ patch[d].at = "saved" /\ patch[d].p = q
          BY <2>3, <2>4, <3>3 DEF SavedBy
        <4>2. proc[q].lock = d
          BY <4>1, Stages DEF ChangesServed
        <4>3. proc[q].lock = c
          BY <2>5, <3>1, Stages DEF ChangesServed
        <4> QED  BY <4>1, <4>2, <4>3
      <3>4. server.row = patch[c].new
        BY <2>2, <3>1 DEF RowWritten
      <3> QED  BY <2>1, <3>2, <3>3, <3>4
    <2>6. CASE q # r
      <3>1. c \notin SavedBy(q)
        BY <2>6 DEF SavedBy
      <3>2. SavedBy(q)' = SavedBy(q)
        BY <2>3, <2>4, <3>1
      <3>3. proc'[q] = proc[q]
        BY <1>26, <2>6, AdoptDoes DEF Others
      <3> QED  BY <2>1, <2>2, <2>3, <2>4, <3>1, <3>2, <3>3 DEF RowWritten
    <2> QED  BY <2>5, <2>6
  <1> QED  BY <1>1, <1>2, <1>3, <1>4, <1>5, <1>6, <1>7, <1>8, <1>9, <1>10, <1>11, <1>12,
              <1>13, <1>14, <1>15, <1>16, <1>17, <1>18, <1>19, <1>20, <1>21, <1>22,
              <1>23, <1>24, <1>25, <1>26
      DEF RuntimeNext


(* The inductive invariant.                                                *)
RuntimeInv ==
    /\ ServerTypes /\ ProcTypes /\ PatchTypes /\ ToldTypes /\ HistoryTypes
    /\ OnList /\ OneUpgrade /\ DatabaseFound
    /\ ChangesServed /\ OverlayTold /\ RowWritten

LEMMA RuntimeInitially == RuntimeInit => RuntimeInv
  <1> SUFFICES ASSUME RuntimeInit
               PROVE  RuntimeInv
    OBVIOUS
  <1>1. ASSUME NEW p \in Processes
        PROVE  /\ proc[p] \in Process /\ proc[p].pc = "off" /\ proc[p].owes = {}
               /\ ~proc[p].healthy /\ proc[p].upgrade = "none"
    <2>1. PICK config \in [required : BOOLEAN, migrate : BOOLEAN] : proc[p] = Off(config)
      BY DEF RuntimeInit
    <2> QED  BY <2>1, OffIs
  <1>2. ProcTypes
    BY <1>1 DEF RuntimeInit, ProcTypes
  <1>3. Unset \in Overlay
    BY DEF Unset, Overlay
  <1>4. ServerTypes /\ PatchTypes /\ ToldTypes
    BY <1>3 DEF RuntimeInit, ServerTypes, PatchTypes, ToldTypes
  <1>5. HistoryTypes /\ history.upgrades = 0 /\ history.writer = Nobody
    BY DEF RuntimeInit, HistoryTypes
  <1>6. OnList /\ OneUpgrade
    BY <1>1, <1>5 DEF OnList, OneUpgrade
  <1>7. DatabaseFound /\ OverlayTold /\ RowWritten
    BY <1>1 DEF DatabaseFound, PastDatabase, OverlayTold, RowWritten, Settled, Loaded
  <1>8. ChangesServed
    BY DEF RuntimeInit, ChangesServed
  <1> QED  BY <1>2, <1>4, <1>5, <1>6, <1>7, <1>8 DEF RuntimeInv

LEMMA RuntimeStutters ==
    ASSUME RuntimeInv, UNCHANGED runtimeVars
    PROVE  RuntimeInv'
  <1>1. UNCHANGED <<server, proc, patch, told, history>>
    BY DEF runtimeVars
  <1>2. ServerTypes' /\ ProcTypes' /\ PatchTypes' /\ ToldTypes' /\ HistoryTypes'
    BY <1>1 DEF RuntimeInv, ServerTypes, ProcTypes, PatchTypes, ToldTypes, HistoryTypes
  <1>3. OnList' /\ OneUpgrade'
    BY <1>1 DEF RuntimeInv, OnList, OneUpgrade
  <1>4. DatabaseFound' /\ ChangesServed' /\ OverlayTold'
    BY <1>1 DEF RuntimeInv, DatabaseFound, PastDatabase, Config, ChangesServed,
        OverlayTold, Loaded
  <1>5. RowWritten'
    BY <1>1 DEF RuntimeInv, RowWritten, Settled, Loaded, SavedBy
  <1> QED  BY <1>2, <1>3, <1>4, <1>5 DEF RuntimeInv

LEMMA RuntimeSteps ==
    ASSUME RuntimeInv, RuntimeNext
    PROVE  RuntimeInv'
  <1>1. ServerTypes' /\ ProcTypes' /\ PatchTypes' /\ ToldTypes' /\ HistoryTypes'
    BY ServerTypesStep, ProcTypesStep, PatchTypesStep, ToldTypesStep, HistoryTypesStep
    DEF RuntimeInv
  <1>2. OnList' /\ OneUpgrade' /\ DatabaseFound'
    BY OnListStep, OneUpgradeStep, DatabaseFoundStep DEF RuntimeInv
  <1>3. ChangesServed' /\ OverlayTold' /\ RowWritten'
    BY ChangesServedStep, OverlayToldStep, RowWrittenStep DEF RuntimeInv
  <1> QED  BY <1>1, <1>2, <1>3 DEF RuntimeInv

(* Processes that start and stop agree with their server, and their        *)
(* settings with what was told and written, in every reachable state.      *)
THEOREM RuntimeInvariance == RuntimeSpec => []RuntimeInv
  <1>1. RuntimeInv /\ [RuntimeNext]_runtimeVars => RuntimeInv'
    BY RuntimeSteps, RuntimeStutters
  <1> QED  BY <1>1, RuntimeInitially, PTL DEF RuntimeSpec

LEMMA StopsAreClean ==
    ASSUME RuntimeInv
    PROVE  CleanStop
  <1> SUFFICES ASSUME NEW p \in Processes
               PROVE  /\ proc[p].pc = "off" => proc[p].owes = {} /\ ~proc[p].healthy
                      /\ proc[p].pc # "off" =>
                           proc[p].owes \subseteq {proc[p].started[i] : i \in DOMAIN proc[p].started}
    BY DEF CleanStop
  <1>1. DOMAIN proc[p].started = 1..Len(proc[p].started)
    OBVIOUS
  <1>2. \A n \in proc[p].owes : \E i \in 1..Len(proc[p].started) : proc[p].started[i] = n
    BY DEF RuntimeInv, OnList
  <1>3. proc[p].pc = "off" => proc[p].owes = {} /\ ~proc[p].healthy
    BY DEF RuntimeInv, OnList
  <1> QED  BY <1>1, <1>2, <1>3

LEMMA SettingsAgree ==
    ASSUME RuntimeInv
    PROVE  SettingsStand
  <1> SUFFICES ASSUME NEW p \in Processes, proc[p].pc = "serving"
               PROVE  /\ proc[p].overlay = told[p]
                      /\ history.writer = p /\ proc[p].healthy /\ ~history.doubt =>
                           \/ server.row = proc[p].overlay
                           \/ \E c \in Clients : patch[c].at = "saved" /\ patch[c].p = p
                                                 /\ server.row = patch[c].new
    BY DEF SettingsStand
  <1>1. proc[p].overlay = told[p]
    BY DEF RuntimeInv, OverlayTold, Loaded
  <1>2. ASSUME history.writer = p, proc[p].healthy, ~history.doubt
        PROVE  \/ server.row = proc[p].overlay
               \/ \E c \in Clients : patch[c].at = "saved" /\ patch[c].p = p
                                     /\ server.row = patch[c].new
    <2>1. Settled(p)
      BY <1>2 DEF Settled, Loaded
    <2>2. CASE SavedBy(p) = {}
      BY <2>1, <2>2 DEF RuntimeInv, RowWritten
    <2>3. CASE SavedBy(p) # {}
      <3>1. PICK c \in SavedBy(p) : TRUE
        BY <2>3
      <3>2. c \in Clients /\ patch[c].at = "saved" /\ patch[c].p = p
        BY <3>1 DEF SavedBy
      <3>3. server.row = patch[c].new
        BY <2>1, <3>1 DEF RuntimeInv, RowWritten
      <3> QED  BY <3>2, <3>3
    <2> QED  BY <2>2, <2>3
  <1> QED  BY <1>1, <1>2

(* main.py, lifecycle.py, settings.py: whatever fails, is cancelled or is  *)
(* killed, a lifespan that is over left nothing running, a process that    *)
(* serves found the database its configuration asks for, one upgrade was   *)
(* run, and the settings in force are those told to callers and written.   *)
THEOREM RuntimeIsWhole == RuntimeSpec => []RuntimeWhole
  <1>1. RuntimeInv => NeverHalf
    BY DEF RuntimeInv, OneUpgrade, DatabaseFound, PastDatabase, NeverHalf
  <1>2. RuntimeInv => RuntimeWhole
    BY <1>1, StopsAreClean, SettingsAgree DEF RuntimeWhole
  <1> QED  BY <1>2, RuntimeInvariance, PTL
=============================================================================
