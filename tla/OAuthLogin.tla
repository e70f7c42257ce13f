----------------------------- MODULE OAuthLogin -----------------------------
(***************************************************************************)
(* The ChatGPT/Codex login of the runtime (services/oauth): its tokens in  *)
(* memory, their copy in the database, the auth file of the Codex CLI, and *)
(* the requests that change them under one lock (_auth_lock) while the     *)
(* device flow polls and anybody may look at the session without the lock. *)
(*                                                                         *)
(* A token stands for an access token with its refresh token: it is fresh, *)
(* then within the refresh buffer, then expired.  A refresh token can be   *)
(* used once: the provider answers the next use with an error.  Emails,    *)
(* accounts and encryption are left out; the service is configured.        *)
(***************************************************************************)
EXTENDS Naturals, FiniteSets

CONSTANTS
    Callers,    \* requests in flight at a time
    MaxTokens,  \* bound: tokens issued
    MaxStops    \* bound: restarts of the process

ASSUME LoginAssumption == /\ MaxTokens \in Nat /\ MaxStops \in Nat
                          /\ {"free", "poll"} \cap Callers = {}     \* see authLock

VARIABLES
    held,          \* the token in memory, 0 for none
    source,        \* _auth_source
    persisted,     \* _token_persisted
    flow,          \* _device_code_status
    poll,          \* _poll_task: where it stands
    authLock,      \* who holds _auth_lock
    call,          \* [Callers -> what it does]
    up,            \* the process: "loading", "refreshing", "saving", "syncing", "running"
    saved,         \* the row of kind "login", 0 for none
    cliLogin,      \* the token in the auth file, 0 for none
    age,           \* [Tokens -> "fresh", "aging", "expired"]
    tokensIssued,  \* tokens issued so far
    spent,         \* tokens whose refresh token was used
    ours,          \* history: those the runtime used
    gone,          \* history: what the last disconnect promised
    blind,         \* history: a load could not read the auth file
    stops          \* restarts so far

memoryVars == <<held, source, persisted, flow>>
providerVars == <<age, tokensIssued, spent, ours>>
loginVars == <<memoryVars, poll, authLock, call, up, saved, cliLogin, providerVars,
               gone, blind, stops>>

Tokens == 1..MaxTokens
Unclaimed == "free"
Polling == "poll"
Resting == [kind |-> "none", step |-> "idle"]

(* needs_refresh, _is_access_token_expired, get_codex_session              *)
NeedsRefresh(t) == t = 0 \/ age[t] # "fresh"
Usable(t) == t # 0 /\ age[t] # "expired"

Issue == /\ tokensIssued < MaxTokens
         /\ tokensIssued' = tokensIssued + 1

(* _reload_codex_cli_auth: an unusable file leaves the tokens as they are. *)
Reloaded == IF cliLogin # 0 THEN cliLogin ELSE held

-----------------------------------------------------------------------------
(* The world: tokens age, the CLI rotates its token or logs in or out.     *)

(* A token lives much longer than a request takes; the age of one nobody   *)
(* has is not followed.                                                    *)
Age(t) ==
    /\ t \in {held, saved, cliLogin} /\ age[t] # "expired"
    /\ authLock = Unclaimed /\ up = "running"
    /\ age' = [age EXCEPT ![t] = IF @ = "fresh" THEN "aging" ELSE "expired"]
    /\ UNCHANGED <<memoryVars, poll, authLock, call, up, saved, cliLogin, tokensIssued, spent, ours,
                   gone, blind, stops>>

CliRotates ==
    /\ Issue
    /\ cliLogin' = tokensIssued + 1
    /\ spent' = spent \cup (IF cliLogin = 0 THEN {} ELSE {cliLogin})
    /\ UNCHANGED <<memoryVars, poll, authLock, call, up, saved, age, ours, gone, blind, stops>>

CliLogsOut ==
    /\ cliLogin # 0 /\ cliLogin' = 0
    /\ UNCHANGED <<memoryVars, poll, authLock, call, up, saved, providerVars, gone, blind, stops>>

(* Whoever asks for a session or the status reloads the CLI's tokens.      *)
GetCodexSession ==
    /\ up = "running" /\ source = "codex_cli" /\ NeedsRefresh(held)
    /\ held' = Reloaded
    /\ UNCHANGED <<source, persisted, flow, poll, authLock, call, up, saved, cliLogin,
                   providerVars, gone, blind, stops>>

-----------------------------------------------------------------------------
(* Requests.                                                               *)

Enter(c, kind, step) == /\ up = "running" /\ authLock = Unclaimed /\ call[c].step = "idle"
                        /\ call' = [call EXCEPT ![c] = [kind |-> kind, step |-> step]]
                        /\ authLock' = c
LeaveLock(c) == /\ call' = [call EXCEPT ![c] = Resting]
                /\ authLock' = Unclaimed

(* _cancel_polling: who holds the lock finds the poll at an await of its   *)
(* own, or waiting for the lock.                                           *)
BugCancelPolling == poll' = IF poll = "granted" THEN poll ELSE "none"   \* Mutant: not while it waits.
CancelPolling == poll' = "none"

InitiateDeviceCode(c) ==
    /\ Enter(c, "initiate", "device")
    /\ CancelPolling
    /\ UNCHANGED <<memoryVars, up, saved, cliLogin, providerVars, gone, blind, stops>>

DeviceCodeIssued(c) ==
    /\ call[c].step = "device"
    /\ flow' = "polling" /\ poll' = "polling" /\ gone' = "no"
    /\ LeaveLock(c)
    /\ UNCHANGED <<held, source, persisted, up, saved, cliLogin, providerVars, blind, stops>>

DeviceCodeRefused(c) ==
    /\ call[c].step = "device"
    /\ LeaveLock(c)
    /\ UNCHANGED <<memoryVars, poll, up, saved, cliLogin, providerVars, gone, blind, stops>>

(* refresh: the CLI owns its chain, so its file is read instead.           *)
RefreshOfCli(c) ==
    /\ up = "running" /\ authLock = Unclaimed /\ call[c].step = "idle" /\ source = "codex_cli"
    /\ held' = Reloaded
    /\ UNCHANGED <<source, persisted, flow, poll, authLock, call, up, saved, cliLogin,
                   providerVars, gone, blind, stops>>

Refresh(c) ==
    /\ source # "codex_cli" /\ held # 0
    /\ Enter(c, "refresh", "posted")
    /\ UNCHANGED <<memoryVars, poll, up, saved, cliLogin, providerVars, gone, blind, stops>>

(* The provider takes the refresh token, and its answer may be lost.       *)
Spend(t) == /\ t \notin spent
            /\ spent' = spent \cup {t} /\ ours' = ours \cup {t}

RefreshAnswered(c) ==
    /\ call[c].step = "posted"
    /\ Spend(held) /\ Issue
    /\ held' = tokensIssued + 1 /\ persisted' = FALSE
    /\ call' = [call EXCEPT ![c].step = "saving"]
    /\ UNCHANGED <<source, flow, poll, authLock, up, saved, cliLogin, age, gone, blind, stops>>

RefreshFailed(c) ==
    /\ call[c].step = "posted"
    /\ \/ Spend(held)
       \/ UNCHANGED <<spent, ours>>
    /\ LeaveLock(c)
    /\ UNCHANGED <<memoryVars, poll, up, saved, cliLogin, age, tokensIssued, gone, blind, stops>>

(* _save_token: best effort; a commit whose answer is lost may be there.   *)
SaveToken == \/ persisted' = TRUE /\ saved' = held
             \/ persisted' = FALSE /\ saved' \in {saved, held}

RefreshSaved(c) ==
    /\ call[c].step = "saving" /\ SaveToken
    /\ LeaveLock(c)
    /\ UNCHANGED <<held, source, flow, poll, up, cliLogin, providerVars, gone, blind, stops>>

(* sync_from_codex_cli, also at a start (auto sync).                       *)
SyncUnreadable(c) ==
    /\ up = "running" /\ authLock = Unclaimed /\ call[c].step = "idle"
    /\ CancelPolling
    /\ UNCHANGED <<memoryVars, authLock, call, up, saved, cliLogin, providerVars, gone, blind, stops>>

SyncFromCodexCli(c) ==
    /\ cliLogin # 0
    /\ Enter(c, "sync", "unsaving") /\ CancelPolling
    /\ held' = cliLogin /\ gone' = "no"
    /\ UNCHANGED <<source, persisted, flow, up, saved, cliLogin, providerVars, blind, stops>>

(* _delete_stored_token: TRUE only when no saved login remains.            *)
DeleteStoredToken(confirmed) ==
    \/ confirmed /\ saved' = 0
    \/ ~confirmed /\ saved' \in {saved, 0}

HoldsCli == /\ persisted' = FALSE /\ source' = "codex_cli" /\ flow' = "authorized"

Synced(c) ==
    /\ call[c].step = "unsaving"
    /\ \E confirmed \in BOOLEAN : DeleteStoredToken(confirmed)
    /\ HoldsCli
    /\ LeaveLock(c)
    /\ UNCHANGED <<held, poll, up, cliLogin, providerVars, gone, blind, stops>>

Disconnect(c) ==
    /\ Enter(c, "disconnect", "deleting") /\ CancelPolling
    /\ held' = 0 /\ source' = "none" /\ persisted' = FALSE /\ flow' = "idle"
    /\ gone' = "cleared"
    /\ UNCHANGED <<up, saved, cliLogin, providerVars, blind, stops>>

Disconnected(c) ==
    /\ call[c].step = "deleting"
    /\ \E confirmed \in BOOLEAN :
          /\ DeleteStoredToken(confirmed)
          /\ gone' = IF confirmed THEN "deleted" ELSE gone
    /\ LeaveLock(c)
    /\ UNCHANGED <<memoryVars, poll, up, cliLogin, providerVars, blind, stops>>

-----------------------------------------------------------------------------
(* _poll_for_token.                                                        *)

PollGranted ==
    /\ poll = "polling" /\ poll' = "granted"
    /\ UNCHANGED <<memoryVars, authLock, call, up, saved, cliLogin, providerVars, gone, blind, stops>>

PollEnds(status) ==
    /\ poll = "polling" /\ poll' = "none" /\ flow' = status
    /\ UNCHANGED <<held, source, persisted, authLock, call, up, saved, cliLogin, providerVars,
                   gone, blind, stops>>

PollExchanges ==
    /\ poll = "granted" /\ authLock = Unclaimed
    /\ poll' = "exchanging" /\ authLock' = Polling
    /\ UNCHANGED <<memoryVars, call, up, saved, cliLogin, providerVars, gone, blind, stops>>

ExchangeFailed ==
    /\ poll = "exchanging"
    /\ poll' = "none" /\ authLock' = Unclaimed /\ flow' = "error"
    /\ UNCHANGED <<held, source, persisted, call, up, saved, cliLogin, providerVars, gone, blind, stops>>

Exchanged ==
    /\ poll = "exchanging" /\ Issue
    /\ held' = tokensIssued + 1 /\ persisted' = FALSE /\ poll' = "saving"
    /\ UNCHANGED <<source, flow, authLock, call, up, saved, cliLogin, age, spent, ours,
                   gone, blind, stops>>

PollSaved ==
    /\ poll = "saving" /\ SaveToken
    /\ source' = "device_code" /\ flow' = "authorized"
    /\ poll' = "none" /\ authLock' = Unclaimed
    /\ UNCHANGED <<held, call, up, cliLogin, providerVars, gone, blind, stops>>

-----------------------------------------------------------------------------
(* start: the stored login, unless it is a copy of the CLI's; else a sync. *)

Stop ==
    /\ stops < MaxStops /\ stops' = stops + 1
    /\ up' = "loading" /\ poll' = "none" /\ authLock' = Unclaimed
    /\ call' = [c \in Callers |-> Resting]
    /\ held' = 0 /\ source' = "none" /\ persisted' = FALSE /\ flow' = "idle"
    /\ gone' = IF gone = "deleted" THEN gone ELSE "no"
    /\ UNCHANGED <<saved, cliLogin, providerVars, blind>>

(* _codex_cli_login: None when the file cannot be read.                    *)
BugCopyOfCli(readable) == FALSE   \* Mutant: a stored copy is taken for the runtime's own.
CopyOfCli(readable) == readable /\ cliLogin # 0 /\ saved = cliLogin

LoadStoredToken(readable) ==
    /\ up = "loading"
    /\ blind' = (blind \/ ~readable)
    /\ \/ up' = "syncing" /\ UNCHANGED <<memoryVars, saved>>     \* none, or out of reach
       \/ /\ saved # 0 /\ CopyOfCli(readable)
          /\ held' = cliLogin /\ source' = "codex_cli" /\ flow' = "authorized"
          /\ \/ saved' = 0 /\ up' = "running"
             \/ saved' = saved /\ up' = "syncing"        \* the deletion is not committed
          /\ UNCHANGED persisted
       \/ /\ saved # 0 /\ ~CopyOfCli(readable)
          /\ held' = saved
          /\ IF NeedsRefresh(saved)
             THEN up' = "refreshing" /\ UNCHANGED <<source, persisted, flow>>
             ELSE /\ up' = "running" /\ persisted' = TRUE
                  /\ source' = "database" /\ flow' = "authorized"
          /\ UNCHANGED saved
    /\ UNCHANGED <<poll, authLock, call, cliLogin, providerVars, gone, stops>>

LoadRefreshed ==
    /\ up = "refreshing"
    /\ \/ Spend(held) /\ Issue /\ held' = tokensIssued + 1 /\ up' = "saving"
       \/ Spend(held) /\ up' = "syncing" /\ UNCHANGED <<held, tokensIssued>>
       \/ up' = "syncing" /\ UNCHANGED <<held, tokensIssued, spent, ours>>
    /\ UNCHANGED <<source, persisted, flow, poll, authLock, call, saved, cliLogin, age,
                   gone, blind, stops>>

LoadSaved ==
    /\ up = "saving" /\ SaveToken
    /\ up' = "running" /\ source' = "database" /\ flow' = "authorized"
    /\ UNCHANGED <<held, poll, authLock, call, cliLogin, providerVars, gone, blind, stops>>

AutoSync ==
    /\ up = "syncing" /\ up' = "running"
    /\ \/ /\ cliLogin # 0 /\ held' = cliLogin /\ gone' = "no"
          /\ \E confirmed \in BOOLEAN : DeleteStoredToken(confirmed)
          /\ HoldsCli
       \/ UNCHANGED <<memoryVars, saved, gone>>          \* unreadable
    /\ UNCHANGED <<poll, authLock, call, cliLogin, providerVars, blind, stops>>

-----------------------------------------------------------------------------

(* An earlier version also stored copies of the CLI's login.               *)
LoginInit ==
    /\ held = 0 /\ source = "none" /\ persisted = FALSE /\ flow = "idle"
    /\ poll = "none" /\ authLock = Unclaimed /\ call = [c \in Callers |-> Resting]
    /\ up = "loading" /\ gone = "no" /\ blind = FALSE /\ stops = 0
    /\ spent = {} /\ ours = {}
    /\ \/ saved = 0 /\ cliLogin = 0 /\ tokensIssued = 0
       \/ saved \in {0, 1} /\ cliLogin \in {1, 2} /\ tokensIssued = cliLogin
    /\ age \in {[t \in Tokens |-> IF t <= tokensIssued THEN a ELSE "fresh"] : a \in {"fresh", "aging"}}

CallerNext(c) ==
    \/ InitiateDeviceCode(c) \/ DeviceCodeIssued(c) \/ DeviceCodeRefused(c)
    \/ RefreshOfCli(c) \/ Refresh(c) \/ RefreshAnswered(c) \/ RefreshFailed(c) \/ RefreshSaved(c)
    \/ SyncUnreadable(c) \/ SyncFromCodexCli(c) \/ Synced(c)
    \/ Disconnect(c) \/ Disconnected(c)

LoginNext ==
    \/ \E t \in Tokens : Age(t)
    \/ CliRotates \/ CliLogsOut \/ GetCodexSession
    \/ \E c \in Callers : CallerNext(c)
    \/ PollGranted \/ PollExchanges \/ ExchangeFailed \/ Exchanged \/ PollSaved
    \/ \E status \in {"error", "expired"} : PollEnds(status)
    \/ Stop \/ LoadRefreshed \/ LoadSaved \/ AutoSync
    \/ \E readable \in BOOLEAN : LoadStoredToken(readable)

-----------------------------------------------------------------------------

(* A disconnect is final: until somebody logs in again no token comes back *)
(* into memory, neither from a device flow that was just granted nor from  *)
(* a refresh, and after a confirmed deletion none comes back at a restart. *)
DisconnectIsFinal ==
    /\ gone # "no" => held = 0 /\ source = "none" /\ poll = "none"
    /\ gone = "deleted" => saved = 0

(* The runtime never uses the refresh token the Codex CLI holds: it works  *)
(* once, and the CLI would be stranded.  Left out: a stored copy that is   *)
(* loaded while the auth file cannot be read (blind).                      *)
CliTokenUntouched == cliLogin \in ours => blind

(* What the status calls persisted is what a restart would load.           *)
PersistedIsStored == persisted /\ authLock = Unclaimed => saved = held

LoginSafe == DisconnectIsFinal /\ CliTokenUntouched /\ PersistedIsStored
=============================================================================
