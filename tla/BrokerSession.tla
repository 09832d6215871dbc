----------------------------- MODULE BrokerSession -----------------------------
(***************************************************************************)
(* The daily session with the broker: the morning login that obtains an    *)
(* access token and persists it (data/brokers/morning_auth.py, auth.py)    *)
(* through the file of secrets (core/secrets.py), and the process that     *)
(* takes the token up (apply_session_token of data/ingest/backfill_cli.py) *)
(* and whose threads fetch candles with it (data/brokers/kite.py), each    *)
(* call through the rate limiter.                                          *)
(*                                                                         *)
(* Tokens are numbered in the order in which the broker issued them.       *)
(***************************************************************************)
EXTENDS RateLimiter

CONSTANTS Writers,      \* processes that write secrets
          Names,        \* of the secrets, TokenName and ApiSecret among them
          TokenName, ApiSecret,
          EnvTokens,    \* what the environment may hold: None, or the token 0
                        \* issued before the session
          MaxTokens,    \* bound: tokens the broker issues
          None

ASSUME SessionAssumption ==
    /\ {TokenName, ApiSecret} \subseteq Names /\ TokenName # ApiSecret
    /\ MaxTokens \in Nat \ {0}
    /\ EnvTokens \subseteq {0, None} /\ None \notin Nat

VARIABLES issued,     \* the newest token: the broker refuses all others
          env,        \* the token in the environment
          file,       \* secrets.json: [whole, data: name -> value or None]
          tmp,        \* the one temporary file, the same
          writer,     \* writer -> [pc, name, value, data] of its set()
          kept,       \* history: name -> the value of the last set() that returned
          up,         \* whether the fetching process runs
          listed,     \* whether its instrument registry has the symbol
          client, store,  \* the token on the client and in the token store
          seeding,    \* the token of a seed_session() half done
          call        \* thread -> [pc, token, floor, alone]; the last two are history:
                      \* the store's token as it began, and whether no other overlapped

files   == <<file, tmp, writer, kept>>
process == <<up, listed, client, store, seeding, call>>
sessionVars == <<vars, issued, env, files, process>>

NoData == [n \in Names |-> None]
AtRest == [pc |-> "idle", name |-> TokenName, value |-> None, data |-> NoData]
NoCall == [pc |-> "idle", token |-> None, floor |-> None, alone |-> TRUE]

SessionInit ==
    /\ Init
    /\ issued = 0 /\ env \in EnvTokens
    /\ file = [whole |-> TRUE, data |-> [NoData EXCEPT ![ApiSecret] = 0]]
    /\ tmp = [whole |-> TRUE, data |-> NoData]
    /\ writer = [w \in Writers |-> AtRest] /\ kept = file.data
    /\ up = FALSE /\ listed \in BOOLEAN
    /\ client = None /\ store = None /\ seeding = None
    /\ call = [t \in Threads |-> NoCall]

------------------------------------------------------------------------------
(* Secrets.                                                                *)

\* EnvSecrets.get_optional: the environment first, then the file; a malformed
\* file raises.
GetOptional(name) == IF name = TokenName /\ env # None THEN env ELSE file.data[name]

SecretsReadable(name) == (name = TokenName /\ env # None) \/ file.whole

\* seed_and_persist up to secrets.set: the secret signs the exchange, and the
\* token before it is void.
Login(w) ==
    /\ writer[w].pc = "idle" /\ issued < MaxTokens
    /\ file.whole /\ GetOptional(ApiSecret) # None
    /\ issued' = issued + 1
    /\ writer' = [writer EXCEPT ![w] = [pc |-> "read", name |-> TokenName,
                                        value |-> issued + 1, data |-> NoData]]
    /\ UNCHANGED <<vars, env, file, tmp, kept, process>>

\* Any other use of Secrets.set.
SetSecret(w) ==
    /\ writer[w].pc = "idle"
    /\ kept[ApiSecret] = 0
    /\ writer' = [writer EXCEPT ![w] = [pc |-> "read", name |-> ApiSecret,
                                        value |-> 1, data |-> NoData]]
    /\ UNCHANGED <<vars, issued, env, file, tmp, kept, process>>

\* A slip the runs must notice: only the new secret is written.
ReadNothing(w) ==
    /\ writer[w].pc = "read" /\ file.whole
    /\ writer' = [writer EXCEPT ![w].pc = "open",
                                ![w].data = [NoData EXCEPT ![writer[w].name] = writer[w].value]]
    /\ UNCHANGED <<vars, issued, env, file, tmp, kept, process>>

\* FileSecretStore.set: all secrets are read and one is changed in memory ...
ReadAll(w) ==
    /\ writer[w].pc = "read" /\ file.whole
    /\ writer' = [writer EXCEPT ![w].pc = "open",
                                ![w].data = [file.data EXCEPT ![writer[w].name] = writer[w].value]]
    /\ UNCHANGED <<vars, issued, env, file, tmp, kept, process>>

\* ... the temporary file is opened and truncated, then full ...
OpenTmp(w) ==
    /\ writer[w].pc = "open"
    /\ tmp' = [tmp EXCEPT !.whole = FALSE]
    /\ writer' = [writer EXCEPT ![w].pc = "fill"]
    /\ UNCHANGED <<vars, issued, env, file, kept, process>>

FillTmp(w) ==
    /\ writer[w].pc = "fill"
    /\ tmp' = [whole |-> TRUE, data |-> writer[w].data]
    /\ writer' = [writer EXCEPT ![w].pc = "replace"]
    /\ UNCHANGED <<vars, issued, env, file, kept, process>>

\* ... and takes the place of the file.
Replace(w) ==
    /\ writer[w].pc = "replace"
    /\ file' = tmp
    /\ kept' = [kept EXCEPT ![writer[w].name] = writer[w].value]
    /\ writer' = [writer EXCEPT ![w] = AtRest]
    /\ UNCHANGED <<vars, issued, env, tmp, process>>

\* The writer dies, or one of its file operations raises.
WriterDies(w) ==
    /\ writer[w].pc # "idle"
    /\ writer' = [writer EXCEPT ![w] = AtRest]
    /\ UNCHANGED <<vars, issued, env, file, tmp, kept, process>>

------------------------------------------------------------------------------
(* The process.                                                            *)

\* build_adapter with a token that was persisted; without one it raises and
\* the process does not come up.
TakeUpToken ==
    /\ ~ up
    /\ SecretsReadable(TokenName) /\ GetOptional(TokenName) # None
    /\ up' = TRUE
    /\ client' = GetOptional(TokenName) /\ store' = client'
    /\ UNCHANGED <<vars, issued, env, files, listed, seeding, call>>

\* seed_session, at the start with a request token or in the running process:
\* the token is issued and set on the client, then in the store.
SeedClient ==
    /\ seeding = None /\ issued < MaxTokens /\ file.whole
    /\ issued' = issued + 1 /\ seeding' = issued + 1 /\ client' = issued + 1
    /\ UNCHANGED <<vars, env, files, up, listed, store, call>>

SeedStore ==
    /\ seeding # None
    /\ store' = seeding /\ seeding' = None /\ up' = TRUE
    /\ UNCHANGED <<vars, issued, env, files, listed, client, call>>

Calling == {t \in Threads : call[t].pc # "idle"}

\* fetch_historical: an unknown symbol raises before anything is asked of the
\* store or the limiter; then _ensure_authenticated reads the store.
BeginFetch(t) ==
    /\ up /\ listed /\ call[t].pc = "idle" /\ Len(granted) < MaxRequests
    /\ call' = [u \in Threads |->
          IF u = t THEN [pc |-> "read", token |-> store, floor |-> store,
                         alone |-> Calling = {}]
          ELSE [call[u] EXCEPT !.alone = FALSE]]
    /\ UNCHANGED <<vars, issued, env, files, up, listed, client, store, seeding>>

\* A slip the runs must notice: the token of the login is good for the day.
KeepToken(t) ==
    /\ call[t].pc = "read"
    /\ Request(t)
    /\ client' = IF client = None THEN call[t].token ELSE client
    /\ call' = [call EXCEPT ![t].pc = "limiter"]
    /\ UNCHANGED <<issued, env, files, up, listed, store, seeding>>

\* _ensure_authenticated sets what it read on the shared client, and acquire()
\* begins.
SetToken(t) ==
    /\ call[t].pc = "read"
    /\ Request(t)
    /\ client' = call[t].token
    /\ call' = [call EXCEPT ![t].pc = "limiter"]
    /\ UNCHANGED <<issued, env, files, up, listed, store, seeding>>

\* acquire(), one step of the limiter at a time.
Acquire(t) ==
    /\ call[t].pc = "limiter"
    /\ \/ (Lock(t) \/ Sleep(t) \/ Wake(t)) /\ UNCHANGED call
       \/ Grant(t) /\ call' = [call EXCEPT ![t].pc = "send"]
    /\ UNCHANGED <<issued, env, files, up, listed, client, store, seeding>>

\* historical_data() with the token that is on the client by now; the broker
\* refuses one that is not the newest, which raises.
Send(t) ==
    /\ call[t].pc = "send"
    /\ call' = [call EXCEPT ![t] = NoCall]
    /\ UNCHANGED <<vars, issued, env, files, up, listed, client, store, seeding>>

TimePasses == Tick /\ UNCHANGED <<issued, env, files, process>>

SessionNext ==
    \/ \E w \in Writers : \/ Login(w) \/ SetSecret(w) \/ ReadAll(w) \/ OpenTmp(w)
                          \/ FillTmp(w) \/ Replace(w) \/ WriterDies(w)
    \/ TakeUpToken \/ SeedClient \/ SeedStore
    \/ \E t \in Threads : BeginFetch(t) \/ SetToken(t) \/ Acquire(t) \/ Send(t)
    \/ TimePasses

SessionSpec == SessionInit /\ [][SessionNext]_sessionVars

------------------------------------------------------------------------------
(* Properties.                                                             *)

\* Whatever dies in whatever step, the file of secrets can be read and holds
\* every secret as the last set() that returned left it.
SecretsSurvive == file.whole /\ file.data = kept

\* "A refreshed token is picked up transparently on the next call": a call that
\* no other call overlaps is sent with a token no older than the store's when it
\* began.
LoneCallIsFresh ==
    \A t \in Threads : call[t].pc = "send" /\ call[t].alone => client >= call[t].floor
===============================================================================
