----------------------------- MODULE Deployment -----------------------------
(***************************************************************************)
(* The scripts that put the contracts on the network and remember them in  *)
(* deployments.json: setup-identities.ts for the accounts, deploy.ts for   *)
(* the demo pool, deploy-marketplace.ts for the pools of the marketplace,  *)
(* e2e.ts to try the demo pool out, self-serve-smoke.ts to be accredited   *)
(* and to subscribe in the first pool, and the ledger the indexer then     *)
(* starts from.                                                            *)
(*                                                                         *)
(* Each is a list of steps: look at the chain, send a transaction unless   *)
(* it is not needed, wait for it, and write the registry.  A script may    *)
(* die between any two of these, by a crash, a timeout or a refused        *)
(* request, and the transaction it was sending may settle afterwards.      *)
(* What it left is what the next run starts from.  Scripts run one at a    *)
(* time.                                                                   *)
(***************************************************************************)
EXTENDS Integers, Sequences, FiniteSetsExt

CONSTANTS
  Market,           \* the marketplace's pools, in order
  Amount,           \* what the scripts subscribe in each pool
  Target,           \* what they mint its investor up to
  MaxContracts, MaxRuns, MaxInterruptions, MaxRebuilds   \* bounds

Demo  == "demo"
Pools == {Demo} \cup {Market[i] : i \in DOMAIN Market}

\* The names of the pools differ (POOLS).
ASSUME MarketAssumption ==
  /\ Market \in Seq(STRING)
  /\ \A i, j \in DOMAIN Market : i # j => Market[i] # Market[j]
  /\ \A i \in DOMAIN Market : Market[i] # Demo

ASSUME AmountAssumption ==
  /\ Amount \in [Pools -> Nat \ {0}]
  /\ Target \in [Pools -> Nat]
  /\ \A p \in Pools : Target[p] >= Amount[p]

\* Addresses are pairs; contracts are numbered in the order of deployment,
\* and the number stands for the ledger of the deployment as well.
Nobody      == <<"nobody", 0>>
Deployer    == <<"deployer", 0>>
Issuer(p)   == <<"issuer", p>>
Investor(p) == <<"investor", p>>
Contract(n) == <<"contract", n>>

TestIssuer == Issuer(Demo)

\* test-issuer and test-investor are the demo pool's.
SetupAccounts == {Deployer, TestIssuer, Investor(Demo)}

Accounts == {Deployer} \cup {Issuer(p) : p \in Pools} \cup {Investor(p) : p \in Pools}

\* Names in the registry.
Usdc     == <<"usdc", Demo>>
Token(p) == <<"token", p>>
Pool(p)  == <<"pool", p>>
Names    == {Usdc} \cup {Token(p) : p \in Pools} \cup {Pool(p) : p \in Pools}

Kind(name) == IF name[1] = "pool" THEN "pool" ELSE "token"

VARIABLES
  contracts,        \* the chain: every contract ever deployed
  code,             \* the version of each kind the working tree builds
  keys,             \* the command line's accounts, and whether they are funded
  registry,         \* deployments.json
  filed,            \* the pools whose trial leaf is in the accreditation file
  run,              \* the running script
  late,             \* transactions whose script has died
  times             \* bound: runs, interruptions and rebuilds so far

vars == <<contracts, code, keys, registry, filed, run, late, times>>

NoId == 0

Init ==
  /\ contracts = << >>
  /\ code = [kind \in {"token", "pool"} |-> 1]
  /\ keys \in {[a \in Accounts |-> "none"], [a \in Accounts |-> "funded"]}
  /\ filed = {}
  /\ registry = [accounts |-> {a \in SetupAccounts : keys[a] = "funded"},
                 ids   |-> [name \in Names |-> NoId],
                 wasm  |-> [name \in Names |-> 0],
                 pools |-> [p \in Pools |-> NoId],
                 \* poolpassDeploy and the like: the ledger.
                 deployed |-> [p \in Pools |-> 0],
                 smoked   |-> [p \in Pools |-> FALSE],
                 \* e2eRootUpdate, e2eSubscribe with its pool, e2eReplay
                 rooted     |-> FALSE,
                 subscribed |-> NoId,
                 replayed   |-> FALSE,
                 \* History: the contracts that were ever in the file.
                 ever       |-> {}]
  /\ run = [script |-> "none", outcome |-> "none"]
  /\ late = {}
  \* Unfinished: history, scripts that deploy and did not get to their end.
  /\ times = [runs |-> 0, interruptions |-> 0, rebuilds |-> 0, unfinished |-> {}]

-----------------------------------------------------------------------------
(* The contracts, as far as the scripts go. *)

Uninitialized(kind) ==
  [kind |-> kind, version |-> code[kind], admin |-> Nobody,
   balance |-> [a \in Accounts |-> 0],
   usdc |-> NoId, token |-> NoId, epoch |-> 0, roster |-> "none", spent |-> {}]

AdmitsSubscription(op) ==
  LET pool == contracts[op.id]
  IN  /\ pool.admin # Nobody
      /\ op.epoch = pool.epoch
      /\ op.roster = pool.roster
      /\ <<op.by, op.epoch>> \notin pool.spent
      /\ contracts[pool.usdc].balance[op.by] >= Amount[op.pool]
      /\ contracts[pool.token].admin = Contract(op.id)

\* The admin of a token mints and hands its office on; a pool's is its issuer.
Admits(op) ==
  /\ keys[op.by] = "funded"
  /\ CASE op.do = "deploy"     -> TRUE
       [] op.do = "initialize" -> contracts[op.id].admin = Nobody
       [] op.do = "subscribe"  -> AdmitsSubscription(op)
       [] OTHER                -> contracts[op.id].admin = op.by

After(op) ==
  CASE op.do = "deploy" ->
         Append(contracts, Uninitialized(Kind(op.name)))
    [] op.do = "initialize" ->
         [contracts EXCEPT ![op.id].admin = op.by, ![op.id].usdc = op.usdc,
                           ![op.id].token = op.token]
    [] op.do = "set_admin" ->
         [contracts EXCEPT ![op.id].admin = op.to]
    [] op.do = "update_accredited_set" ->
         [contracts EXCEPT ![op.id].epoch = @ + 1, ![op.id].roster = op.roster]
    [] op.do = "mint" ->
         [contracts EXCEPT ![op.id].balance[op.to] = @ + op.amount]
    [] op.do = "subscribe" ->
         [contracts EXCEPT ![contracts[op.id].usdc].balance[op.by] =
                                @ - Amount[op.pool],
                           ![op.id].spent = @ \cup {<<op.by, op.epoch>>}]

-----------------------------------------------------------------------------
(* The scripts. *)

Step(do, p, name) == [do |-> do, pool |-> p, name |-> name]

\* ensureIdentities, and what it found goes into the registry.
SetupScript ==
  <<Step("identity", Demo, Deployer), Step("identity", Demo, TestIssuer),
    Step("identity", Demo, Investor(Demo)), Step("accounts", Demo, Usdc)>>

DeployScript ==
  <<Step("deploy", Demo, Usdc), Step("deploy", Demo, Token(Demo)),
    Step("deploy", Demo, Pool(Demo)),
    Step("initialize", Demo, Usdc), Step("initialize", Demo, Token(Demo)),
    Step("initialize", Demo, Pool(Demo)),
    Step("set_admin", Demo, Token(Demo)), Step("mint", Demo, Usdc)>>

MarketSteps(p) ==
  <<Step("deploy", p, Token(p)), Step("initialize", p, Token(p)),
    Step("deploy", p, Pool(p)), Step("initialize", p, Pool(p)),
    Step("set_admin", p, Token(p)),
    Step("update_accredited_set", p, Pool(p)),
    Step("mint", p, Usdc), Step("subscribe", p, Pool(p))>>

MarketIdentities ==
  <<Step("identity", Demo, Deployer), Step("identity", Demo, TestIssuer)>>
    \o [i \in 1..(2 * Len(Market)) |->
         LET p == Market[(i + 1) \div 2]
         IN  Step("identity", p, IF i % 2 = 1 THEN Issuer(p) ELSE Investor(p))]

\* Eight steps per pool.
MarketPools ==
  [i \in 1..(8 * Len(Market)) |->
     MarketSteps(Market[((i - 1) \div 8) + 1])[((i - 1) % 8) + 1]]

MarketScript ==
  MarketIdentities
    \o <<Step("accounts", Demo, Usdc),
         Step("deploy", Demo, Usdc), Step("initialize", Demo, Usdc)>>
    \o MarketPools

E2EScript ==
  <<Step("update_accredited_set", Demo, Pool(Demo)),
    Step("subscribe", Demo, Pool(Demo)), Step("replay", Demo, Pool(Demo))>>

IsPublished == \E p \in Pools : registry.pools[p] # NoId

\* The pool of the trial.
ActivePool == IF IsPublished THEN Market[1] ELSE Demo

SmokeScript ==
  <<Step("update_accredited_set", ActivePool, Pool(ActivePool)),
    Step("mint", ActivePool, Usdc), Step("subscribe", ActivePool, Pool(ActivePool))>>

StepsOf(script) ==
  CASE script = "setup"  -> SetupScript
    [] script = "smoke"  -> SmokeScript
    [] script = "deploy" -> DeployScript
    [] script = "market" -> MarketScript
    [] script = "e2e"    -> E2EScript

Here == StepsOf(run.script)[run.at]

\* What a name stands for in the running script.
IdOf(name) ==
  IF run.script = "smoke" /\ IsPublished /\ name = Pool(ActivePool)
  THEN registry.pools[ActivePool] ELSE registry.ids[name]

At(name)   == contracts[IdOf(name)]

\* The visitor of the trial is the deployer's account.
Subscriber(step) ==
  IF run.script = "smoke" THEN Deployer ELSE Investor(step.pool)

Signer(step) ==
  CASE step.do = "deploy" -> Deployer
    [] step.do = "initialize" /\ step.name[1] = "token" -> Deployer
    [] step.do = "set_admin" -> Deployer
    [] step.do \in {"subscribe", "replay"} -> Subscriber(step)
    [] step.do \in {"initialize", "mint"} /\ step.name = Usdc -> TestIssuer
    [] OTHER -> Issuer(step.pool)

Shortfall(step) == Target[step.pool] - At(Usdc).balance[Subscriber(step)]

\* The trial asks the faucet for what it will pay.
MintAmount(step) ==
  IF run.script = "smoke" THEN Amount[step.pool] ELSE Shortfall(step)

\* The leaves a script commits, and proves to be in.
RosterOf(script) ==
  CASE script = "e2e"    -> "fixture"
    [] script = "market" -> "seeded"
    [] script = "smoke"  -> "filed"

\* A proof is made for the epoch that is read, but e2e.ts has one from a file
\* and the trial was told it when it was accredited.
EpochOfProof(step) ==
  CASE run.script = "e2e"    -> 1
    [] run.script = "smoke"  -> run.told
    [] run.script = "market" -> At(step.name).epoch

Transaction(step) ==
  [do |-> step.do, pool |-> step.pool, name |-> step.name,
   by |-> Signer(step), id |-> IdOf(step.name),
   usdc   |-> IF Kind(step.name) = "pool" THEN IdOf(Usdc) ELSE NoId,
   token  |-> IF Kind(step.name) = "pool" THEN IdOf(Token(step.pool)) ELSE NoId,
   to     |-> IF step.do = "set_admin" THEN Contract(IdOf(Pool(step.pool)))
              ELSE Subscriber(step),
   amount |-> IF step.do = "mint" THEN MintAmount(step) ELSE 0,
   epoch  |-> IF step.do = "subscribe" THEN EpochOfProof(step) ELSE 0,
   roster |-> IF step.do \in {"update_accredited_set", "subscribe"}
              THEN RosterOf(run.script) ELSE "none"]

\* shouldReuseContract; contracts stay live
Reuses(name) ==
  IdOf(name) # NoId /\ registry.wasm[name] = code[Kind(name)]

\* What a script that trusted the registry instead would leave out.
NotNeededByRegistry(step) ==
  CASE step.do = "deploy" -> Reuses(step.name)
    [] step.do = "mint"   -> Shortfall(step) <= 0
    [] OTHER              -> Reuses(step.name) /\ step.name \notin run.fresh

NotNeededUnlessNew(step) ==
  CASE step.do = "deploy" -> Reuses(step.name)
    [] step.do = "mint"   -> Shortfall(step) <= 0
    [] OTHER              -> FALSE

\* deploy.ts asks the chain before it initializes, hands over or mints.
NotNeededByDeploy(step) ==
  CASE step.do = "deploy"     -> Reuses(step.name)
    [] step.do = "initialize" -> At(step.name).admin # Nobody
    [] step.do = "set_admin"  ->
         At(step.name).admin = Contract(IdOf(Pool(step.pool)))
    [] step.do = "mint"       -> Shortfall(step) <= 0

\* deploy-marketplace.ts initializes the mock USDC only when it deployed it.
NotNeededByMarket(step) ==
  CASE step.do = "mint" -> Shortfall(step) <= 0
    [] step.do # "mint" /\ step.name = Usdc ->
         IdOf(Usdc) # NoId /\ Usdc \notin run.fresh
    [] OTHER            -> FALSE

NotNeededByE2E(step) ==
  CASE step.do = "update_accredited_set" -> At(step.name).epoch # 0
    [] step.do = "subscribe"             -> At(step.name).spent # {}
    [] step.do = "replay"                -> registry.replayed

NotNeeded(step) ==
  IF step.do = "identity" THEN keys[step.name] # "none"
  ELSE IF step.do = "accounts" THEN FALSE
  ELSE CASE run.script = "smoke"  -> FALSE
         [] run.script = "deploy" -> NotNeededByDeploy(step)
         [] run.script = "market" -> NotNeededByMarket(step)
         [] run.script = "e2e"    -> NotNeededByE2E(step)

DemoIsUp ==
  /\ NoId \notin {IdOf(Usdc), IdOf(Token(Demo)), IdOf(Pool(Demo))}
  /\ At(Pool(Demo)).admin # Nobody

\* Of whom the registry does not know: registry.accounts[source].publicKey.
Unregistered(step) ==
  /\ step.do \notin {"identity", "accounts"}
  /\ step.do = "deploy" \/ IdOf(step.name) # NoId
  /\ \/ step.do = "mint" /\ Subscriber(step) \notin registry.accounts
     \/ ~NotNeeded(step) /\ Signer(step) \notin registry.accounts

\* e2e.ts wants the demo pool, the fixture roster in epoch 1, evidence of a
\* subscription and, in the run that made it, the registered tokens to have
\* moved.
RefusesE2E(step) ==
  /\ run.script = "e2e"
  /\ CASE step.do = "update_accredited_set" ->
            ~DemoIsUp \/ Investor(Demo) \notin registry.accounts
       [] step.do = "subscribe" ->
            At(step.name).epoch # 1 \/ At(step.name).roster # "fixture"
       [] step.do = "replay" ->
            \/ registry.subscribed = NoId
            \/ /\ step.name \in run.fresh
               /\ \/ At(step.name).usdc # IdOf(Usdc)
                  \/ At(step.name).token # IdOf(Token(Demo))

\* The trial wants a pool, and a leaf that is not in the file: 409.
RefusesSmoke(step) ==
  /\ run.script = "smoke"
  /\ step.do = "update_accredited_set"
  /\ IdOf(step.name) = NoId \/ step.pool \in filed

\* assertFunded
RefusesSetup(step) ==
  /\ run.script = "setup"
  /\ step.do = "accounts"
  /\ \E a \in SetupAccounts : keys[a] # "funded"

Refuses(step) ==
  \/ RefusesE2E(step) \/ RefusesSmoke(step) \/ RefusesSetup(step)
  \/ Unregistered(step)

-----------------------------------------------------------------------------
(* A run. *)

Ended(outcome) == [script |-> "none", outcome |-> outcome]

Running == run.script # "none"

Verified ==
  registry.rooted /\ registry.subscribed # NoId /\ registry.replayed

\* The trial with its evidence does not even ask whether it was this pool's.
Recorded(script) ==
  \/ script = "e2e" /\ Verified
  \/ script = "smoke" /\ registry.smoked[ActivePool]

\* With complete evidence e2e.ts only looks its transactions up again.
Start(script) ==
  /\ ~Running
  /\ times.runs < MaxRuns
  /\ times' = [times EXCEPT !.runs = @ + 1,
                            !.unfinished = @ \cup ({script} \cap {"deploy", "market"})]
  /\ run' = [script    |-> script,
             at        |-> IF Recorded(script) THEN Len(StepsOf(script)) + 1 ELSE 1,
             doing     |-> "look",
             op        |-> << >>,
             got       |-> NoId,        \* the id the deployment printed
             told      |-> 0,           \* the epoch in the reply to /accredit
             fresh     |-> {},          \* what this run deployed or tried out
             overtaken |-> FALSE]       \* a late transaction settled meanwhile
  /\ UNCHANGED <<contracts, code, keys, registry, filed, late>>

Looking == Running /\ run.doing = "look" /\ run.at \in DOMAIN StepsOf(run.script)

PassOver ==
  /\ Looking
  /\ ~Refuses(Here)
  /\ NotNeeded(Here)
  /\ run' = [run EXCEPT !.at = @ + 1]
  /\ UNCHANGED <<contracts, code, keys, registry, filed, late, times>>

\* keys generate --fund.  The key stays when the friendbot does not answer;
\* the command, and with it the script, may or may not fail then.
Generate ==
  /\ Looking
  /\ Here.do = "identity"
  /\ ~NotNeeded(Here)
  /\ \/ /\ keys' = [keys EXCEPT ![Here.name] = "funded"]
        /\ run' = [run EXCEPT !.at = @ + 1]
        /\ times' = times
     \/ /\ times.interruptions < MaxInterruptions
        /\ times' = [times EXCEPT !.interruptions = @ + 1]
        /\ keys' = [keys EXCEPT ![Here.name] = "unfunded"]
        /\ run' \in {[run EXCEPT !.at = @ + 1], Ended("interrupted")}
  /\ UNCHANGED <<contracts, code, registry, filed, late>>

\* The replay is refused by the simulation and fails when it is forced.
Decide ==
  /\ Looking
  /\ Here.do # "identity"
  /\ ~Refuses(Here)
  /\ ~NotNeeded(Here)
  /\ run' = IF Here.do \in {"replay", "accounts"} THEN [run EXCEPT !.doing = "write"]
            ELSE [run EXCEPT !.doing = "send", !.op = Transaction(Here)]
  /\ UNCHANGED <<contracts, code, keys, registry, filed, late, times>>

\* Transactions of one account have the same number until one settles.
Outnumbered(op) == {o \in late : o.by = op.by}

Applied(op) ==
  /\ Admits(op)
  /\ op.do = "deploy" => Len(contracts) < MaxContracts
  /\ contracts' = After(op)
  /\ late' = late \ Outnumbered(op)

Settle ==
  /\ Running
  /\ run.doing = "send"
  /\ Applied(run.op)
  /\ run' = IF run.op.do = "deploy"
            THEN [run EXCEPT !.doing = "record", !.got = Len(contracts) + 1]
            ELSE [run EXCEPT !.doing = "write"]
  /\ UNCHANGED <<code, keys, registry, filed, times>>

\* The evidence of a deployment is written before the contract is.
Record ==
  /\ Running
  /\ run.doing = "record"
  /\ registry' = IF Kind(Here.name) = "pool"
                 THEN [registry EXCEPT !.deployed[Here.pool] = run.got]
                 ELSE registry
  /\ run' = [run EXCEPT !.doing = "write"]
  /\ UNCHANGED <<contracts, code, keys, filed, late, times>>

RegisteredOnce ==
  IF IdOf(Here.name) # NoId THEN registry
  ELSE [registry EXCEPT !.ids[Here.name]  = run.got,
                        !.wasm[Here.name] = code[Kind(Here.name)],
                        !.ever            = @ \cup {run.got}]

RegisteredAndPublished ==
  [registry EXCEPT !.ids[Here.name]  = run.got,
                   !.wasm[Here.name] = code[Kind(Here.name)],
                   !.ever            = @ \cup {run.got},
                   !.pools[Here.pool] = IF Here.name = Pool(Market[1]) THEN run.got
                                        ELSE @]

Registered ==
  [registry EXCEPT !.ids[Here.name]  = run.got,
                   !.wasm[Here.name] = code[Kind(Here.name)],
                   !.ever            = @ \cup {run.got}]

\* The contract, or the evidence if a script asks for it again; the trial
\* writes when it is over.
Written ==
  CASE Here.do = "deploy" -> Registered
    [] Here.do = "accounts" ->
         [registry EXCEPT !.accounts = @ \cup
            {StepsOf(run.script)[i].name : i \in 1..(run.at - 1)}]
    [] run.script = "smoke" /\ Here.do = "subscribe" ->
         [registry EXCEPT !.smoked[Here.pool] = TRUE]
    [] Here.do = "replay" -> [registry EXCEPT !.replayed = TRUE]
    [] run.script = "e2e" /\ Here.do = "subscribe" ->
         [registry EXCEPT !.subscribed = IdOf(Here.name)]
    [] run.script = "e2e" /\ Here.do = "update_accredited_set" ->
         [registry EXCEPT !.rooted = TRUE]
    [] OTHER -> registry

Write ==
  /\ Running
  /\ run.doing = "write"
  /\ registry' = Written
  /\ filed' = IF run.script = "smoke" /\ Here.do = "update_accredited_set"
              THEN filed \cup {Here.pool} ELSE filed
  /\ run' = [run EXCEPT !.at = @ + 1, !.doing = "look",
                        !.told = IF Here.do = "update_accredited_set"
                                 THEN At(Here.name).epoch ELSE @,
                        !.op = << >>, !.got = NoId,
                        !.fresh = IF Here.do \in {"deploy", "subscribe"}
                                  THEN @ \cup {Here.name} ELSE @]
  /\ UNCHANGED <<contracts, code, keys, late, times>>

\* A check that throws, or a simulation that the contract refuses.
Fail ==
  /\ Running
  /\ \/ Looking /\ Refuses(Here)
     \/ run.doing = "send" /\ ~Admits(run.op)
  /\ run' = Ended("failed")
  /\ UNCHANGED <<contracts, code, keys, registry, filed, late, times>>

\* The marketplace's pools are published together, and the demo pool goes.
Published ==
  [registry EXCEPT
     !.pools = [p \in Pools |-> IF p = Demo THEN NoId ELSE registry.ids[Pool(p)]],
     !.ids[Token(Demo)] = NoId,
     !.ids[Pool(Demo)]  = NoId]

Pass ==
  /\ Running
  /\ run.doing = "look"
  /\ run.at = Len(StepsOf(run.script)) + 1
  /\ registry' = IF run.script = "market" THEN Published ELSE registry
  /\ run' = Ended("passed")
  /\ times' = [times EXCEPT !.unfinished = IF run.script = "market" THEN {}
                                          ELSE @ \ {run.script}]
  /\ UNCHANGED <<contracts, code, keys, filed, late>>

-----------------------------------------------------------------------------
(* What goes wrong around it. *)

\* The script dies; if it was sending, its transaction may be on its way.
Interrupt ==
  /\ Running
  /\ times.interruptions < MaxInterruptions
  /\ times' = [times EXCEPT !.interruptions = @ + 1]
  /\ run' = Ended("interrupted")
  /\ \/ late' = late
     \/ run.doing = "send" /\ late' = late \cup {run.op}
  /\ UNCHANGED <<contracts, code, keys, registry, filed>>

LateSettles(op) ==
  /\ op \in late
  /\ Applied(op)
  /\ run' = IF Running THEN [run EXCEPT !.overtaken = TRUE] ELSE run
  /\ UNCHANGED <<code, keys, registry, filed, times>>

LateIsDropped(op) ==
  /\ late' = late \ {op}
  /\ UNCHANGED <<contracts, code, keys, registry, filed, run, times>>

\* The sources change between runs.
Rebuild(kind) ==
  /\ ~Running
  /\ times.rebuilds < MaxRebuilds
  /\ times' = [times EXCEPT !.rebuilds = @ + 1]
  /\ code' = [code EXCEPT ![kind] = @ + 1]
  /\ UNCHANGED <<contracts, keys, registry, filed, run, late>>

-----------------------------------------------------------------------------
(* services/indexer/deployments.ts *)

EventPools ==
  IF IsPublished THEN {p \in Pools : registry.pools[p] # NoId}
  ELSE {p \in {Demo} : registry.ids[Pool(p)] # NoId}

\* Its contract.
EventPool(p) == IF IsPublished THEN registry.pools[p] ELSE registry.ids[Pool(p)]

PoolDeployLedgers ==
  {registry.deployed[p] : p \in IF IsPublished THEN EventPools ELSE Pools} \ {0}

\* What an indexer that trusts the demo pool's evidence first would do.
LedgerOfDemoFirst ==
  IF registry.deployed[Demo] # 0 THEN registry.deployed[Demo]
  ELSE Min(PoolDeployLedgers \cup {MaxContracts})

IndexerStartLedger ==
  IF PoolDeployLedgers = {} THEN registry.deployed[Demo] ELSE Min(PoolDeployLedgers)

-----------------------------------------------------------------------------
Next ==
  \/ \E script \in {"setup", "deploy", "market", "e2e", "smoke"} : Start(script)
  \/ PassOver \/ Generate \/ Decide \/ Settle \/ Record \/ Write \/ Fail \/ Pass
  \/ Interrupt
  \/ \E op \in late : LateSettles(op) \/ LateIsDropped(op)
  \/ \E kind \in {"token", "pool"} : Rebuild(kind)

Spec == Init /\ [][Next]_vars
-----------------------------------------------------------------------------
(* Properties. *)

(***************************************************************************)
(* A published pool settles subscriptions: its roster is in place, its     *)
(* token is its own to mint, and the subscription of the deployment is on  *)
(* the chain, whatever runs were interrupted on the way there.             *)
(***************************************************************************)
PublishedPoolsWork ==
  \A p \in Pools : registry.pools[p] # NoId =>
    LET pool == contracts[registry.pools[p]]
    IN  /\ pool.admin = Issuer(p)
        /\ contracts[pool.token].admin = Contract(registry.pools[p])
        /\ pool.roster # "none"
        /\ \E epoch \in 1..pool.epoch : <<Investor(p), epoch>> \in pool.spent

Mixed == contracts[At(Pool(Demo)).token].version # code["token"]

(***************************************************************************)
(* When deploy.ts passes, the registered demo pool is initialized, with    *)
(* the registered tokens unless those were rebuilt after the pool, it may  *)
(* mint the registered pool token and its investor is funded; also when    *)
(* earlier runs died anywhere.                                             *)
(***************************************************************************)
PassedDeploymentWorks ==
  [][run.script = "deploy" /\ run' = Ended("passed") /\ ~run.overtaken =>
       /\ At(Pool(Demo)).admin = TestIssuer
       /\ At(Token(Demo)).admin = Contract(IdOf(Pool(Demo)))
       /\ At(Usdc).balance[Investor(Demo)] >= Target[Demo]
       /\ \/ Mixed
          \/ /\ At(Pool(Demo)).usdc = IdOf(Usdc)
             /\ At(Pool(Demo)).token = IdOf(Token(Demo))]_vars

(***************************************************************************)
(* Every contract on the chain was in the registry at some time, but for   *)
(* one per interrupted run and the one being registered now.               *)
(***************************************************************************)
OneOrphanPerInterruption ==
  Cardinality(DOMAIN contracts \ registry.ever) <=
    times.interruptions + (IF Running /\ run.got # NoId THEN 1 ELSE 0)

(***************************************************************************)
(* An indexer that starts from nothing asks for no ledger after the        *)
(* deployment of a pool it is to index, however often the pools were       *)
(* deployed anew, unless a deployment has not come to its end: its         *)
(* evidence is recorded at once, and its pools are published at the end.   *)
(***************************************************************************)
IndexerStartsInTime ==
  times.unfinished = {} =>
    \A p \in EventPools : IndexerStartLedger <= EventPool(p)

-----------------------------------------------------------------------------
(* What no rerun repairs. *)

Unfunded == \E a \in Accounts : keys[a] = "unfunded"

DeployIsStuck ==
  At(Token(Demo)).admin \notin {Deployer, Contract(IdOf(Pool(Demo)))}

MarketIsStuck == At(Usdc).admin = Nobody

E2EIsStuck ==
  \/ IdOf(Pool(Demo)) = NoId
  \/ At(Token(Demo)).admin # Contract(IdOf(Pool(Demo)))
  \/ At(Usdc).balance[Investor(Demo)] < Amount[Demo]
  \/ Mixed
  \/ At(Pool(Demo)).roster = "filed"
  \/ /\ times.interruptions > 0
     /\ At(Pool(Demo)).epoch > 1 \/ At(Pool(Demo)).spent # {}

SmokeIsStuck ==
  LET id == IdOf(Pool(ActivePool))
  IN  \/ id = NoId
      \/ contracts[id].admin = Nobody
      \/ contracts[id].usdc # IdOf(Usdc)
      \/ contracts[contracts[id].token].admin # Contract(id)
      \/ ActivePool \in filed

(***************************************************************************)
(* Runs fail by themselves only where an earlier one left something that   *)
(* no rerun repairs, or where a late transaction came in between: an       *)
(* account was made and not funded; deploy.ts only when the token it       *)
(* reuses belongs to another pool, deploy-marketplace.ts only when it was  *)
(* interrupted before it had initialized the mock USDC, e2e.ts only        *)
(* without a deployment that passed, with tokens the registered pool does  *)
(* not use, after a trial, or when it was interrupted after its            *)
(* subscription or its roster had been sent, and the trial only without a  *)
(* pool that works, or when it filed its leaf before and did not pass.     *)
(***************************************************************************)
FailsOnlyWhenStuck ==
  [][run' = Ended("failed") /\ run # run' =>
       \/ run.overtaken
       \/ Unfunded
       \/ run.script \notin {"setup", "market"} /\ ~(SetupAccounts \subseteq registry.accounts)
       \/ run.script = "deploy" /\ DeployIsStuck
       \/ run.script = "market" /\ MarketIsStuck
       \/ run.script = "e2e" /\ E2EIsStuck
       \/ run.script = "smoke" /\ SmokeIsStuck]_vars
=============================================================================
