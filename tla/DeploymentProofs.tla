--------------------------- MODULE DeploymentProofs ---------------------------
(***************************************************************************)
(* Theorems about Deployment.tla: contracts that no registry knows come    *)
(* from interruptions, one from each; the indexer starts in time; what is  *)
(* published works, and so does what deploy.ts leaves. Each rests on an    *)
(* invariant of its own about where a run is, together with the types, and *)
(* on two lemmas about the chain: the registry's contracts exist, and no   *)
(* transaction takes back what an earlier one left (ChainMoves, Later), so *)
(* that what a run left is there for the next, whatever settles late.      *)
(***************************************************************************)
EXTENDS Deployment, FiniteSetTheorems, SequenceTheorems, WellFoundedInduction, TLAPS

\* The scripts, and what they send.
Scripts == {"setup", "deploy", "market", "e2e", "smoke"}

Sendable == {"deploy", "initialize", "set_admin", "update_accredited_set", "mint",
             "subscribe"}

\* The shape of the state: records with their fields, and what the proofs need
\* of those.
IsContract(c) ==
  /\ c = [kind |-> c.kind, version |-> c.version, admin |-> c.admin,
          balance |-> c.balance, usdc |-> c.usdc, token |-> c.token,
          epoch |-> c.epoch, roster |-> c.roster, spent |-> c.spent]
  /\ c.epoch \in Nat

IsChain(cs) ==
  /\ Len(cs) \in Nat
  /\ cs = [i \in 1..Len(cs) |-> cs[i]]
  /\ \A i \in 1..Len(cs) : IsContract(cs[i])

IsRegistry(r, n) ==
  /\ r = [accounts |-> r.accounts, ids |-> r.ids, wasm |-> r.wasm, pools |-> r.pools,
          deployed |-> r.deployed, smoked |-> r.smoked, rooted |-> r.rooted,
          subscribed |-> r.subscribed, replayed |-> r.replayed, ever |-> r.ever]
  /\ r.ids \in [Names -> 0..n]
  /\ r.wasm \in [Names -> Nat]
  /\ r.pools \in [Pools -> 0..n]
  /\ r.deployed \in [Pools -> Nat]
  /\ r.pools[Demo] = NoId

IsRun(r) ==
  /\ r = [script |-> r.script, at |-> r.at, doing |-> r.doing, op |-> r.op,
          got |-> r.got, told |-> r.told, fresh |-> r.fresh, overtaken |-> r.overtaken]
  /\ r.script \in Scripts
  /\ r.at \in Nat \ {0}
  /\ r.doing \in {"look", "send", "record", "write"}
  /\ r.got \in Nat

IsTimes(t) ==
  /\ t = [runs |-> t.runs, interruptions |-> t.interruptions,
          rebuilds |-> t.rebuilds, unfinished |-> t.unfinished]
  /\ t.interruptions \in Nat

\* A transaction of a script; late ones are too.
IsOp(op) ==
  /\ op.do \in Sendable
  /\ op.by \in Accounts
  /\ op.do = "set_admin" => op.by = Deployer /\ op.to # Nobody
  /\ op.do = "update_accredited_set" => op.roster # "none"

\* A run has a step at hand unless it looks for one after the last.
InScript == run.at \in DOMAIN StepsOf(run.script)

Goes ==
  Running =>
    /\ IsRun(run)
    /\ run.doing # "look" => InScript
    /\ run.doing \in {"look", "send"} => run.got = NoId
    /\ run.doing = "send" => IsOp(run.op) /\ run.op.do = Here.do
    /\ run.doing = "record" => Here.do = "deploy"
    /\ run.doing \in {"record", "write"} =>
         IF Here.do = "deploy" THEN run.got \in 1..Len(contracts) ELSE run.got = NoId

Typed ==
  /\ IsChain(contracts)
  /\ IsRegistry(registry, Len(contracts))
  /\ code \in [{"token", "pool"} -> Nat \ {0}]
  /\ IsTimes(times)
  /\ IsFiniteSet(late)
  /\ \A op \in late : IsOp(op)
  /\ Goes

-----------------------------------------------------------------------------
(* The scripts. *)

Dos == Sendable \cup {"identity", "accounts", "replay"}

Fits(s) ==
  /\ s.do \in Dos
  /\ s.pool \in Pools
  /\ s.name \in Names \cup Accounts
  /\ s.do # "identity" => s.name \in Names
  /\ s.do = "deploy" /\ Kind(s.name) = "pool" => s.name = Pool(s.pool)

FittingSteps == {s \in [do : Dos, pool : Pools, name : Names \cup Accounts] : Fits(s)}

\* Tokens and pools have names of their own.
LEMMA NamesDiffer ==
  /\ Kind(Usdc) = "token"
  /\ \A p : Kind(Token(p)) = "token" /\ Kind(Pool(p)) = "pool"
  /\ \A p, q : Token(p) # Pool(q) /\ Token(p) # Usdc /\ Pool(p) # Usdc
  /\ \A p, q : Token(p) = Token(q) => p = q
  /\ \A p, q : Pool(p) = Pool(q) => p = q
  BY DEF Kind, Usdc, Token, Pool

\* Nor are contracts, accounts and nobody to be confused.
LEMMA AddressesDiffer ==
  /\ \A n : Contract(n) \notin Accounts /\ Contract(n) # Nobody /\ Contract(n) # Deployer
  /\ Nobody \notin Accounts
  /\ \A p : Issuer(p) # Nobody /\ Issuer(p) # Deployer
  /\ Deployer # Nobody
  BY DEF Contract, Accounts, Nobody, Deployer, Issuer, Investor

\* What a step of a script is made of.
LEMMA StepFields ==
  ASSUME NEW do, NEW p, NEW name
  PROVE  /\ Step(do, p, name).do = do
         /\ Step(do, p, name).pool = p
         /\ Step(do, p, name).name = name
  BY DEF Step

\* A step that names what it should.
LEMMA StepFits ==
  ASSUME NEW do \in Dos, NEW p \in Pools, NEW name \in Names \cup Accounts,
         do # "identity" => name \in Names,
         do = "deploy" /\ Kind(name) = "pool" => name = Pool(p)
  PROVE  Step(do, p, name) \in FittingSteps
<1>1. Step(do, p, name) \in [do : Dos, pool : Pools, name : Names \cup Accounts]
  BY DEF Step
<1> QED
  BY <1>1, StepFields DEF FittingSteps, Fits

\* The names and accounts of the pools.
LEMMA NamesAreNames ==
  /\ Demo \in Pools
  /\ Usdc \in Names
  /\ \A p \in Pools : Token(p) \in Names /\ Pool(p) \in Names
  /\ Deployer \in Accounts
  /\ \A p \in Pools : Issuer(p) \in Accounts /\ Investor(p) \in Accounts
  /\ \A i \in DOMAIN Market : Market[i] \in Pools
  BY DEF Pools, Names, Accounts

\* The eight steps for a pool of the marketplace.
LEMMA MarketStepsFit ==
  ASSUME NEW p \in Pools
  PROVE  /\ MarketSteps(p) \in Seq(FittingSteps)
         /\ Len(MarketSteps(p)) = 8
         /\ \A o \in 1..8 : MarketSteps(p)[o] \in FittingSteps
<1>1. /\ Step("deploy", p, Token(p)) \in FittingSteps
      /\ Step("initialize", p, Token(p)) \in FittingSteps
      /\ Step("deploy", p, Pool(p)) \in FittingSteps
      /\ Step("initialize", p, Pool(p)) \in FittingSteps
      /\ Step("set_admin", p, Token(p)) \in FittingSteps
      /\ Step("update_accredited_set", p, Pool(p)) \in FittingSteps
      /\ Step("mint", p, Usdc) \in FittingSteps
      /\ Step("subscribe", p, Pool(p)) \in FittingSteps
  BY StepFits, NamesAreNames, NamesDiffer DEF Dos, Sendable
<1> HIDE DEF FittingSteps
<1>2. MarketSteps(p) \in Seq(FittingSteps) /\ Len(MarketSteps(p)) = 8
  BY <1>1 DEF MarketSteps
<1>3. \A o \in 1..8 : MarketSteps(p)[o] \in FittingSteps
  BY <1>2, ElementOfSeq
<1> QED
  BY <1>2, <1>3

\* setup-identities.ts, deploy.ts and e2e.ts.
LEMMA FixedScriptsFit ==
  /\ SetupScript \in Seq(FittingSteps)
  /\ \A i \in DOMAIN SetupScript : SetupScript[i].do \in {"identity", "accounts"}
  /\ DeployScript \in Seq(FittingSteps) /\ Len(DeployScript) = 8
  /\ \A i \in DOMAIN DeployScript :
       DeployScript[i].do \in {"deploy", "initialize", "set_admin", "mint"}
  /\ E2EScript \in Seq(FittingSteps) /\ Len(E2EScript) = 3
<1>1. /\ Step("identity", Demo, Deployer) \in FittingSteps
      /\ Step("identity", Demo, TestIssuer) \in FittingSteps
      /\ Step("identity", Demo, Investor(Demo)) \in FittingSteps
      /\ Step("accounts", Demo, Usdc) \in FittingSteps
  BY StepFits, NamesAreNames, NamesDiffer DEF Dos, Sendable, TestIssuer
<1>2. /\ Step("deploy", Demo, Usdc) \in FittingSteps
      /\ Step("deploy", Demo, Token(Demo)) \in FittingSteps
      /\ Step("deploy", Demo, Pool(Demo)) \in FittingSteps
      /\ Step("initialize", Demo, Usdc) \in FittingSteps
      /\ Step("initialize", Demo, Token(Demo)) \in FittingSteps
      /\ Step("initialize", Demo, Pool(Demo)) \in FittingSteps
      /\ Step("set_admin", Demo, Token(Demo)) \in FittingSteps
      /\ Step("mint", Demo, Usdc) \in FittingSteps
  BY StepFits, NamesAreNames, NamesDiffer DEF Dos, Sendable
<1>3. /\ Step("update_accredited_set", Demo, Pool(Demo)) \in FittingSteps
      /\ Step("subscribe", Demo, Pool(Demo)) \in FittingSteps
      /\ Step("replay", Demo, Pool(Demo)) \in FittingSteps
  BY StepFits, NamesAreNames, NamesDiffer DEF Dos, Sendable
<1> HIDE DEF FittingSteps
<1>4. SetupScript \in Seq(FittingSteps)
  BY <1>1 DEF SetupScript
<1>5. DeployScript \in Seq(FittingSteps) /\ Len(DeployScript) = 8
  BY <1>2 DEF DeployScript
<1>6. E2EScript \in Seq(FittingSteps) /\ Len(E2EScript) = 3
  BY <1>3 DEF E2EScript
<1>7. \A i \in DOMAIN SetupScript : SetupScript[i].do \in {"identity", "accounts"}
  BY StepFields DEF SetupScript
<1>8. \A i \in DOMAIN DeployScript :
        DeployScript[i].do \in {"deploy", "initialize", "set_admin", "mint"}
  BY StepFields DEF DeployScript
<1> QED
  BY <1>4, <1>5, <1>6, <1>7, <1>8

\* Where deploy-marketplace.ts is with a step for one of its pools.
Base == 5 + 2 * Len(Market)
Place(b, o)  == Base + 8 * (b - 1) + o
PoolPlace(b) == Place(b, 3)

\* The marketplace's accounts: two, and two for each pool.
LEMMA MarketIdentitiesFit ==
  /\ MarketIdentities \in Seq(FittingSteps)
  /\ Len(MarketIdentities) = 2 + 2 * Len(Market)
  /\ \A k \in 1..(2 + 2 * Len(Market)) : MarketIdentities[k].do = "identity"
<1> DEFINE first == <<Step("identity", Demo, Deployer), Step("identity", Demo, TestIssuer)>>
           made(i) == LET p == Market[(i + 1) \div 2]
                      IN  Step("identity", p, IF i % 2 = 1 THEN Issuer(p) ELSE Investor(p))
           rest == [i \in 1..(2 * Len(Market)) |-> made(i)]
<1>0. Len(Market) \in Nat /\ DOMAIN Market = 1..Len(Market)
  BY MarketAssumption
<1>1. /\ Step("identity", Demo, Deployer) \in FittingSteps
      /\ Step("identity", Demo, TestIssuer) \in FittingSteps
  BY StepFits, NamesAreNames DEF Dos, TestIssuer
<1>2. ASSUME NEW i \in 1..(2 * Len(Market))
      PROVE  made(i) \in FittingSteps /\ made(i).do = "identity"
  <2>1. (i + 1) \div 2 \in 1..Len(Market)
    BY <1>0, Z3
  <2>2. Market[(i + 1) \div 2] \in Pools
    BY <1>0, <2>1, NamesAreNames
  <2> QED
    <3> DEFINE p == Market[(i + 1) \div 2]
               name == IF i % 2 = 1 THEN Issuer(p) ELSE Investor(p)
    <3>1. p \in Pools /\ name \in Accounts
      BY <2>2, NamesAreNames
    <3>2. made(i) = Step("identity", p, name)
      OBVIOUS
    <3> HIDE DEF p, name, made
    <3>3. Step("identity", p, name) \in FittingSteps
      BY <3>1, StepFits DEF Dos
    <3>4. Step("identity", p, name).do = "identity"
      BY StepFields
    <3> QED
      BY <3>2, <3>3, <3>4
<1> HIDE DEF made
<1> DEFINE S == FittingSteps
<1>3. first \in Seq(S) /\ Len(first) = 2
  BY <1>1
<1>4. rest \in Seq(S) /\ Len(rest) = 2 * Len(Market)
  <2> HIDE DEF S
  <2> SUFFICES /\ 2 * Len(Market) \in Nat
               /\ \A i \in 1..(2 * Len(Market)) : made(i) \in S
    OBVIOUS
  <2> QED
    BY <1>0, <1>2 DEF S
<1>5. MarketIdentities = first \o rest
  BY DEF MarketIdentities, made
<1>6. first[1].do = "identity" /\ first[2].do = "identity"
  BY StepFields
<1>7. \A i \in 1..(2 * Len(Market)) : rest[i].do = "identity"
  BY <1>2
<1> HIDE DEF first, rest, S
<1>8. /\ MarketIdentities \in Seq(S)
      /\ Len(MarketIdentities) = 2 + 2 * Len(Market)
      /\ \A k \in 1..(2 + 2 * Len(Market)) :
           MarketIdentities[k] = IF k <= 2 THEN first[k] ELSE rest[k - 2]
  <2>1. /\ first \o rest \in Seq(S)
        /\ Len(first \o rest) = Len(first) + Len(rest)
        /\ \A k \in 1..(Len(first) + Len(rest)) :
             (first \o rest)[k] = IF k <= Len(first) THEN first[k] ELSE rest[k - Len(first)]
    BY <1>3, <1>4, ConcatProperties
  <2> QED
    BY <1>3, <1>4, <1>5, <2>1
<1>9. \A k \in 1..(2 + 2 * Len(Market)) : MarketIdentities[k].do = "identity"
  <2> SUFFICES ASSUME NEW k \in 1..(2 + 2 * Len(Market))
               PROVE  MarketIdentities[k].do = "identity"
    OBVIOUS
  <2>1. CASE k <= 2
    BY <1>6, <1>8, <2>1
  <2>2. CASE k > 2
    <3>1. k - 2 \in 1..(2 * Len(Market)) /\ MarketIdentities[k] = rest[k - 2]
      BY <1>0, <1>8, <2>2
    <3> QED
      BY <1>7, <3>1
  <2> QED
    BY <2>1, <2>2
<1> QED
  BY <1>8, <1>9 DEF S

\* The marketplace's pools, eight steps each.
LEMMA MarketPoolsFit ==
  /\ MarketPools \in Seq(FittingSteps)
  /\ Len(MarketPools) = 8 * Len(Market)
  /\ \A b \in 1..Len(Market), o \in 1..8 :
       MarketPools[8 * (b - 1) + o] = MarketSteps(Market[b])[o]
<1> DEFINE made(i) == MarketSteps(Market[((i - 1) \div 8) + 1])[((i - 1) % 8) + 1]
<1>0. Len(Market) \in Nat /\ DOMAIN Market = 1..Len(Market)
  BY MarketAssumption
<1>1. ASSUME NEW i \in 1..(8 * Len(Market))
      PROVE  made(i) \in FittingSteps
  <2>1. ((i - 1) \div 8) + 1 \in 1..Len(Market) /\ ((i - 1) % 8) + 1 \in 1..8
    BY <1>0, Z3
  <2>2. Market[((i - 1) \div 8) + 1] \in Pools
    BY <1>0, <2>1, NamesAreNames
  <2> QED
    BY <2>1, <2>2, MarketStepsFit
<1>2. MarketPools = [i \in 1..(8 * Len(Market)) |-> made(i)]
  BY DEF MarketPools
<1>3. ASSUME NEW b \in 1..Len(Market), NEW o \in 1..8
      PROVE  /\ 8 * (b - 1) + o \in 1..(8 * Len(Market))
             /\ made(8 * (b - 1) + o) = MarketSteps(Market[b])[o]
  <2>1. ((8 * (b - 1) + o - 1) \div 8) + 1 = b /\ ((8 * (b - 1) + o - 1) % 8) + 1 = o
    BY <1>0, Z3
  <2>2. 8 * (b - 1) + o \in 1..(8 * Len(Market))
    BY <1>0, Z3
  <2> QED
    BY <2>1, <2>2
<1> HIDE DEF made, FittingSteps
<1>4. MarketPools \in Seq(FittingSteps) /\ Len(MarketPools) = 8 * Len(Market)
  <2>1. 8 * Len(Market) \in Nat
    BY <1>0
  <2> QED
    BY <1>1, <1>2, <2>1
<1>5. ASSUME NEW b \in 1..Len(Market), NEW o \in 1..8
      PROVE  MarketPools[8 * (b - 1) + o] = MarketSteps(Market[b])[o]
  BY <1>2, <1>3
<1> QED
  BY <1>4, <1>5

\* deploy-marketplace.ts: the accounts, the mock USDC, and then the pools.
LEMMA MarketScriptFits ==
  /\ MarketScript \in Seq(FittingSteps)
  /\ Len(MarketScript) = Base + 8 * Len(Market)
  /\ \A k \in 1..Base :
       /\ MarketScript[k].do \in {"identity", "accounts", "deploy", "initialize"}
       /\ MarketScript[k].do \in {"deploy", "initialize"} => MarketScript[k].name = Usdc
       /\ MarketScript[k].do = "deploy" => k = Base - 1
  /\ \A b \in 1..Len(Market), o \in 1..8 :
       MarketScript[Base + 8 * (b - 1) + o] = MarketSteps(Market[b])[o]
  /\ \A k \in (Base + 1)..Len(MarketScript) :
       \E b \in 1..Len(Market), o \in 1..8 : k = Base + 8 * (b - 1) + o
<1>0. Len(Market) \in Nat /\ DOMAIN Market = 1..Len(Market)
  BY MarketAssumption
<1> DEFINE S == FittingSteps
           middle == <<Step("accounts", Demo, Usdc), Step("deploy", Demo, Usdc),
                       Step("initialize", Demo, Usdc)>>
           front == MarketIdentities \o middle
<1>1. middle \in Seq(S) /\ Len(middle) = 3
  <2>1. /\ Step("accounts", Demo, Usdc) \in S
        /\ Step("deploy", Demo, Usdc) \in S
        /\ Step("initialize", Demo, Usdc) \in S
    BY StepFits, NamesAreNames, NamesDiffer DEF Dos, Sendable
  <2> HIDE DEF S
  <2> QED
    BY <2>1
<1>2. \A k \in 1..3 : /\ middle[k].do \in {"accounts", "deploy", "initialize"}
                      /\ middle[k].name = Usdc
                      /\ middle[k].do = "deploy" => k = 2
  BY StepFields
<1>3. MarketIdentities \in Seq(S) /\ Len(MarketIdentities) = 2 + 2 * Len(Market)
  BY MarketIdentitiesFit
<1>4. MarketPools \in Seq(S) /\ Len(MarketPools) = 8 * Len(Market)
  BY MarketPoolsFit
<1> HIDE DEF S, middle
<1>5. /\ front \in Seq(S) /\ Len(front) = Base
      /\ \A k \in 1..Base : front[k] = IF k <= Len(MarketIdentities)
                                       THEN MarketIdentities[k]
                                       ELSE middle[k - Len(MarketIdentities)]
  <2>1. Len(MarketIdentities) + Len(middle) = Base
    BY <1>0, <1>1, <1>3 DEF Base
  <2> QED
    BY <1>1, <1>3, <2>1, ConcatProperties
<1>6. MarketScript = front \o MarketPools
  BY <1>1, <1>3, <1>4 DEF MarketScript, middle
<1> HIDE DEF front
<1>7. Base \in Nat
  BY <1>0 DEF Base
<1>8. /\ MarketScript \in Seq(S)
      /\ Len(MarketScript) = Base + 8 * Len(Market)
      /\ \A k \in 1..(Base + 8 * Len(Market)) :
           MarketScript[k] = IF k <= Base THEN front[k] ELSE MarketPools[k - Base]
  <2>1. /\ front \o MarketPools \in Seq(S)
        /\ Len(front \o MarketPools) = Len(front) + Len(MarketPools)
        /\ \A k \in 1..(Len(front) + Len(MarketPools)) :
             (front \o MarketPools)[k] =
               IF k <= Len(front) THEN front[k] ELSE MarketPools[k - Len(front)]
    BY <1>4, <1>5, ConcatProperties
  <2> QED
    BY <1>4, <1>5, <1>6, <2>1
<1>9. ASSUME NEW k \in 1..Base
      PROVE  /\ MarketScript[k].do \in {"identity", "accounts", "deploy", "initialize"}
             /\ MarketScript[k].do \in {"deploy", "initialize"}
                  => MarketScript[k].name = Usdc
             /\ MarketScript[k].do = "deploy" => k = Base - 1
  <2>1. MarketScript[k] = front[k]
    BY <1>0, <1>7, <1>8
  <2>2. CASE k <= Len(MarketIdentities)
    <3>1. MarketScript[k] = MarketIdentities[k]
      BY <1>5, <2>1, <2>2
    <3>2. k \in 1..(2 + 2 * Len(Market))
      BY <1>0, <1>3, <1>7, <2>2
    <3> QED
      BY <3>1, <3>2, MarketIdentitiesFit
  <2>3. CASE ~(k <= Len(MarketIdentities))
    <3>1. MarketScript[k] = middle[k - Len(MarketIdentities)]
      BY <1>5, <2>1, <2>3
    <3>2. /\ k - Len(MarketIdentities) \in 1..3
          /\ k - Len(MarketIdentities) = 2 => k = Base - 1
      BY <1>0, <1>3, <1>7, <2>3 DEF Base
    <3> QED
      BY <1>2, <3>1, <3>2
  <2> QED
    BY <2>2, <2>3
<1>10. ASSUME NEW b \in 1..Len(Market), NEW o \in 1..8
       PROVE  MarketScript[Base + 8 * (b - 1) + o] = MarketSteps(Market[b])[o]
  <2>1. /\ Base + 8 * (b - 1) + o \in 1..(Base + 8 * Len(Market))
        /\ ~(Base + 8 * (b - 1) + o <= Base)
        /\ (Base + 8 * (b - 1) + o) - Base = 8 * (b - 1) + o
    BY <1>0, <1>7, Z3
  <2>2. MarketScript[Base + 8 * (b - 1) + o] = MarketPools[8 * (b - 1) + o]
    BY <1>8, <2>1
  <2> QED
    BY <2>2, MarketPoolsFit
<1>11. ASSUME NEW k \in (Base + 1)..Len(MarketScript)
       PROVE  \E b \in 1..Len(Market), o \in 1..8 : k = Base + 8 * (b - 1) + o
  <2> DEFINE m == k - Base - 1
             b == (m \div 8) + 1
             o == (m % 8) + 1
  <2>1. m \in 0..(8 * Len(Market) - 1) /\ k = m + Base + 1
    BY <1>0, <1>7, <1>8
  <2> HIDE DEF m
  <2>2. b \in 1..Len(Market) /\ o \in 1..8 /\ m + 1 = 8 * (b - 1) + o
    BY <1>0, <2>1, Z3
  <2> HIDE DEF b, o
  <2>3. k = Base + 8 * (b - 1) + o
    BY <1>0, <1>7, <2>1, <2>2
  <2> QED
    BY <2>2, <2>3
<1> QED
  BY <1>8, <1>9, <1>10, <1>11 DEF S

-----------------------------------------------------------------------------
(* The chain. *)

\* The length of a sequence that is given as a function.
LEMMA LenIs ==
  ASSUME NEW n \in Nat, NEW f, f = [i \in 1..n |-> f[i]]
  PROVE  Len(f) = n
<1> DEFINE S == {f[i] : i \in 1..n}
<1>1. \A i \in 1..n : f[i] \in S
  OBVIOUS
<1> HIDE DEF S
<1>2. f \in [1..n -> S]
  BY <1>1
<1> QED
  BY <1>2

\* A chain with a contract more.
LEMMA AppendChain ==
  ASSUME NEW cs, IsChain(cs), NEW c, IsContract(c)
  PROVE  /\ IsChain(Append(cs, c))
         /\ Len(Append(cs, c)) = Len(cs) + 1
         /\ \A i \in 1..Len(cs) : Append(cs, c)[i] = cs[i]
         /\ Append(cs, c)[Len(cs) + 1] = c
<1> DEFINE S == {d \in {cs[i] : i \in 1..Len(cs)} \cup {c} : IsContract(d)}
<1>1. c \in S /\ \A i \in 1..Len(cs) : cs[i] \in S
  BY DEF IsChain
<1>2. \A d \in S : IsContract(d)
  OBVIOUS
<1> HIDE DEF S
<1>3. cs \in Seq(S) /\ Len(cs) \in Nat
  <2>1. Len(cs) \in Nat /\ cs = [i \in 1..Len(cs) |-> cs[i]]
    BY DEF IsChain
  <2>2. cs \in [1..Len(cs) -> S]
    BY <1>1, <2>1
  <2> QED
    BY <2>1, <2>2
<1> DEFINE ds == Append(cs, c)
<1>4. /\ ds \in Seq(S) /\ Len(ds) = Len(cs) + 1
      /\ \A i \in 1..Len(cs) : ds[i] = cs[i]
      /\ ds[Len(cs) + 1] = c
  BY <1>1, <1>3, AppendProperties
<1> HIDE DEF ds
<1>5. /\ Len(ds) \in Nat /\ ds = [i \in 1..Len(ds) |-> ds[i]]
      /\ \A i \in 1..Len(ds) : ds[i] \in S
  BY <1>3, <1>4
<1>6. IsChain(ds)
  BY <1>2, <1>5 DEF IsChain
<1> QED
  BY <1>4, <1>6 DEF ds

Replaced(ds, cs, i, c) == ds = [cs EXCEPT ![i] = c]

\* A chain with one contract changed.
LEMMA ExceptChain ==
  ASSUME NEW cs, IsChain(cs), NEW i \in 1..Len(cs), NEW c, IsContract(c),
         NEW ds, Replaced(ds, cs, i, c)
  PROVE  /\ IsChain(ds)
         /\ Len(ds) = Len(cs)
         /\ \A j \in 1..Len(cs) : ds[j] = IF j = i THEN c ELSE cs[j]
<1> DEFINE n == Len(cs)
<1>1. n \in Nat /\ cs = [j \in 1..n |-> cs[j]] /\ \A j \in 1..n : IsContract(cs[j])
  BY DEF IsChain
<1> HIDE DEF n
<1>2. ds = [j \in 1..n |-> ds[j]] /\ \A j \in 1..n : ds[j] = IF j = i THEN c ELSE cs[j]
  BY <1>1 DEF Replaced
<1>3. Len(ds) = n
  BY <1>1, <1>2, LenIs
<1>4. IsChain(ds)
  BY <1>1, <1>2, <1>3 DEF IsChain
<1> QED
  BY <1>2, <1>3, <1>4 DEF n

\* What a step may never do to a contract.
Later(c, d) ==
  /\ c.admin # Nobody => d.token = c.token /\ d.usdc = c.usdc /\ d.admin # Nobody
  /\ c.admin \notin {Nobody, Deployer} => d.admin = c.admin
  /\ c.roster # "none" => d.roster # "none"
  /\ d.epoch \in Nat /\ d.epoch >= c.epoch
  /\ c.spent \subseteq d.spent
  /\ d.version = c.version

WithBalance(c, x) == [c EXCEPT !.balance = x]
WithSpent(c, x)   == [c EXCEPT !.spent = x]

\* Paying, and noting a subscription, change nothing else of a contract.
LEMMA ContractFields ==
  ASSUME NEW c, IsContract(c), NEW x
  PROVE  /\ IsContract(WithBalance(c, x)) /\ Later(c, WithBalance(c, x))
         /\ WithBalance(c, x).epoch = c.epoch
         /\ IsContract(WithSpent(c, x)) /\ WithSpent(c, x).spent = x
         /\ WithSpent(c, x).epoch = c.epoch
         /\ c.spent \subseteq x => Later(c, WithSpent(c, x))
<1>1. /\ c = [kind |-> c.kind, version |-> c.version, admin |-> c.admin,
              balance |-> c.balance, usdc |-> c.usdc, token |-> c.token,
              epoch |-> c.epoch, roster |-> c.roster, spent |-> c.spent]
      /\ c.epoch \in Nat
  BY DEF IsContract
<1> DEFINE b == WithBalance(c, x)
           s == WithSpent(c, x)
<1>2. /\ b = [kind |-> c.kind, version |-> c.version, admin |-> c.admin,
              balance |-> x, usdc |-> c.usdc, token |-> c.token,
              epoch |-> c.epoch, roster |-> c.roster, spent |-> c.spent]
      /\ s = [kind |-> c.kind, version |-> c.version, admin |-> c.admin,
              balance |-> c.balance, usdc |-> c.usdc, token |-> c.token,
              epoch |-> c.epoch, roster |-> c.roster, spent |-> x]
  BY <1>1 DEF WithBalance, WithSpent
<1> HIDE DEF b, s
<1>4. IsContract(b) /\ Later(c, b) /\ b.epoch = c.epoch
  BY <1>1, <1>2 DEF IsContract, Later
<1>5. IsContract(s) /\ s.spent = x /\ s.epoch = c.epoch
  BY <1>1, <1>2 DEF IsContract
<1>6. ASSUME c.spent \subseteq x PROVE Later(c, s)
  BY <1>1, <1>2, <1>6 DEF Later
<1> QED
  BY <1>4, <1>5, <1>6 DEF b, s

\* A contract that is left alone.
LEMMA LaterItself == ASSUME NEW c, IsContract(c) PROVE Later(c, c)
<1>1. c.epoch \in Nat
  BY DEF IsContract
<1> QED
  BY <1>1 DEF Later

\* What may never happen in a step never happens in two.
LEMMA LaterStill ==
  ASSUME NEW c, NEW d, NEW e, c.epoch \in Nat, Later(c, d), Later(d, e)
  PROVE  Later(c, e)
<1>1. e.epoch \in Nat /\ e.epoch >= c.epoch
  BY DEF Later
<1> QED
  BY <1>1 DEF Later

\* What a transaction leaves that is applied.
Leaves(op) ==
  LET c == contracts[op.id]
      d == contracts'[op.id]
  IN  /\ op.do = "initialize" =>
           d.admin = op.by /\ d.usdc = op.usdc /\ d.token = op.token
      /\ op.do = "set_admin" => d.admin = op.to
      /\ op.do = "update_accredited_set" => d.roster = op.roster /\ d.epoch = c.epoch + 1
      /\ op.do = "subscribe" => <<op.by, c.epoch>> \in d.spent /\ d.epoch = c.epoch

\* What is deployed is a contract.
LEMMA UninitializedIsContract ==
  ASSUME NEW kind PROVE IsContract(Uninitialized(kind))
  BY DEF Uninitialized, IsContract

\* A transaction that settles adds a contract or changes one, and never takes
\* back what an earlier one did.
LEMMA ChainMoves ==
  ASSUME IsChain(contracts), NEW op, IsOp(op), Admits(op), contracts' = After(op)
  PROVE  /\ IsChain(contracts')
         /\ Len(contracts') = IF op.do = "deploy" THEN Len(contracts) + 1 ELSE Len(contracts)
         /\ \A i \in 1..Len(contracts) : Later(contracts[i], contracts'[i])
         /\ op.id \in 1..Len(contracts) => Leaves(op)
         /\ op.do = "deploy" =>
              contracts'[Len(contracts) + 1] = Uninitialized(Kind(op.name))
<1>0. /\ Len(contracts) \in Nat
      /\ contracts = [i \in 1..Len(contracts) |-> contracts[i]]
      /\ \A i \in 1..Len(contracts) : IsContract(contracts[i])
  BY DEF IsChain
<1>a. \A i \in 1..Len(contracts) : Later(contracts[i], contracts[i])
  BY <1>0, LaterItself
<1> DEFINE c == contracts[op.id]
<1>1. CASE op.do = "deploy"
  <2>1. contracts' = Append(contracts, Uninitialized(Kind(op.name)))
    BY <1>1 DEF After
  <2> QED
    BY <1>1, <1>a, <2>1, UninitializedIsContract, AppendChain DEF Leaves
<1>2. CASE op.do \notin {"deploy", "subscribe"} /\ op.id \notin 1..Len(contracts)
  <2>1. contracts' = contracts
    BY <1>0, <1>2 DEF After, IsOp, Sendable
  <2> QED
    BY <1>0, <1>2, <1>a, <2>1
<1>3. ASSUME op.id \in 1..Len(contracts), op.do # "deploy",
             NEW d, IsContract(d), Later(c, d), contracts' = [contracts EXCEPT ![op.id] = d],
             /\ op.do = "initialize" =>
                  d.admin = op.by /\ d.usdc = op.usdc /\ d.token = op.token
             /\ op.do = "set_admin" => d.admin = op.to
             /\ op.do = "update_accredited_set" =>
                  d.roster = op.roster /\ d.epoch = c.epoch + 1
             /\ op.do # "subscribe"
      PROVE  /\ IsChain(contracts')
             /\ Len(contracts') = Len(contracts)
             /\ \A i \in 1..Len(contracts) : Later(contracts[i], contracts'[i])
             /\ Leaves(op)
  <2>1. /\ IsChain(contracts') /\ Len(contracts') = Len(contracts)
        /\ \A j \in 1..Len(contracts) :
             contracts'[j] = IF j = op.id THEN d ELSE contracts[j]
    <3>1. Replaced(contracts', contracts, op.id, d)
      BY <1>3 DEF Replaced
    <3> QED
      BY <1>3, <3>1, ExceptChain
  <2>2. contracts'[op.id] = d
    BY <1>3, <2>1
  <2> QED
    BY <1>3, <1>a, <2>1, <2>2 DEF Leaves
<1>4. ASSUME op.id \in 1..Len(contracts), op.do = "initialize"
      PROVE  \E d : /\ IsContract(d) /\ Later(c, d)
                    /\ contracts' = [contracts EXCEPT ![op.id] = d]
                    /\ d.admin = op.by /\ d.usdc = op.usdc /\ d.token = op.token
  <2> DEFINE d == [kind |-> c.kind, version |-> c.version, admin |-> op.by,
                   balance |-> c.balance, usdc |-> op.usdc, token |-> op.token,
                   epoch |-> c.epoch, roster |-> c.roster, spent |-> c.spent]
  <2>1. c.admin = Nobody
    BY <1>4 DEF Admits
  <2>2. /\ c = [kind |-> c.kind, version |-> c.version, admin |-> c.admin,
                balance |-> c.balance, usdc |-> c.usdc, token |-> c.token,
                epoch |-> c.epoch, roster |-> c.roster, spent |-> c.spent]
        /\ c.epoch \in Nat
    BY <1>0, <1>4 DEF IsContract
  <2>3. contracts' = [contracts EXCEPT ![op.id].admin = op.by, ![op.id].usdc = op.usdc,
                                       ![op.id].token = op.token]
    BY <1>4 DEF After
  <2>4. contracts' = [contracts EXCEPT ![op.id] = d]
    BY <1>0, <1>4, <2>2, <2>3
  <2>5. IsContract(d) /\ Later(c, d)
    BY <2>1, <2>2 DEF IsContract, Later
  <2>6. d.admin = op.by /\ d.usdc = op.usdc /\ d.token = op.token
    OBVIOUS
  <2> HIDE DEF d, c
  <2> QED
    BY <2>4, <2>5, <2>6
<1>5. ASSUME op.id \in 1..Len(contracts), op.do = "set_admin"
      PROVE  \E d : /\ IsContract(d) /\ Later(c, d)
                    /\ contracts' = [contracts EXCEPT ![op.id] = d] /\ d.admin = op.to
  <2> DEFINE d == [kind |-> c.kind, version |-> c.version, admin |-> op.to,
                   balance |-> c.balance, usdc |-> c.usdc, token |-> c.token,
                   epoch |-> c.epoch, roster |-> c.roster, spent |-> c.spent]
  <2>1. c.admin = Deployer /\ op.to # Nobody
    BY <1>5 DEF Admits, IsOp
  <2>2. /\ c = [kind |-> c.kind, version |-> c.version, admin |-> c.admin,
                balance |-> c.balance, usdc |-> c.usdc, token |-> c.token,
                epoch |-> c.epoch, roster |-> c.roster, spent |-> c.spent]
        /\ c.epoch \in Nat
    BY <1>0, <1>5 DEF IsContract
  <2>3. contracts' = [contracts EXCEPT ![op.id].admin = op.to]
    BY <1>5 DEF After
  <2>4. contracts' = [contracts EXCEPT ![op.id] = d]
    BY <1>0, <1>5, <2>2, <2>3
  <2>5. IsContract(d) /\ Later(c, d)
    BY <2>1, <2>2 DEF IsContract, Later
  <2>6. d.admin = op.to
    OBVIOUS
  <2> HIDE DEF d, c
  <2> QED
    BY <2>4, <2>5, <2>6
<1>6. ASSUME op.id \in 1..Len(contracts), op.do = "update_accredited_set"
      PROVE  \E d : /\ IsContract(d) /\ Later(c, d)
                    /\ contracts' = [contracts EXCEPT ![op.id] = d]
                    /\ d.roster = op.roster /\ d.epoch = c.epoch + 1
  <2> DEFINE d == [kind |-> c.kind, version |-> c.version, admin |-> c.admin,
                   balance |-> c.balance, usdc |-> c.usdc, token |-> c.token,
                   epoch |-> c.epoch + 1, roster |-> op.roster, spent |-> c.spent]
  <2>1. op.roster # "none"
    BY <1>6 DEF IsOp
  <2>2. /\ c = [kind |-> c.kind, version |-> c.version, admin |-> c.admin,
                balance |-> c.balance, usdc |-> c.usdc, token |-> c.token,
                epoch |-> c.epoch, roster |-> c.roster, spent |-> c.spent]
        /\ c.epoch \in Nat
    BY <1>0, <1>6 DEF IsContract
  <2>3. contracts' = [contracts EXCEPT ![op.id].epoch = @ + 1, ![op.id].roster = op.roster]
    BY <1>6 DEF After
  <2>4. contracts' = [contracts EXCEPT ![op.id] = d]
    BY <1>0, <1>6, <2>2, <2>3
  <2>5. IsContract(d) /\ Later(c, d)
    BY <2>1, <2>2 DEF IsContract, Later
  <2>6. d.roster = op.roster /\ d.epoch = c.epoch + 1
    OBVIOUS
  <2> HIDE DEF d, c
  <2> QED
    BY <2>4, <2>5, <2>6
<1>7. ASSUME op.id \in 1..Len(contracts), op.do = "mint"
      PROVE  \E d : /\ IsContract(d) /\ Later(c, d)
                    /\ contracts' = [contracts EXCEPT ![op.id] = d]
  <2> DEFINE balance == [c.balance EXCEPT ![op.to] = @ + op.amount]
             d == WithBalance(c, balance)
  <2>1. contracts' = [contracts EXCEPT ![op.id].balance[op.to] = @ + op.amount]
    BY <1>7 DEF After
  <2>2. contracts' = [contracts EXCEPT ![op.id] = d]
    BY <1>0, <1>7, <2>1 DEF WithBalance
  <2>3. IsContract(d) /\ Later(c, d)
    BY <1>0, <1>7, ContractFields
  <2> HIDE DEF d, c
  <2> QED
    BY <2>2, <2>3
<1>8. CASE op.do = "subscribe"
  <2> DEFINE u    == c.usdc
             paid == [contracts EXCEPT ![u].balance[op.by] = @ - Amount[op.pool]]
  <2>1. contracts' = [paid EXCEPT ![op.id].spent = @ \cup {<<op.by, op.epoch>>}]
    BY <1>8 DEF After
  <2>2. op.epoch = c.epoch
    BY <1>8 DEF Admits, AdmitsSubscription
  <2> HIDE DEF u
  <2>3. /\ IsChain(paid) /\ Len(paid) = Len(contracts)
        /\ \A i \in 1..Len(contracts) :
             Later(contracts[i], paid[i]) /\ paid[i].epoch = contracts[i].epoch
    <3>1. CASE u \in 1..Len(contracts)
      <4> DEFINE b == [contracts[u].balance EXCEPT ![op.by] = @ - Amount[op.pool]]
                 d == WithBalance(contracts[u], b)
      <4>1. paid = [contracts EXCEPT ![u] = d]
        BY <1>0, <3>1 DEF WithBalance
      <4>2. Replaced(paid, contracts, u, d)
        BY <4>1 DEF Replaced
      <4>3. IsContract(d) /\ Later(contracts[u], d) /\ d.epoch = contracts[u].epoch
        BY <1>0, <3>1, ContractFields
      <4> HIDE DEF d, paid
      <4>4. /\ IsChain(paid) /\ Len(paid) = Len(contracts)
            /\ \A j \in 1..Len(contracts) : paid[j] = IF j = u THEN d ELSE contracts[j]
        BY <3>1, <4>2, <4>3, ExceptChain
      <4> QED
        BY <1>a, <4>3, <4>4
    <3>2. CASE u \notin 1..Len(contracts)
      <4>1. paid = contracts
        BY <1>0, <3>2
      <4> QED
        BY <1>a, <4>1
    <3> QED
      BY <3>1, <3>2
  <2> HIDE DEF paid
  <2>4. CASE op.id \notin 1..Len(contracts)
    <3>1. contracts' = paid
      BY <2>1, <2>3, <2>4 DEF IsChain
    <3> QED
      BY <1>8, <2>3, <2>4, <3>1
  <2>5. CASE op.id \in 1..Len(contracts)
    <3> DEFINE p == paid[op.id]
               spent == p.spent \cup {<<op.by, op.epoch>>}
               d == WithSpent(p, spent)
    <3>1. IsContract(p) /\ p.epoch = c.epoch /\ Later(c, p)
      BY <1>8, <2>3, <2>5 DEF IsChain
    <3>2. /\ IsContract(d) /\ Later(p, d) /\ d.epoch = p.epoch
          /\ <<op.by, op.epoch>> \in d.spent
      <4>1. p.spent \subseteq spent /\ <<op.by, op.epoch>> \in spent
        OBVIOUS
      <4> HIDE DEF p, spent
      <4> QED
        BY <3>1, <4>1, ContractFields
    <3>3. contracts' = [paid EXCEPT ![op.id] = d]
      BY <2>1 DEF WithSpent
    <3> HIDE DEF p, d
    <3>4. /\ IsChain(contracts') /\ Len(contracts') = Len(contracts)
          /\ \A j \in 1..Len(contracts) : contracts'[j] = IF j = op.id THEN d ELSE paid[j]
      <4>1. Replaced(contracts', paid, op.id, d) /\ op.id \in 1..Len(paid)
        BY <2>3, <2>5, <3>3 DEF Replaced
      <4> QED
        BY <2>3, <3>2, <4>1, ExceptChain
    <3>5. Later(c, d)
      <4>1. c.epoch \in Nat
        BY <1>0, <1>8, <2>5 DEF IsContract
      <4> QED
        BY <3>1, <3>2, <4>1, LaterStill
    <3>6. Leaves(op)
      <4>1. contracts'[op.id] = d
        BY <1>8, <2>5, <3>4
      <4> QED
        BY <1>8, <2>2, <2>5, <3>1, <3>2, <4>1 DEF Leaves
    <3> QED
      BY <1>8, <2>3, <2>5, <3>4, <3>5, <3>6
  <2> QED
    BY <2>4, <2>5
<1> HIDE DEF c
<1>9. op.do \in Sendable
  BY DEF IsOp
<1>10. CASE op.do = "initialize" /\ op.id \in 1..Len(contracts)
  BY <1>3, <1>4, <1>10
<1>11. CASE op.do = "set_admin" /\ op.id \in 1..Len(contracts)
  BY <1>3, <1>5, <1>11
<1>12. CASE op.do = "update_accredited_set" /\ op.id \in 1..Len(contracts)
  BY <1>3, <1>6, <1>12
<1>13. CASE op.do = "mint" /\ op.id \in 1..Len(contracts)
  BY <1>3, <1>7, <1>13
<1> QED
  BY <1>1, <1>2, <1>8, <1>9, <1>10, <1>11, <1>12, <1>13 DEF Sendable

\* The trial is of a pool.
LEMMA ActivePoolIsPool ==
  ASSUME NEW n, IsRegistry(registry, n)
  PROVE  ActivePool \in Pools
<1>1. CASE IsPublished
  <2>1. PICK p \in Pools : registry.pools[p] # NoId
    BY <1>1 DEF IsPublished
  <2>2. p # Demo
    BY <2>1 DEF IsRegistry
  <2>3. 1 \in DOMAIN Market
    BY <2>1, <2>2, MarketAssumption DEF Pools
  <2> QED
    BY <1>1, <2>3, NamesAreNames DEF ActivePool
<1> QED
  BY <1>1, NamesAreNames DEF ActivePool

\* All scripts are sequences of steps that fit.
LEMMA ScriptsFit ==
  ASSUME NEW n, IsRegistry(registry, n), NEW script \in Scripts
  PROVE  StepsOf(script) \in Seq(FittingSteps)
<1>1. SmokeScript \in Seq(FittingSteps)
  <2> DEFINE p == ActivePool
  <2>1. p \in Pools
    BY ActivePoolIsPool
  <2> HIDE DEF p
  <2>2. /\ Step("update_accredited_set", p, Pool(p)) \in FittingSteps
        /\ Step("mint", p, Usdc) \in FittingSteps
        /\ Step("subscribe", p, Pool(p)) \in FittingSteps
    BY <2>1, StepFits, NamesAreNames, NamesDiffer DEF Dos, Sendable
  <2> HIDE DEF FittingSteps
  <2> QED
    BY <2>2 DEF SmokeScript, p
<1> QED
  BY <1>1, FixedScriptsFit, MarketScriptFits DEF StepsOf, Scripts

\* So is the step a run is at.
LEMMA HereFits ==
  ASSUME NEW n, IsRegistry(registry, n), run.script \in Scripts, InScript
  PROVE  /\ Fits(Here)
         /\ Here.do = "update_accredited_set" => run.script \in {"e2e", "market", "smoke"}
<1> DEFINE steps == StepsOf(run.script)
<1>1. steps \in Seq(FittingSteps)
  BY ScriptsFit
<1>2. Here = steps[run.at] /\ run.at \in DOMAIN steps
  BY DEF Here, InScript
<1> HIDE DEF steps
<1>3. Here \in FittingSteps
  <2> HIDE DEF FittingSteps
  <2> QED
    BY <1>1, <1>2
<1>4. run.script = "setup" => Here.do \in {"identity", "accounts"}
  BY <1>2, FixedScriptsFit DEF steps, StepsOf
<1>5. run.script = "deploy" => Here.do \in {"deploy", "initialize", "set_admin", "mint"}
  BY <1>2, FixedScriptsFit DEF steps, StepsOf
<1> QED
  BY <1>3, <1>4, <1>5 DEF FittingSteps, Scripts

\* A script, and the step it is at, change only when pools are published.
LEMMA HereStays ==
  ASSUME registry'.pools = registry.pools, run'.script = run.script, run'.at = run.at
  PROVE  Here' = Here /\ InScript' = InScript
<1>1. StepsOf(run.script)' = StepsOf(run.script)
  BY DEF StepsOf, SmokeScript, ActivePool, IsPublished
<1>2. Here' = StepsOf(run.script)'[run'.at] /\ Here = StepsOf(run.script)[run.at]
  BY DEF Here
<1>3. /\ InScript' = (run'.at \in DOMAIN (StepsOf(run.script)'))
      /\ InScript = (run.at \in DOMAIN StepsOf(run.script))
  BY DEF InScript
<1> QED
  BY <1>1, <1>2, <1>3

\* The transaction of a step is one that ChainMoves is about.
LEMMA TransactionFits ==
  ASSUME Fits(Here), run.script \in Scripts, Here.do \in Sendable,
         Here.do = "update_accredited_set" => run.script \in {"e2e", "market", "smoke"}
  PROVE  IsOp(Transaction(Here)) /\ Transaction(Here).do = Here.do
<1> DEFINE step == Here
           op == Transaction(step)
<1>1. /\ op.do = step.do /\ op.by = Signer(step)
      /\ op.roster = IF step.do \in {"update_accredited_set", "subscribe"}
                     THEN RosterOf(run.script) ELSE "none"
      /\ op.to = IF step.do = "set_admin" THEN Contract(IdOf(Pool(step.pool)))
                 ELSE Subscriber(step)
  BY DEF Transaction
<1>2. step.pool \in Pools /\ step.do \in Sendable /\ Fits(step)
  BY DEF Fits
<1> HIDE DEF step, op
<1>3. Signer(step) \in Accounts /\ (step.do = "set_admin" => Signer(step) = Deployer)
  BY <1>2, NamesAreNames DEF Signer, Sendable, Subscriber, TestIssuer
<1>4. step.do = "update_accredited_set" => RosterOf(run.script) # "none"
  BY DEF RosterOf, step
<1>5. IsOp(op) /\ op.do = step.do
  BY <1>1, <1>2, <1>3, <1>4, AddressesDiffer DEF IsOp
<1> QED
  BY <1>5 DEF step, op

-----------------------------------------------------------------------------
(* Types. *)

Grows ==
  /\ Len(contracts') >= Len(contracts)
  /\ \A i \in 1..Len(contracts) : Later(contracts[i], contracts'[i])

\* What no step takes back from the contracts on the chain.
LEMMA ChainNext ==
  ASSUME Typed, [Next]_vars
  PROVE  IsChain(contracts') /\ Grows
<1>1. CASE UNCHANGED contracts
  <2>1. /\ IsChain(contracts) /\ Len(contracts) \in Nat
        /\ \A i \in 1..Len(contracts) : IsContract(contracts[i])
    BY DEF Typed, IsChain
  <2> QED
    BY <1>1, <2>1, LaterItself DEF Grows
<1>2. ASSUME NEW op, IsOp(op), Applied(op)
      PROVE  IsChain(contracts') /\ Grows
  <2>1. IsChain(contracts) /\ Len(contracts) \in Nat
    BY DEF Typed, IsChain
  <2> QED
    BY <1>2, <2>1, ChainMoves DEF Applied, Grows
<1>3. CASE Settle
  BY <1>2, <1>3 DEF Settle, Typed, Goes
<1>4. ASSUME NEW op \in late, LateSettles(op)
      PROVE  IsChain(contracts') /\ Grows
  BY <1>2, <1>4 DEF LateSettles, Typed
<1> QED
  BY <1>1, <1>3, <1>4
  DEF Next, vars, Start, PassOver, Generate, Decide, Record, Write, Fail, Pass, Interrupt,
      LateIsDropped, Rebuild

\* The chain grows by deployments.
LEMMA LenOnlyByDeploy ==
  ASSUME Typed, NEW op, IsOp(op), Applied(op)
  PROVE  Len(contracts') = IF op.do = "deploy" THEN Len(contracts) + 1 ELSE Len(contracts)
  BY ChainMoves DEF Applied, Typed

\* What deployments.json holds.
LEMMA RegistryFields ==
  ASSUME NEW n, IsRegistry(registry, n)
  PROVE  /\ registry.ids \in [Names -> 0..n]
         /\ registry.wasm \in [Names -> Nat]
         /\ registry.pools \in [Pools -> 0..n]
         /\ registry.deployed \in [Pools -> Nat]
         /\ registry.pools[Demo] = NoId
  BY DEF IsRegistry

\* What a run holds.
LEMMA RunFields ==
  ASSUME Typed, Running
  PROVE  /\ IsRun(run)
         /\ run.script \in Scripts /\ run.at \in Nat \ {0}
         /\ run.doing \in {"look", "send", "record", "write"} /\ run.got \in Nat
  BY DEF Typed, Goes, IsRun

\* What Write leaves in the registry.
LEMMA WriteLeaves ==
  ASSUME Typed, Write
  PROVE  /\ IsRegistry(registry', Len(contracts))
         /\ registry'.pools = registry.pools /\ registry'.deployed = registry.deployed
         /\ Here.do # "deploy" =>
              /\ registry'.ids = registry.ids /\ registry'.wasm = registry.wasm
              /\ registry'.ever = registry.ever
         /\ Here.do = "deploy" =>
              /\ Here.name \in Names /\ run.got \in 1..Len(contracts)
              /\ registry'.ids  = [registry.ids EXCEPT ![Here.name] = run.got]
              /\ registry'.wasm = [registry.wasm EXCEPT ![Here.name] = code[Kind(Here.name)]]
              /\ registry'.ever = registry.ever \cup {run.got}
<1> DEFINE n == Len(contracts)
           r == registry
           step == Here
<1>1. IsRegistry(registry, n) /\ Running /\ run.doing = "write" /\ registry' = Written
  BY DEF Typed, Write
<1>2. Fits(step)
  <2>1. InScript /\ run.script \in Scripts
    BY <1>1, RunFields DEF Typed, Goes
  <2> QED
    BY <1>1, <2>1, HereFits
<1>3. step.do = "deploy" => run.got \in 1..n
  BY <1>1 DEF Typed, Goes
<1>4. code \in [{"token", "pool"} -> Nat \ {0}]
  BY DEF Typed
<1>5. /\ r = [accounts |-> r.accounts, ids |-> r.ids, wasm |-> r.wasm, pools |-> r.pools,
              deployed |-> r.deployed, smoked |-> r.smoked, rooted |-> r.rooted,
              subscribed |-> r.subscribed, replayed |-> r.replayed, ever |-> r.ever]
      /\ r.ids \in [Names -> 0..n] /\ r.wasm \in [Names -> Nat]
      /\ r.pools \in [Pools -> 0..n] /\ r.deployed \in [Pools -> Nat]
      /\ r.pools[Demo] = NoId
  BY <1>1 DEF IsRegistry
<1> HIDE DEF n
<1>6. CASE step.do = "deploy"
  <2> DEFINE ids  == [r.ids EXCEPT ![step.name] = run.got]
             wasm == [r.wasm EXCEPT ![step.name] = code[Kind(step.name)]]
             ever == r.ever \cup {run.got}
  <2>1. registry' = [r EXCEPT !.ids = ids, !.wasm = wasm, !.ever = ever]
    BY <1>1, <1>5, <1>6 DEF Written, Registered
  <2>2. step.name \in Names /\ Kind(step.name) \in {"token", "pool"}
    BY <1>2, <1>6 DEF Fits, Kind
  <2>3. ids \in [Names -> 0..n] /\ wasm \in [Names -> Nat]
    BY <1>3, <1>4, <1>5, <1>6, <2>2
  <2> HIDE DEF ids, wasm, ever, r, step
  <2>4. registry' = [accounts |-> r.accounts, ids |-> ids, wasm |-> wasm, pools |-> r.pools,
                     deployed |-> r.deployed, smoked |-> r.smoked, rooted |-> r.rooted,
                     subscribed |-> r.subscribed, replayed |-> r.replayed, ever |-> ever]
    BY <1>5, <2>1
  <2>5. IsRegistry(registry', n)
    BY <1>5, <2>3, <2>4 DEF IsRegistry
  <2> QED
    BY <1>3, <1>6, <2>2, <2>4, <2>5 DEF ids, wasm, ever, r, step, n
<1>7. CASE step.do # "deploy"
  <2>1. \/ \E x : registry' = [r EXCEPT !.accounts = x]
        \/ \E x : registry' = [r EXCEPT !.smoked = x]
        \/ \E x : registry' = [r EXCEPT !.replayed = x]
        \/ \E x : registry' = [r EXCEPT !.subscribed = x]
        \/ \E x : registry' = [r EXCEPT !.rooted = x]
        \/ registry' = r
    <3>1. CASE step.do = "accounts"
      <4>1. registry' = [r EXCEPT !.accounts = @ \cup
                          {StepsOf(run.script)[i].name : i \in 1..(run.at - 1)}]
        BY <1>1, <3>1 DEF Written
      <4> QED
        BY <4>1
    <3>2. CASE run.script = "smoke" /\ step.do = "subscribe"
      <4>1. registry' = [r EXCEPT !.smoked[step.pool] = TRUE]
        BY <1>1, <3>2 DEF Written
      <4> QED
        BY <4>1
    <3>3. CASE step.do = "replay"
      BY <1>1, <3>3 DEF Written
    <3>4. CASE run.script = "e2e" /\ step.do = "subscribe"
      BY <1>1, <3>4 DEF Written
    <3>5. CASE run.script = "e2e" /\ step.do = "update_accredited_set"
      BY <1>1, <3>5 DEF Written
    <3> QED
      BY <1>1, <1>7, <3>1, <3>2, <3>3, <3>4, <3>5 DEF Written
  <2>2. \E a, s, p, b, o :
          registry' = [accounts |-> a, ids |-> r.ids, wasm |-> r.wasm, pools |-> r.pools,
                       deployed |-> r.deployed, smoked |-> s, rooted |-> o,
                       subscribed |-> b, replayed |-> p, ever |-> r.ever]
    <3> HIDE DEF r, step
    <3>1. ASSUME NEW x, registry' = [r EXCEPT !.accounts = x]
          PROVE  registry' = [accounts |-> x, ids |-> r.ids, wasm |-> r.wasm,
                   pools |-> r.pools, deployed |-> r.deployed, smoked |-> r.smoked,
                   rooted |-> r.rooted, subscribed |-> r.subscribed,
                   replayed |-> r.replayed, ever |-> r.ever]
      BY <1>5, <3>1
    <3>2. ASSUME NEW x, registry' = [r EXCEPT !.smoked = x]
          PROVE  registry' = [accounts |-> r.accounts, ids |-> r.ids, wasm |-> r.wasm,
                   pools |-> r.pools, deployed |-> r.deployed, smoked |-> x,
                   rooted |-> r.rooted, subscribed |-> r.subscribed,
                   replayed |-> r.replayed, ever |-> r.ever]
      BY <1>5, <3>2
    <3>3. ASSUME NEW x, registry' = [r EXCEPT !.replayed = x]
          PROVE  registry' = [accounts |-> r.accounts, ids |-> r.ids, wasm |-> r.wasm,
                   pools |-> r.pools, deployed |-> r.deployed, smoked |-> r.smoked,
                   rooted |-> r.rooted, subscribed |-> r.subscribed,
                   replayed |-> x, ever |-> r.ever]
      BY <1>5, <3>3
    <3>4. ASSUME NEW x, registry' = [r EXCEPT !.subscribed = x]
          PROVE  registry' = [accounts |-> r.accounts, ids |-> r.ids, wasm |-> r.wasm,
                   pools |-> r.pools, deployed |-> r.deployed, smoked |-> r.smoked,
                   rooted |-> r.rooted, subscribed |-> x,
                   replayed |-> r.replayed, ever |-> r.ever]
      BY <1>5, <3>4
    <3>5. ASSUME NEW x, registry' = [r EXCEPT !.rooted = x]
          PROVE  registry' = [accounts |-> r.accounts, ids |-> r.ids, wasm |-> r.wasm,
                   pools |-> r.pools, deployed |-> r.deployed, smoked |-> r.smoked,
                   rooted |-> x, subscribed |-> r.subscribed,
                   replayed |-> r.replayed, ever |-> r.ever]
      BY <1>5, <3>5
    <3> QED
      BY <1>5, <2>1, <3>1, <3>2, <3>3, <3>4, <3>5
  <2>3. PICK a, s, p, b, o :
          registry' = [accounts |-> a, ids |-> r.ids, wasm |-> r.wasm, pools |-> r.pools,
                       deployed |-> r.deployed, smoked |-> s, rooted |-> o,
                       subscribed |-> b, replayed |-> p, ever |-> r.ever]
    BY <2>2
  <2> HIDE DEF r, step
  <2>4. IsRegistry(registry', n)
    BY <1>5, <2>3 DEF IsRegistry
  <2> QED
    BY <1>7, <2>3, <2>4 DEF r, step, n
<1> QED
  BY <1>6, <1>7

\* What Record leaves in the registry.
LEMMA RecordLeaves ==
  ASSUME Typed, Record
  PROVE  /\ IsRegistry(registry', Len(contracts))
         /\ registry'.pools = registry.pools /\ registry'.ids = registry.ids
         /\ registry'.wasm = registry.wasm /\ registry'.ever = registry.ever
         /\ Here.do = "deploy" /\ Fits(Here) /\ run.got \in 1..Len(contracts)
         /\ registry'.deployed = IF Kind(Here.name) = "pool"
                                 THEN [registry.deployed EXCEPT ![Here.pool] = run.got]
                                 ELSE registry.deployed
<1> DEFINE n == Len(contracts)
           r == registry
<1>1. /\ IsRegistry(registry, n) /\ Running /\ run.doing = "record"
      /\ Here.do = "deploy" /\ run.got \in 1..n /\ n \in Nat
  BY DEF Typed, Record, Goes, IsChain
<1>2. Fits(Here)
  <2>1. InScript /\ run.script \in Scripts
    BY <1>1, RunFields DEF Typed, Goes
  <2> QED
    BY <1>1, <2>1, HereFits
<1>3. /\ r = [accounts |-> r.accounts, ids |-> r.ids, wasm |-> r.wasm, pools |-> r.pools,
              deployed |-> r.deployed, smoked |-> r.smoked, rooted |-> r.rooted,
              subscribed |-> r.subscribed, replayed |-> r.replayed, ever |-> r.ever]
      /\ r.ids \in [Names -> 0..n] /\ r.wasm \in [Names -> Nat]
      /\ r.pools \in [Pools -> 0..n] /\ r.deployed \in [Pools -> Nat]
      /\ r.pools[Demo] = NoId
  BY <1>1 DEF IsRegistry
<1> DEFINE deployed == IF Kind(Here.name) = "pool"
                       THEN [r.deployed EXCEPT ![Here.pool] = run.got]
                       ELSE r.deployed
<1>4. registry' = [r EXCEPT !.deployed = deployed]
  BY <1>3 DEF Record
<1>5. deployed \in [Pools -> Nat]
  BY <1>1, <1>2, <1>3 DEF Fits
<1> HIDE DEF deployed, r, n
<1>6. registry' = [accounts |-> r.accounts, ids |-> r.ids, wasm |-> r.wasm, pools |-> r.pools,
                   deployed |-> deployed, smoked |-> r.smoked, rooted |-> r.rooted,
                   subscribed |-> r.subscribed, replayed |-> r.replayed, ever |-> r.ever]
  BY <1>3, <1>4
<1>7. IsRegistry(registry', n)
  BY <1>3, <1>5, <1>6 DEF IsRegistry
<1> QED
  BY <1>1, <1>2, <1>6, <1>7 DEF deployed, r, n

\* What publishing the pools leaves in the registry.
LEMMA PublishedLeaves ==
  ASSUME NEW n \in Nat, IsRegistry(registry, n), registry' = Published
  PROVE  /\ IsRegistry(registry', n)
         /\ registry'.pools = [p \in Pools |-> IF p = Demo THEN NoId
                                               ELSE registry.ids[Pool(p)]]
         /\ registry'.ids = [registry.ids EXCEPT ![Token(Demo)] = NoId, ![Pool(Demo)] = NoId]
         /\ registry'.wasm = registry.wasm /\ registry'.deployed = registry.deployed
         /\ registry'.ever = registry.ever
<1> DEFINE r == registry
<1>1. /\ r = [accounts |-> r.accounts, ids |-> r.ids, wasm |-> r.wasm, pools |-> r.pools,
              deployed |-> r.deployed, smoked |-> r.smoked, rooted |-> r.rooted,
              subscribed |-> r.subscribed, replayed |-> r.replayed, ever |-> r.ever]
      /\ r.ids \in [Names -> 0..n] /\ r.wasm \in [Names -> Nat]
      /\ r.pools \in [Pools -> 0..n] /\ r.deployed \in [Pools -> Nat]
      /\ r.pools[Demo] = NoId
  BY DEF IsRegistry
<1> DEFINE pools == [p \in Pools |-> IF p = Demo THEN NoId ELSE r.ids[Pool(p)]]
           ids   == [r.ids EXCEPT ![Token(Demo)] = NoId, ![Pool(Demo)] = NoId]
<1>2. registry' = [r EXCEPT !.pools = pools, !.ids = ids]
  BY <1>1 DEF Published
<1>3. NoId = 0 /\ 0 \in 0..n
  BY DEF NoId
<1>4. pools \in [Pools -> 0..n] /\ pools[Demo] = NoId /\ ids \in [Names -> 0..n]
  BY <1>1, <1>3, NamesAreNames
<1> HIDE DEF pools, ids, r
<1>5. registry' = [accounts |-> r.accounts, ids |-> ids, wasm |-> r.wasm, pools |-> pools,
                   deployed |-> r.deployed, smoked |-> r.smoked, rooted |-> r.rooted,
                   subscribed |-> r.subscribed, replayed |-> r.replayed, ever |-> r.ever]
  BY <1>1, <1>2
<1>6. IsRegistry(registry', n)
  BY <1>1, <1>4, <1>5 DEF IsRegistry
<1> QED
  BY <1>5, <1>6 DEF pools, ids, r

\* The registry names contracts that exist, after every step.
LEMMA RegistryNext ==
  ASSUME Typed, [Next]_vars
  PROVE  IsRegistry(registry', Len(contracts'))
<1>1. /\ IsRegistry(registry, Len(contracts)) /\ Len(contracts) \in Nat
      /\ Len(contracts') \in Nat /\ Len(contracts') >= Len(contracts)
  BY ChainNext DEF Typed, IsChain, Grows
<1>2. CASE UNCHANGED registry
  <2> DEFINE n == Len(contracts)
             m == Len(contracts')
  <2>1. n \in Nat /\ m \in Nat /\ m >= n /\ IsRegistry(registry, n)
    BY <1>1
  <2> HIDE DEF n, m
  <2>2. IsRegistry(registry, m)
    BY <2>1 DEF IsRegistry
  <2> QED
    BY <1>2, <2>2 DEF m
<1>3. CASE Record
  BY <1>3, RecordLeaves DEF Record
<1>4. CASE Write
  BY <1>4, WriteLeaves DEF Write
<1>5. CASE Pass
  BY <1>1, <1>2, <1>5, PublishedLeaves DEF Pass
<1> QED
  BY <1>2, <1>3, <1>4, <1>5
  DEF Next, vars, Start, PassOver, Generate, Decide, Settle, Fail, Interrupt, LateSettles,
      LateIsDropped, Rebuild

\* The sources change between runs, and only forward.
LEMMA OthersNext ==
  ASSUME Typed, [Next]_vars
  PROVE  /\ code' \in [{"token", "pool"} -> Nat \ {0}]
         /\ \A kind \in {"token", "pool"} : code'[kind] >= code[kind]
         /\ Running => code' = code
<1>1. code \in [{"token", "pool"} -> Nat \ {0}]
  BY DEF Typed
<1>2. CASE UNCHANGED code
  BY <1>1, <1>2
<1>3. ASSUME NEW kind \in {"token", "pool"}, Rebuild(kind)
      PROVE  /\ ~Running /\ code' = [code EXCEPT ![kind] = @ + 1]
  BY <1>3 DEF Rebuild
<1>4. CASE \E kind \in {"token", "pool"} : Rebuild(kind)
  BY <1>1, <1>3, <1>4
<1> QED
  BY <1>2, <1>4
  DEF Next, vars, Start, PassOver, Generate, Decide, Settle, Record, Write, Fail, Pass,
      Interrupt, LateSettles, LateIsDropped

\* Interruptions are only added to.
LEMMA TimesNext ==
  ASSUME IsTimes(times), [Next]_vars
  PROVE  /\ IsTimes(times')
         /\ times'.interruptions >= times.interruptions
<1> DEFINE t == times
<1>1. /\ t = [runs |-> t.runs, interruptions |-> t.interruptions,
              rebuilds |-> t.rebuilds, unfinished |-> t.unfinished]
      /\ t.interruptions \in Nat
  BY DEF IsTimes
<1>2. ASSUME NEW x, \/ times' = [t EXCEPT !.runs = x] \/ times' = [t EXCEPT !.rebuilds = x]
                    \/ times' = [t EXCEPT !.unfinished = x]
                    \/ \E y : times' = [t EXCEPT !.runs = y, !.unfinished = x]
      PROVE  IsTimes(times') /\ times'.interruptions = t.interruptions
  <2> HIDE DEF t
  <2>1. \E a, b, c : times' = [runs |-> a, interruptions |-> t.interruptions,
                               rebuilds |-> b, unfinished |-> c]
    BY <1>1, <1>2
  <2> QED
    BY <1>1, <2>1 DEF IsTimes
<1>3. ASSUME times' = [t EXCEPT !.interruptions = @ + 1]
      PROVE  IsTimes(times') /\ times'.interruptions = t.interruptions + 1
  <2> HIDE DEF t
  <2>1. times' = [runs |-> t.runs, interruptions |-> t.interruptions + 1,
                  rebuilds |-> t.rebuilds, unfinished |-> t.unfinished]
    BY <1>1, <1>3
  <2> QED
    BY <1>1, <2>1 DEF IsTimes
<1>4. CASE UNCHANGED times
  BY <1>1, <1>4 DEF IsTimes
<1>5. ASSUME NEW script, Start(script)
      PROVE  IsTimes(times') /\ times'.interruptions = t.interruptions
  BY <1>2, <1>5 DEF Start
<1>6. CASE Generate
  BY <1>1, <1>3, <1>4, <1>6 DEF Generate
<1>7. CASE Pass
  <2> DEFINE x == IF run.script = "market" THEN {} ELSE times.unfinished \ {run.script}
  <2>1. times' = [t EXCEPT !.unfinished = x]
    BY <1>7 DEF Pass
  <2> HIDE DEF x, t
  <2>2. IsTimes(times') /\ times'.interruptions = t.interruptions
    BY <1>2, <2>1
  <2> QED
    BY <1>1, <2>2 DEF t
<1>8. CASE Interrupt
  BY <1>1, <1>3, <1>8 DEF Interrupt
<1>9. ASSUME NEW kind, Rebuild(kind)
      PROVE  IsTimes(times') /\ times'.interruptions = t.interruptions
  BY <1>2, <1>9 DEF Rebuild
<1> QED
  BY <1>1, <1>4, <1>5, <1>6, <1>7, <1>8, <1>9
  DEF Next, vars, PassOver, Decide, Settle, Record, Write, Fail, LateSettles, LateIsDropped

\* What a dead script sent stays finite, and fit to be applied.
LEMMA LateNext ==
  ASSUME Typed, [Next]_vars
  PROVE  IsFiniteSet(late') /\ \A op \in late' : IsOp(op)
<1>1. IsFiniteSet(late) /\ \A op \in late : IsOp(op)
  BY DEF Typed
<1>2. CASE late' \subseteq late
  BY <1>1, <1>2, FS_Subset
<1>3. CASE Interrupt
  <2>1. CASE late' = late \cup {run.op} /\ run.doing = "send"
    <3>1. IsOp(run.op)
      BY <1>3, <2>1 DEF Typed, Goes, Interrupt
    <3> QED
      BY <1>1, <2>1, <3>1, FS_AddElement
  <2> QED
    BY <1>2, <1>3, <2>1 DEF Interrupt
<1> QED
  BY <1>2, <1>3
  DEF Next, vars, Start, PassOver, Generate, Decide, Settle, Record, Write, Fail, Pass,
      LateSettles, LateIsDropped, Rebuild, Applied

\* Where a run is, and what it holds there, after every step.
LEMMA GoesNext ==
  ASSUME Typed, [Next]_vars
  PROVE  Goes'
<1> SUFFICES ASSUME Running' PROVE Goes'
  BY DEF Goes
<1>a. IsRegistry(registry, Len(contracts)) /\ Len(contracts) \in Nat /\ Goes
  BY DEF Typed, IsChain
<1>b. Len(contracts') \in Nat /\ Len(contracts') >= Len(contracts)
  BY ChainNext DEF IsChain, Grows
<1>1. CASE UNCHANGED <<run, registry>>
  <2>1. Here' = Here /\ InScript' = InScript /\ run' = run
    BY <1>1, HereStays
  <2>2. Running
    BY <2>1 DEF Running
  <2> QED
    BY <1>a, <1>b, <2>1, <2>2 DEF Goes
<1>2. ASSUME NEW script \in Scripts, Start(script)
      PROVE  Goes'
  <2>1. /\ IsRun(run') /\ run'.doing = "look" /\ run'.got = NoId
    <3>1. run' = [script |-> script,
                  at |-> IF Recorded(script) THEN Len(StepsOf(script)) + 1 ELSE 1,
                  doing |-> "look", op |-> << >>, got |-> NoId, told |-> 0,
                  fresh |-> {}, overtaken |-> FALSE]
      BY <1>2 DEF Start
    <3>2. StepsOf(script) \in Seq(FittingSteps)
      BY <1>a, ScriptsFit
    <3>3. Len(StepsOf(script)) \in Nat
      <4> HIDE DEF FittingSteps
      <4> QED
        BY <3>2
    <3> DEFINE at == IF Recorded(script) THEN Len(StepsOf(script)) + 1 ELSE 1
    <3>4. at \in Nat \ {0}
      BY <3>3
    <3> HIDE DEF at
    <3>5. run' = [script |-> script, at |-> at, doing |-> "look", op |-> << >>,
                  got |-> NoId, told |-> 0, fresh |-> {}, overtaken |-> FALSE]
      BY <3>1 DEF at
    <3> QED
      BY <3>4, <3>5 DEF IsRun, NoId
  <2> QED
    BY <2>1 DEF Goes
\* A step of a run: what it writes of the run.
<1>3. ASSUME Running, NEW at \in Nat \ {0}, NEW doing \in {"look", "send", "record", "write"},
             NEW op, NEW got \in Nat, NEW told, NEW fresh, NEW overtaken,
             run' = [script |-> run.script, at |-> at, doing |-> doing, op |-> op,
                     got |-> got, told |-> told, fresh |-> fresh, overtaken |-> overtaken]
      PROVE  /\ IsRun(run') /\ run'.script = run.script /\ run'.at = at
             /\ run'.doing = doing /\ run'.op = op /\ run'.got = got
  BY <1>3, RunFields DEF IsRun
<1>c. Running => /\ run = [script |-> run.script, at |-> run.at, doing |-> run.doing,
                           op |-> run.op, got |-> run.got, told |-> run.told,
                           fresh |-> run.fresh, overtaken |-> run.overtaken]
                 /\ run.at \in Nat \ {0} /\ run.at + 1 \in Nat \ {0}
                 /\ run.doing \in {"look", "send", "record", "write"} /\ run.got \in Nat
  BY RunFields DEF IsRun
\* Goes on to look at the next step.
<1>4. ASSUME Running, IsRun(run'), run'.doing = "look", run'.got = NoId
      PROVE  Goes'
  BY <1>4 DEF Goes
<1>5. CASE PassOver
  <2>1. Running /\ run.doing = "look" /\ run.got = NoId
    BY <1>5, <1>a DEF PassOver, Looking, Goes
  <2>2. run' = [script |-> run.script, at |-> run.at + 1, doing |-> run.doing,
                op |-> run.op, got |-> run.got, told |-> run.told,
                fresh |-> run.fresh, overtaken |-> run.overtaken]
    BY <1>5, <1>c, <2>1 DEF PassOver
  <2>3. IsRun(run') /\ run'.doing = "look" /\ run'.got = NoId
    BY <1>3, <1>c, <2>1, <2>2
  <2> QED
    BY <1>4, <2>1, <2>3
<1>6. CASE Generate
  <2>1. Running /\ run.doing = "look" /\ run.got = NoId
    BY <1>6, <1>a DEF Generate, Looking, Goes
  <2>2. run' = [run EXCEPT !.at = @ + 1]
    BY <1>6 DEF Generate, Running, Ended
  <2>3. run' = [script |-> run.script, at |-> run.at + 1, doing |-> run.doing,
                op |-> run.op, got |-> run.got, told |-> run.told,
                fresh |-> run.fresh, overtaken |-> run.overtaken]
    BY <1>c, <2>1, <2>2
  <2>4. IsRun(run') /\ run'.doing = "look" /\ run'.got = NoId
    BY <1>3, <1>c, <2>1, <2>3
  <2> QED
    BY <1>4, <2>1, <2>4
<1>7. CASE Decide
  <2>1. /\ Running /\ run.doing = "look" /\ run.got = NoId /\ Here.do # "identity"
        /\ InScript /\ UNCHANGED <<registry, contracts>>
    BY <1>7, <1>a DEF Decide, Looking, Goes, InScript
  <2>2. /\ Fits(Here)
        /\ Here.do = "update_accredited_set" => run.script \in {"e2e", "market", "smoke"}
    BY <1>a, <2>1, HereFits, RunFields
  <2>3. CASE Here.do \in {"replay", "accounts"}
    <3>1. run' = [script |-> run.script, at |-> run.at, doing |-> "write",
                  op |-> run.op, got |-> run.got, told |-> run.told,
                  fresh |-> run.fresh, overtaken |-> run.overtaken]
      BY <1>7, <1>c, <2>1, <2>3 DEF Decide
    <3>2. /\ IsRun(run') /\ run'.script = run.script /\ run'.at = run.at
          /\ run'.doing = "write" /\ run'.got = NoId
      BY <1>3, <1>c, <2>1, <3>1
    <3>3. Here' = Here /\ InScript' = InScript
      BY <2>1, <3>2, HereStays
    <3>4. Here.do # "deploy"
      BY <2>3
    <3> QED
      BY <2>1, <3>2, <3>3, <3>4 DEF Goes
  <2>4. CASE Here.do \notin {"replay", "accounts"}
    <3> DEFINE op == Transaction(Here)
    <3>1. run' = [script |-> run.script, at |-> run.at, doing |-> "send",
                  op |-> op, got |-> run.got, told |-> run.told,
                  fresh |-> run.fresh, overtaken |-> run.overtaken]
      BY <1>7, <1>c, <2>1, <2>4 DEF Decide
    <3>2. IsOp(op) /\ op.do = Here.do
      <4>1. Here.do \in Sendable
        BY <2>1, <2>2, <2>4 DEF Fits, Dos
      <4> QED
        BY <2>1, <2>2, <4>1, TransactionFits, RunFields
    <3> HIDE DEF op
    <3>3. /\ IsRun(run') /\ run'.script = run.script /\ run'.at = run.at
          /\ run'.doing = "send" /\ run'.got = NoId /\ run'.op = op
      BY <1>3, <1>c, <2>1, <3>1
    <3>4. Here' = Here /\ InScript' = InScript
      BY <2>1, <3>3, HereStays
    <3> QED
      BY <2>1, <3>2, <3>3, <3>4 DEF Goes
  <2> QED
    BY <2>3, <2>4
<1>8. CASE Settle
  <2>1. /\ Running /\ run.doing = "send" /\ run.got = NoId /\ IsOp(run.op)
        /\ run.op.do = Here.do /\ InScript
        /\ UNCHANGED registry /\ Applied(run.op)
    BY <1>8, <1>a DEF Settle, Goes
  <2>2. Len(contracts') = IF run.op.do = "deploy" THEN Len(contracts) + 1 ELSE Len(contracts)
    BY <2>1, LenOnlyByDeploy
  <2>3. CASE run.op.do = "deploy"
    <3>1. run' = [script |-> run.script, at |-> run.at, doing |-> "record",
                  op |-> run.op, got |-> Len(contracts) + 1, told |-> run.told,
                  fresh |-> run.fresh, overtaken |-> run.overtaken]
      BY <1>8, <1>c, <2>1, <2>3 DEF Settle
    <3>2. /\ IsRun(run') /\ run'.script = run.script /\ run'.at = run.at
          /\ run'.doing = "record" /\ run'.got = Len(contracts) + 1
      BY <1>3, <1>a, <1>c, <2>1, <3>1
    <3>3. Here' = Here /\ InScript' = InScript
      BY <2>1, <3>2, HereStays
    <3>4. /\ run'.got \in 1..Len(contracts') /\ run'.got # NoId
          /\ Here'.do = "deploy"
      <4>1. Len(contracts') = Len(contracts) + 1
        BY <2>2, <2>3
      <4>2. Here'.do = "deploy"
        BY <2>1, <2>3, <3>3
      <4> QED
        BY <1>a, <3>2, <4>1, <4>2 DEF NoId
    <3>5. InScript'
      BY <2>1, <3>3
    <3> QED
      BY <3>2, <3>4, <3>5 DEF Goes
  <2>4. CASE run.op.do # "deploy"
    <3>1. run' = [script |-> run.script, at |-> run.at, doing |-> "write",
                  op |-> run.op, got |-> run.got, told |-> run.told,
                  fresh |-> run.fresh, overtaken |-> run.overtaken]
      BY <1>8, <1>c, <2>1, <2>4 DEF Settle
    <3>2. /\ IsRun(run') /\ run'.script = run.script /\ run'.at = run.at
          /\ run'.doing = "write" /\ run'.got = NoId
      BY <1>3, <1>c, <2>1, <3>1
    <3>3. Here' = Here /\ InScript' = InScript
      BY <2>1, <3>2, HereStays
    <3> QED
      BY <2>1, <2>4, <3>2, <3>3 DEF Goes
  <2> QED
    BY <2>3, <2>4
<1>9. CASE Record
  <2>1. /\ Running /\ Here.do = "deploy" /\ run.got \in 1..Len(contracts)
        /\ registry'.pools = registry.pools /\ InScript
        /\ UNCHANGED contracts
    BY <1>9, <1>a, RecordLeaves DEF Record, Goes
  <2>2. run' = [script |-> run.script, at |-> run.at, doing |-> "write",
                op |-> run.op, got |-> run.got, told |-> run.told,
                fresh |-> run.fresh, overtaken |-> run.overtaken]
    BY <1>9, <1>c, <2>1 DEF Record
  <2>3. /\ IsRun(run') /\ run'.script = run.script /\ run'.at = run.at
        /\ run'.doing = "write" /\ run'.got = run.got
    BY <1>3, <1>c, <2>1, <2>2
  <2>4. Here' = Here /\ InScript' = InScript
    BY <2>1, <2>3, HereStays
  <2> QED
    BY <2>1, <2>3, <2>4 DEF Goes
<1>10. CASE Write
  <2>1. Running
    BY <1>10 DEF Write
  <2>2. \E told, fresh :
          run' = [script |-> run.script, at |-> run.at + 1, doing |-> "look",
                  op |-> << >>, got |-> NoId, told |-> told,
                  fresh |-> fresh, overtaken |-> run.overtaken]
    <3> DEFINE told  == IF Here.do = "update_accredited_set" THEN At(Here.name).epoch
                        ELSE run.told
               fresh == IF Here.do \in {"deploy", "subscribe"} THEN run.fresh \cup {Here.name}
                        ELSE run.fresh
    <3>1. run' = [run EXCEPT !.at = @ + 1, !.doing = "look", !.told = told,
                             !.op = << >>, !.got = NoId, !.fresh = fresh]
      BY <1>10 DEF Write
    <3> HIDE DEF told, fresh
    <3>2. run' = [script |-> run.script, at |-> run.at + 1, doing |-> "look",
                  op |-> << >>, got |-> NoId, told |-> told,
                  fresh |-> fresh, overtaken |-> run.overtaken]
      BY <1>c, <2>1, <3>1
    <3> QED
      BY <3>2
  <2>3. IsRun(run') /\ run'.doing = "look" /\ run'.got = NoId
    <3>1. NoId \in Nat
      BY DEF NoId
    <3> QED
      BY <1>3, <1>c, <2>1, <2>2, <3>1
  <2> QED
    BY <1>4, <2>1, <2>3
<1>11. ASSUME NEW op \in late, LateSettles(op)
       PROVE  Goes'
  <2>1. CASE Running
    <3>1. UNCHANGED registry
      BY <1>11 DEF LateSettles
    <3>2. run' = [script |-> run.script, at |-> run.at, doing |-> run.doing,
                  op |-> run.op, got |-> run.got, told |-> run.told,
                  fresh |-> run.fresh, overtaken |-> TRUE]
      BY <1>11, <1>c, <2>1 DEF LateSettles
    <3>3. /\ IsRun(run') /\ run'.script = run.script /\ run'.at = run.at
          /\ run'.doing = run.doing /\ run'.got = run.got /\ run'.op = run.op
      BY <1>3, <1>c, <2>1, <3>2
    <3>4. Here' = Here /\ InScript' = InScript
      BY <3>1, <3>3, HereStays
    <3> QED
      BY <1>a, <1>b, <2>1, <3>3, <3>4 DEF Goes
  <2>2. CASE ~Running
    BY <1>1, <1>11, <2>2 DEF LateSettles
  <2> QED
    BY <2>1, <2>2
<1>12. CASE Fail \/ Pass \/ Interrupt
  BY <1>12 DEF Fail, Pass, Interrupt, Ended, Running
<1> QED
  BY <1>1, <1>2, <1>5, <1>6, <1>7, <1>8, <1>9, <1>10, <1>11, <1>12
  DEF Next, vars, LateIsDropped, Rebuild, Scripts

\* The types hold in the beginning.
LEMMA TypedInit == Init => Typed
<1> SUFFICES ASSUME Init PROVE Typed
  OBVIOUS
<1>1. IsChain(contracts) /\ Len(contracts) = 0
  BY DEF Init, IsChain
<1>2. IsRegistry(registry, Len(contracts))
  <2>1. registry = [accounts |-> registry.accounts,
                    ids   |-> [name \in Names |-> NoId],
                    wasm  |-> [name \in Names |-> 0],
                    pools |-> [p \in Pools |-> NoId],
                    deployed |-> [p \in Pools |-> 0],
                    smoked |-> registry.smoked,
                    rooted |-> FALSE, subscribed |-> NoId, replayed |-> FALSE,
                    ever |-> {}]
    BY DEF Init
  <2> QED
    BY <1>1, <2>1, NamesAreNames DEF IsRegistry, NoId
<1>3. code \in [{"token", "pool"} -> Nat \ {0}]
  BY DEF Init
<1>4. IsTimes(times)
  BY DEF Init, IsTimes
<1>5. IsFiniteSet(late) /\ \A op \in late : IsOp(op)
  BY FS_EmptySet DEF Init
<1>6. Goes
  BY DEF Init, Goes, Running
<1> QED
  BY <1>1, <1>2, <1>3, <1>4, <1>5, <1>6 DEF Typed

\* The types hold after every step.
LEMMA TypedNext == Typed /\ [Next]_vars => Typed'
<1> SUFFICES ASSUME Typed, [Next]_vars PROVE Typed'
  OBVIOUS
<1>1. IsTimes(times)
  BY DEF Typed
<1> QED
  BY <1>1, ChainNext, RegistryNext, OthersNext, TimesNext, LateNext, GoesNext DEF Typed

(***************************************************************************)
(* The registry names contracts that are on the chain, or none; what a run *)
(* holds fits the step it is at: the id of a deployment only between its   *)
(* settling and its being written, a transaction only while it is sent.    *)
(***************************************************************************)
THEOREM RunsAreTyped == Spec => []Typed
  BY TypedInit, TypedNext, PTL DEF Spec

-----------------------------------------------------------------------------
(* What interrupted runs leave behind. *)

(***************************************************************************)
(* The inductive invariant behind OneOrphanPerInterruption.  An orphan is on *)
(* the chain, was never in the registry and is not held by the run; a      *)
(* deployment whose script died counts like one before it settles, for it  *)
(* may become one without any further interruption.                        *)
(***************************************************************************)
Holding == IF Running THEN run.got ELSE NoId
Orphans == (1..Len(contracts)) \ (registry.ever \cup {Holding})
Deploys == {op \in late : op.do = "deploy"}
Counted == Cardinality(Orphans) + Cardinality(Deploys) <= times.interruptions

\* Sizes of two finite sets that lose or get a member.
LEMMA Sizes ==
  ASSUME NEW S, NEW T, NEW P, NEW Q, NEW x, IsFiniteSet(S), IsFiniteSet(T)
  PROVE  /\ Cardinality(S) \in Nat /\ Cardinality(T) \in Nat
         /\ P \subseteq S /\ Q \subseteq T =>
              /\ IsFiniteSet(P) /\ IsFiniteSet(Q)
              /\ Cardinality(P) \in Nat /\ Cardinality(Q) \in Nat
              /\ Cardinality(P) + Cardinality(Q) <= Cardinality(S) + Cardinality(T)
         /\ Cardinality(S \cup {x}) <= Cardinality(S) + 1
         /\ IsFiniteSet(S \cup {x})
         /\ x \in T => Cardinality(T \ {x}) = Cardinality(T) - 1
         /\ IsFiniteSet(T \ {x})
<1>1. Cardinality(S) \in Nat /\ Cardinality(T) \in Nat
  BY FS_CardinalityType
<1>2. ASSUME P \subseteq S, Q \subseteq T
      PROVE  /\ IsFiniteSet(P) /\ IsFiniteSet(Q)
             /\ Cardinality(P) \in Nat /\ Cardinality(Q) \in Nat
             /\ Cardinality(P) + Cardinality(Q) <= Cardinality(S) + Cardinality(T)
  <2>1. IsFiniteSet(P) /\ Cardinality(P) <= Cardinality(S)
    BY <1>2, FS_Subset
  <2>2. IsFiniteSet(Q) /\ Cardinality(Q) <= Cardinality(T)
    BY <1>2, FS_Subset
  <2>3. Cardinality(P) \in Nat /\ Cardinality(Q) \in Nat
    BY <2>1, <2>2, FS_CardinalityType
  <2> QED
    BY <1>1, <2>1, <2>2, <2>3
<1>3. /\ IsFiniteSet(S \cup {x})
      /\ Cardinality(S \cup {x}) = IF x \in S THEN Cardinality(S) ELSE Cardinality(S) + 1
  BY FS_AddElement
<1>4. /\ IsFiniteSet(T \ {x})
      /\ Cardinality(T \ {x}) = IF x \in T THEN Cardinality(T) - 1 ELSE Cardinality(T)
  BY FS_RemoveElement
<1> QED
  BY <1>1, <1>2, <1>3, <1>4

\* What is counted is finite.
LEMMA FiniteHere ==
  ASSUME Typed PROVE IsFiniteSet(Orphans) /\ IsFiniteSet(Deploys)
<1>1. IsFiniteSet(1..Len(contracts))
  BY FS_Interval DEF Typed, IsChain
<1>2. IsFiniteSet(late)
  BY DEF Typed
<1>3. Orphans \subseteq 1..Len(contracts) /\ Deploys \subseteq late
  BY DEF Orphans, Deploys
<1> QED
  BY <1>1, <1>2, <1>3, FS_Subset

\* A step may add one to what is lost, when it is an interruption or when a
\* deployment settles that was late.
Loses ==
  /\ times'.interruptions >= times.interruptions
  /\ \/ Orphans' \subseteq Orphans /\ Deploys' \subseteq Deploys
     \/ /\ times'.interruptions = times.interruptions + 1
        /\ \E x : \/ Orphans' \subseteq Orphans \cup {x} /\ Deploys' \subseteq Deploys
                  \/ Orphans' \subseteq Orphans /\ Deploys' \subseteq Deploys \cup {x}
     \/ \E x, op : /\ op \in Deploys
                   /\ Orphans' \subseteq Orphans \cup {x} /\ Deploys' \subseteq Deploys \ {op}

\* Such a step leaves the count within the interruptions.
LEMMA CountedByLoses ==
  ASSUME Typed, IsTimes(times'), Counted, Loses PROVE Counted'
<1> DEFINE O == Orphans
           D == Deploys
           P == Orphans'
           Q == Deploys'
           k == times.interruptions
           l == times'.interruptions
<1>1. IsFiniteSet(O) /\ IsFiniteSet(D) /\ k \in Nat /\ l \in Nat /\ l >= k
  BY FiniteHere DEF Typed, IsTimes, Loses
<1>2. Cardinality(O) + Cardinality(D) <= k
  BY DEF Counted
<1>3. /\ Cardinality(O) \in Nat /\ Cardinality(D) \in Nat
  BY <1>1, FS_CardinalityType
<1>4. Loses
  OBVIOUS
<1>5. SUFFICES Cardinality(P) + Cardinality(Q) <= l
  BY DEF Counted
<1>6. ASSUME P \subseteq O, Q \subseteq D
      PROVE  Cardinality(P) + Cardinality(Q) <= l
  <2> HIDE DEF O, D, P, Q, k, l
  <2>1. /\ Cardinality(P) \in Nat /\ Cardinality(Q) \in Nat
        /\ Cardinality(P) + Cardinality(Q) <= Cardinality(O) + Cardinality(D)
    BY <1>1, <1>6, Sizes
  <2> QED
    BY <1>1, <1>2, <1>3, <2>1
<1>7. ASSUME NEW x, l = k + 1, P \subseteq O \cup {x}, Q \subseteq D
      PROVE  Cardinality(P) + Cardinality(Q) <= l
  <2> HIDE DEF O, D, P, Q, k, l
  <2>1. IsFiniteSet(O \cup {x}) /\ Cardinality(O \cup {x}) <= Cardinality(O) + 1
    BY <1>1, Sizes
  <2>2. /\ Cardinality(O \cup {x}) \in Nat
        /\ Cardinality(P) \in Nat /\ Cardinality(Q) \in Nat
        /\ Cardinality(P) + Cardinality(Q) <= Cardinality(O \cup {x}) + Cardinality(D)
    BY <1>1, <1>7, <2>1, Sizes
  <2> QED
    BY <1>1, <1>2, <1>3, <1>7, <2>1, <2>2
<1>8. ASSUME NEW x, l = k + 1, P \subseteq O, Q \subseteq D \cup {x}
      PROVE  Cardinality(P) + Cardinality(Q) <= l
  <2> HIDE DEF O, D, P, Q, k, l
  <2>1. IsFiniteSet(D \cup {x}) /\ Cardinality(D \cup {x}) <= Cardinality(D) + 1
    BY <1>1, Sizes
  <2>2. /\ Cardinality(D \cup {x}) \in Nat
        /\ Cardinality(P) \in Nat /\ Cardinality(Q) \in Nat
        /\ Cardinality(P) + Cardinality(Q) <= Cardinality(O) + Cardinality(D \cup {x})
    BY <1>1, <1>8, <2>1, Sizes
  <2> QED
    BY <1>1, <1>2, <1>3, <1>8, <2>1, <2>2
<1>9. ASSUME NEW x, NEW op \in D, P \subseteq O \cup {x}, Q \subseteq D \ {op}
      PROVE  Cardinality(P) + Cardinality(Q) <= l
  <2> HIDE DEF O, D, P, Q, k, l
  <2>1. IsFiniteSet(O \cup {x}) /\ Cardinality(O \cup {x}) <= Cardinality(O) + 1
    BY <1>1, Sizes
  <2>2. IsFiniteSet(D \ {op}) /\ Cardinality(D \ {op}) = Cardinality(D) - 1
    BY <1>1, <1>9, Sizes
  <2>3. /\ Cardinality(O \cup {x}) \in Nat
        /\ Cardinality(P) \in Nat /\ Cardinality(Q) \in Nat
        /\ Cardinality(P) + Cardinality(Q) <= Cardinality(O \cup {x}) + Cardinality(D \ {op})
    BY <1>9, <2>1, <2>2, Sizes, ZenonT(60)
  <2>4. Cardinality(O \cup {x}) + Cardinality(D \ {op}) <= Cardinality(O) + Cardinality(D)
    BY <1>3, <2>1, <2>2, <2>3
  <2> QED
    BY <1>1, <1>2, <1>3, <2>2, <2>3, <2>4
<1> QED
  BY <1>4, <1>6, <1>7, <1>8, <1>9 DEF Loses

\* Every step is one.
LEMMA LosesNext ==
  ASSUME Typed, [Next]_vars
  PROVE  Loses
<1>a. /\ IsChain(contracts) /\ Len(contracts) \in Nat /\ Goes
      /\ times'.interruptions >= times.interruptions
  BY TimesNext DEF Typed, IsChain
<1>1. ASSUME UNCHANGED <<contracts, late>>, registry'.ever = registry.ever, Holding' = Holding
      PROVE  Loses
  BY <1>a, <1>1 DEF Loses, Orphans, Deploys
<1>2. Running /\ run.doing \in {"look", "send"} => Holding = NoId
  BY <1>a DEF Holding, Goes
<1>3. CASE UNCHANGED vars
  BY <1>1, <1>3 DEF vars, Holding, Running
<1>4. ASSUME NEW script \in Scripts, Start(script)
      PROVE  Loses
  <2>1. Holding = NoId /\ Holding' = NoId
    <3>1. run'.got = NoId /\ ~Running
      BY <1>4 DEF Start
    <3> QED
      BY <3>1 DEF Holding
  <2> QED
    BY <1>1, <1>4, <2>1 DEF Start
<1>5. CASE PassOver
  <2>1. Running /\ run' = [run EXCEPT !.at = @ + 1]
    BY <1>5 DEF PassOver, Looking
  <2>2. Holding' = Holding
    BY <2>1, RunFields DEF Holding, Running, IsRun
  <2> QED
    BY <1>1, <1>5, <2>2 DEF PassOver
<1>6. CASE Generate
  <2>1. Running /\ run' \in {[run EXCEPT !.at = @ + 1], Ended("interrupted")}
        /\ Holding = NoId
    BY <1>2, <1>6 DEF Generate, Looking
  <2>2. Holding' = Holding
    BY <2>1, RunFields DEF Holding, Running, IsRun, Ended
  <2> QED
    BY <1>1, <1>6, <2>2 DEF Generate
<1>7. CASE Decide
  <2>1. Running /\ (\/ run' = [run EXCEPT !.doing = "write"]
                    \/ \E op : run' = [run EXCEPT !.doing = "send", !.op = op])
    BY <1>7 DEF Decide, Looking
  <2>2. Holding' = Holding
    BY <2>1, RunFields DEF Holding, Running, IsRun
  <2> QED
    BY <1>1, <1>7, <2>2 DEF Decide
<1>8. CASE Settle
  <2>1. /\ Running /\ IsOp(run.op) /\ Applied(run.op) /\ Holding = NoId
        /\ late' \subseteq late /\ registry' = registry
    BY <1>2, <1>8, <1>a DEF Settle, Applied, Goes
  <2>2. Len(contracts') = IF run.op.do = "deploy" THEN Len(contracts) + 1 ELSE Len(contracts)
    BY <2>1, LenOnlyByDeploy
  <2>3. Holding' = IF run.op.do = "deploy" THEN Len(contracts) + 1 ELSE NoId
    <3>1. run' = IF run.op.do = "deploy"
                 THEN [run EXCEPT !.doing = "record", !.got = Len(contracts) + 1]
                 ELSE [run EXCEPT !.doing = "write"]
      BY <1>8 DEF Settle
    <3> DEFINE n == Len(contracts) + 1
    <3>2. run'.script = run.script /\ run'.got = IF run.op.do = "deploy" THEN n ELSE run.got
      <4> HIDE DEF n
      <4> QED
        BY <2>1, <3>1, RunFields DEF IsRun, n
    <3> QED
      BY <2>1, <3>2 DEF Holding, Running
  <2>4. Orphans' \subseteq Orphans
    <3>1. Orphans' = (1..Len(contracts')) \ (registry.ever \cup {Holding'})
      BY <2>1 DEF Orphans
    <3>2. Orphans = (1..Len(contracts)) \ (registry.ever \cup {NoId})
      BY <2>1 DEF Orphans
    <3> QED
      BY <1>a, <2>2, <2>3, <3>1, <3>2 DEF NoId
  <2> QED
    BY <1>a, <2>1, <2>4 DEF Loses, Deploys
<1>9. CASE Record
  <2>1. Running /\ run' = [run EXCEPT !.doing = "write"]
    BY <1>9 DEF Record
  <2>2. Holding' = Holding
    BY <2>1, RunFields DEF Holding, Running, IsRun
  <2> QED
    BY <1>1, <1>9, <2>2, RecordLeaves DEF Record
<1>10. CASE Write
  <2>1. Running /\ run.doing = "write" /\ UNCHANGED <<contracts, late>>
    BY <1>10 DEF Write
  <2>2. Holding' = NoId
    <3>1. run'.script = run.script /\ run'.got = NoId
      BY <1>10, <2>1, RunFields DEF Write, IsRun
    <3> QED
      BY <3>1 DEF Holding, Running
  <2>3. registry.ever \cup {Holding} \subseteq registry'.ever \cup {NoId}
    BY <1>10, <1>a, <2>1, WriteLeaves DEF Holding, Goes
  <2>4. Orphans' \subseteq Orphans
    BY <2>1, <2>2, <2>3 DEF Orphans
  <2> QED
    BY <1>a, <2>1, <2>4 DEF Loses, Deploys
<1>11. CASE Fail
  <2>1. Holding = NoId /\ Holding' = NoId
    BY <1>2, <1>11 DEF Fail, Looking, Holding, Ended, Running
  <2> QED
    BY <1>1, <1>11, <2>1 DEF Fail
<1>12. CASE Pass
  <2>1. Holding = NoId /\ Holding' = NoId
    BY <1>2, <1>12 DEF Pass, Holding, Ended, Running
  <2>2. registry'.ever = registry.ever
    <3>1. registry' = Published \/ registry' = registry
      BY <1>12 DEF Pass
    <3> QED
      BY <1>a, <3>1, PublishedLeaves DEF Typed
  <2> QED
    BY <1>1, <1>12, <2>1, <2>2 DEF Pass
<1>13. CASE Interrupt
  <2>1. /\ Running /\ UNCHANGED <<contracts, registry>> /\ Holding' = NoId
        /\ times'.interruptions = times.interruptions + 1
    BY <1>13 DEF Interrupt, Typed, IsTimes, Holding, Ended, Running
  <2>2. CASE late' = late
    <3>1. Orphans' \subseteq Orphans \cup {Holding}
      BY <2>1 DEF Orphans
    <3> QED
      BY <1>a, <2>1, <2>2, <3>1 DEF Loses, Deploys
  <2>3. CASE run.doing = "send" /\ late' = late \cup {run.op}
    <3>1. Orphans' \subseteq Orphans
      BY <1>2, <2>1, <2>3 DEF Orphans
    <3>2. Deploys' \subseteq Deploys \cup {run.op}
      BY <2>3 DEF Deploys
    <3> QED
      BY <1>a, <2>1, <3>1, <3>2 DEF Loses
  <2> QED
    BY <1>13, <2>2, <2>3 DEF Interrupt
<1>14. ASSUME NEW op \in late, LateSettles(op)
       PROVE  Loses
  <2>1. /\ IsOp(op) /\ Applied(op) /\ registry' = registry
        /\ late' = late \ Outnumbered(op) /\ op \in Outnumbered(op)
    BY <1>14 DEF LateSettles, Typed, Applied, Outnumbered
  <2>2. Len(contracts') = IF op.do = "deploy" THEN Len(contracts) + 1 ELSE Len(contracts)
    BY <2>1, LenOnlyByDeploy
  <2>3. Holding' = Holding
    <3>1. run' = IF Running THEN [run EXCEPT !.overtaken = TRUE] ELSE run
      BY <1>14 DEF LateSettles
    <3> QED
      BY <3>1, RunFields DEF Holding, Running, IsRun
  <2>4. CASE op.do = "deploy"
    <3>1. Orphans' \subseteq Orphans \cup {Len(contracts) + 1}
      BY <1>a, <2>1, <2>2, <2>3, <2>4 DEF Orphans
    <3>2. op \in Deploys /\ Deploys' \subseteq Deploys \ {op}
      BY <1>14, <2>1, <2>4 DEF Deploys
    <3> QED
      BY <1>a, <3>1, <3>2 DEF Loses
  <2>5. CASE op.do # "deploy"
    <3>1. Orphans' \subseteq Orphans
      BY <2>1, <2>2, <2>3, <2>5 DEF Orphans
    <3> QED
      BY <1>a, <2>1, <3>1 DEF Loses, Deploys
  <2> QED
    BY <2>4, <2>5
<1>15. ASSUME NEW op \in late, LateIsDropped(op)
       PROVE  Loses
  <2>1. Orphans' \subseteq Orphans
    BY <1>15 DEF LateIsDropped, Orphans, Holding, Running
  <2> QED
    BY <1>a, <1>15, <2>1 DEF LateIsDropped, Loses, Deploys
<1>16. ASSUME NEW kind, Rebuild(kind)
       PROVE  Loses
  BY <1>1, <1>16 DEF Rebuild, Holding, Running
<1> QED
  BY <1>3, <1>4, <1>5, <1>6, <1>7, <1>8, <1>9, <1>10, <1>11, <1>12, <1>13, <1>14, <1>15, <1>16
  DEF Next, Scripts

\* The count, after every step.
LEMMA CountedNext == Typed /\ Counted /\ [Next]_vars => Counted'
<1> SUFFICES ASSUME Typed, Counted, [Next]_vars PROVE Counted'
  OBVIOUS
<1>1. IsTimes(times')
  BY TimesNext DEF Typed
<1> QED
  BY <1>1, LosesNext, CountedByLoses

\* The count, in the beginning.
LEMMA CountedInit == Init => Counted
<1> SUFFICES ASSUME Init PROVE Counted
  OBVIOUS
<1>1. Orphans = {} /\ Deploys = {} /\ times.interruptions = 0
  BY DEF Init, Orphans, Deploys
<1> QED
  BY <1>1, FS_EmptySet DEF Counted

\* What the count says of the registry.
LEMMA CountedIsEnough == Typed /\ Counted => OneOrphanPerInterruption
<1> SUFFICES ASSUME Typed, Counted PROVE OneOrphanPerInterruption
  OBVIOUS
<1> DEFINE L == DOMAIN contracts \ registry.ever
<1>1. /\ IsFiniteSet(Orphans) /\ IsFiniteSet(Deploys)
      /\ Cardinality(Orphans) \in Nat /\ Cardinality(Deploys) \in Nat
      /\ times.interruptions \in Nat
      /\ Cardinality(Orphans) + Cardinality(Deploys) <= times.interruptions
  BY FiniteHere, FS_CardinalityType DEF Counted, Typed, IsTimes
<1>2. DOMAIN contracts = 1..Len(contracts)
  BY DEF Typed, IsChain
<1>3. CASE Running /\ run.got # NoId
  <2>1. L \subseteq Orphans \cup {Holding}
    BY <1>2 DEF Orphans
  <2>2. /\ IsFiniteSet(Orphans \cup {Holding})
        /\ Cardinality(Orphans \cup {Holding}) \in Nat
        /\ Cardinality(Orphans \cup {Holding}) <= Cardinality(Orphans) + 1
    BY <1>1, Sizes, FS_CardinalityType
  <2> HIDE DEF L
  <2>3. Cardinality(L) \in Nat /\ Cardinality(L) <= Cardinality(Orphans \cup {Holding})
    BY <2>1, <2>2, FS_Subset, FS_CardinalityType
  <2>4. Cardinality(L) <= times.interruptions + 1
    BY <1>1, <2>2, <2>3
  <2> QED
    BY <1>3, <2>4 DEF L, OneOrphanPerInterruption
<1>4. CASE ~(Running /\ run.got # NoId)
  <2>1. Holding = NoId
    BY <1>4 DEF Holding
  <2>2. L = Orphans
    BY <1>2, <2>1 DEF Orphans, NoId
  <2> HIDE DEF L
  <2>3. Cardinality(L) <= times.interruptions
    BY <1>1, <2>2
  <2>4. Cardinality(L) <= times.interruptions + 0
    BY <1>1, <2>3
  <2> QED
    BY <1>4, <2>4 DEF L, OneOrphanPerInterruption
<1> QED
  BY <1>3, <1>4

(***************************************************************************)
(* However the scripts die, every contract on the chain was in the registry *)
(* at some time, but for one per interruption and the one at hand          *)
(* (shouldReuseContract and the write after each deployment).              *)
(***************************************************************************)
THEOREM InterruptionsLoseOne == Spec => []OneOrphanPerInterruption
<1>1. Init => Typed /\ Counted
  BY TypedInit, CountedInit
<1>2. Typed /\ Counted /\ [Next]_vars => (Typed /\ Counted)'
  BY TypedNext, CountedNext
<1> QED
  BY <1>1, <1>2, CountedIsEnough, PTL DEF Spec

-----------------------------------------------------------------------------
(* The ledger the indexer starts from. *)

(***************************************************************************)
(* The inductive invariants behind IndexerStartsInTime.  The evidence of a *)
(* deployment is written before the contract; between the two, and when a  *)
(* run ends there, the ledgers are of a contract the registry does not have. *)
(***************************************************************************)
DemoPool == Pool(Demo)

\* The ledger of the demo pool is that of its deployment, and deploy.ts will
\* use it again.
Settled  == registry.deployed[Demo] = registry.ids[DemoPool]
Reusable == registry.ids[DemoPool] # NoId /\ registry.wasm[DemoPool] = code["pool"]

\* The evidence is ahead of the contract only while deploy.ts replaces a pool
\* that it does not use again, or was not let to finish.
DemoLedger ==
  /\ registry.wasm[DemoPool] <= code["pool"]
  /\ Reusable => Settled
  /\ registry.ids[DemoPool] # NoId /\ "deploy" \notin times.unfinished => Settled
  /\ run.script = "deploy" =>
       /\ "deploy" \in times.unfinished
       /\ run.at > 3 => Settled
       /\ run.at = 3 /\ run.doing # "look" => ~Reusable

\* When the contract is written the evidence is.
EvidenceFirst ==
  Running /\ run.doing = "write" /\ Here.do = "deploy" /\ Kind(Here.name) = "pool" =>
    registry.deployed[Here.pool] = run.got

\* And the same of the marketplace, whose pools are published at its end.
MarketLedgers ==
  /\ "market" \notin times.unfinished =>
       \A p \in Pools : registry.pools[p] # NoId =>
                          registry.deployed[p] = registry.pools[p]
  /\ run.script = "market" =>
       /\ "market" \in times.unfinished
       /\ run.at <= Len(MarketScript) + 1
       /\ \A b \in 1..Len(Market) : PoolPlace(b) < run.at =>
            registry.ids[Pool(Market[b])] = registry.deployed[Market[b]]

\* The steps for a pool of the marketplace.
LEMMA MarketStepsAre ==
  ASSUME NEW p
  PROVE  /\ MarketSteps(p)[1] = Step("deploy", p, Token(p))
         /\ MarketSteps(p)[2] = Step("initialize", p, Token(p))
         /\ MarketSteps(p)[3] = Step("deploy", p, Pool(p))
         /\ MarketSteps(p)[4] = Step("initialize", p, Pool(p))
         /\ MarketSteps(p)[5] = Step("set_admin", p, Token(p))
         /\ MarketSteps(p)[6] = Step("update_accredited_set", p, Pool(p))
         /\ MarketSteps(p)[7] = Step("mint", p, Usdc)
         /\ MarketSteps(p)[8] = Step("subscribe", p, Pool(p))
  BY DEF MarketSteps

\* The marketplace's pools, and the length of its script.
LEMMA MarketPoolsAre ==
  /\ Len(Market) \in Nat /\ Base \in Nat /\ DOMAIN Market = 1..Len(Market)
  /\ Len(MarketScript) = Base + 8 * Len(Market) /\ Len(MarketScript) \in Nat
  /\ DOMAIN MarketScript = 1..Len(MarketScript)
  /\ \A b \in 1..Len(Market) : Market[b] \in Pools /\ Market[b] # Demo
  /\ \A b, c \in 1..Len(Market) : Market[b] = Market[c] => b = c
  /\ \A p \in Pools : p # Demo => \E b \in 1..Len(Market) : p = Market[b]
<1>1. Len(Market) \in Nat /\ DOMAIN Market = 1..Len(Market)
  BY MarketAssumption
<1>2. Base \in Nat
  BY <1>1 DEF Base
<1>3. DOMAIN MarketScript = 1..Len(MarketScript)
  <2> HIDE DEF FittingSteps
  <2> QED
    BY MarketScriptFits
<1>4. Len(MarketScript) = Base + 8 * Len(Market)
  BY MarketScriptFits
<1>5. /\ \A b \in 1..Len(Market) : Market[b] \in Pools /\ Market[b] # Demo
      /\ \A b, c \in 1..Len(Market) : Market[b] = Market[c] => b = c
      /\ \A p \in Pools : p # Demo => \E b \in 1..Len(Market) : p = Market[b]
  BY <1>1, MarketAssumption, NamesAreNames DEF Pools
<1> QED
  BY <1>1, <1>2, <1>3, <1>4, <1>5

\* The marketplace deploys a pool in one place.
LEMMA MarketDeploys ==
  ASSUME NEW k \in 1..Len(MarketScript),
         MarketScript[k].do = "deploy", Kind(MarketScript[k].name) = "pool"
  PROVE  \E b \in 1..Len(Market) : /\ k = PoolPlace(b)
                                   /\ MarketScript[k] = Step("deploy", Market[b], Pool(Market[b]))
<1>1. ~(k \in 1..Base)
  BY MarketScriptFits, NamesDiffer
<1>2. k \in (Base + 1)..Len(MarketScript)
  BY <1>1, MarketPoolsAre
<1>3. PICK b \in 1..Len(Market), o \in 1..8 : k = Base + 8 * (b - 1) + o
  BY <1>2, MarketScriptFits
<1> DEFINE p == Market[b]
<1>4. MarketScript[k] = MarketSteps(p)[o]
  BY <1>3, MarketScriptFits
<1> HIDE DEF p
<1>5. \/ o = 1 \/ o = 2 \/ o = 3 \/ o = 4 \/ o = 5 \/ o = 6 \/ o = 7 \/ o = 8
  OBVIOUS
<1>6. o = 3
  BY <1>4, <1>5, MarketStepsAre, StepFields, NamesDiffer
<1> QED
  BY <1>3, <1>4, <1>6, MarketStepsAre DEF PoolPlace, Place, p

\* Each of its pools is deployed at its place.
LEMMA PoolPlaces ==
  ASSUME NEW b \in 1..Len(Market)
  PROVE  /\ PoolPlace(b) \in 1..Len(MarketScript)
         /\ MarketScript[PoolPlace(b)] = Step("deploy", Market[b], Pool(Market[b]))
         /\ \A c \in 1..Len(Market) : PoolPlace(b) = PoolPlace(c) => b = c
<1>1. PoolPlace(b) \in 1..Len(MarketScript)
  BY MarketPoolsAre DEF PoolPlace, Place
<1>2. MarketScript[PoolPlace(b)] = MarketSteps(Market[b])[3]
  BY MarketScriptFits DEF PoolPlace, Place
<1>3. \A c \in 1..Len(Market) : PoolPlace(b) = PoolPlace(c) => b = c
  BY MarketPoolsAre DEF PoolPlace, Place
<1> QED
  BY <1>1, <1>2, <1>3, MarketStepsAre

\* Who deploys, and what.
LEMMA DeploysHere ==
  ASSUME Typed, Running, InScript, Here.do = "deploy"
  PROVE  /\ Here.name \in Names
         /\ Kind(Here.name) = "pool" => Here.name = Pool(Here.pool) /\ Here.pool \in Pools
         /\ \/ /\ run.script = "deploy" /\ Here.pool = Demo
               /\ (Kind(Here.name) = "pool") <=> (run.at = 3)
            \/ /\ run.script = "market" /\ run.at \in 1..Len(MarketScript)
               /\ Here = MarketScript[run.at]
               /\ Kind(Here.name) = "pool" =>
                    \E b \in 1..Len(Market) : run.at = PoolPlace(b) /\ Here.pool = Market[b]
<1>1. Fits(Here)
  BY HereFits, RunFields DEF Typed
<1>2. Here = StepsOf(run.script)[run.at] /\ run.at \in DOMAIN StepsOf(run.script)
      /\ run.script \in Scripts
  BY RunFields DEF Here, InScript
<1>3. run.script # "setup"
  BY <1>2, FixedScriptsFit DEF StepsOf
<1>4. run.script # "smoke"
  <2>1. run.script = "smoke" => Here \in {SmokeScript[1], SmokeScript[2], SmokeScript[3]}
    BY <1>2 DEF StepsOf, SmokeScript
  <2> QED
    BY <2>1, StepFields DEF SmokeScript
<1>5. run.script # "e2e"
  <2>1. run.script = "e2e" => Here \in {E2EScript[1], E2EScript[2], E2EScript[3]}
    BY <1>2 DEF StepsOf, E2EScript
  <2> QED
    BY <2>1, StepFields DEF E2EScript
<1>6. ASSUME run.script = "deploy"
      PROVE  Here.pool = Demo /\ ((Kind(Here.name) = "pool") <=> (run.at = 3))
  <2>1. run.at \in 1..8 /\ Here = DeployScript[run.at]
    BY <1>2, <1>6 DEF StepsOf, DeployScript
  <2>2. /\ DeployScript[1] = Step("deploy", Demo, Usdc)
        /\ DeployScript[2] = Step("deploy", Demo, Token(Demo))
        /\ DeployScript[3] = Step("deploy", Demo, Pool(Demo))
        /\ DeployScript[4] = Step("initialize", Demo, Usdc)
        /\ DeployScript[5] = Step("initialize", Demo, Token(Demo))
        /\ DeployScript[6] = Step("initialize", Demo, Pool(Demo))
        /\ DeployScript[7] = Step("set_admin", Demo, Token(Demo))
        /\ DeployScript[8] = Step("mint", Demo, Usdc)
    BY DEF DeployScript
  <2>3. run.at \in {1, 2, 3}
    BY <2>1, <2>2, StepFields
  <2> QED
    BY <2>1, <2>2, <2>3, StepFields, NamesDiffer
<1>7. ASSUME run.script = "market"
      PROVE  /\ run.at \in 1..Len(MarketScript) /\ Here = MarketScript[run.at]
             /\ Kind(Here.name) = "pool" =>
                  \E b \in 1..Len(Market) : run.at = PoolPlace(b) /\ Here.pool = Market[b]
  <2>1. run.at \in 1..Len(MarketScript) /\ Here = MarketScript[run.at]
    BY <1>2, <1>7, MarketPoolsAre DEF StepsOf
  <2> QED
    BY <2>1, MarketDeploys, StepFields
<1> QED
  BY <1>1, <1>2, <1>3, <1>4, <1>5, <1>6, <1>7 DEF Fits, Scripts

\* A look at the chain, and what comes before the evidence.
LEMMA EvidenceNext ==
  ASSUME Typed, EvidenceFirst, [Next]_vars
  PROVE  EvidenceFirst'
<1> SUFFICES ASSUME Running', run'.doing = "write", Here'.do = "deploy",
                    Kind(Here'.name) = "pool"
             PROVE  registry'.deployed[Here'.pool] = run'.got
  BY DEF EvidenceFirst
<1>1. CASE UNCHANGED <<run, registry>>
  <2>1. Here' = Here /\ run' = run /\ registry' = registry
    BY <1>1, HereStays
  <2> QED
    BY <2>1 DEF EvidenceFirst, Running
<1>2. CASE Decide
  <2>1. Running /\ run.doing = "look" /\ registry' = registry /\ Here.do # "identity"
    BY <1>2 DEF Decide, Looking
  <2>2. run' = [run EXCEPT !.doing = "write"] /\ Here.do \in {"replay", "accounts"}
    <3>1. run' = IF Here.do \in {"replay", "accounts"} THEN [run EXCEPT !.doing = "write"]
                 ELSE [run EXCEPT !.doing = "send", !.op = Transaction(Here)]
      BY <1>2 DEF Decide
    <3> DEFINE op == Transaction(Here)
    <3> HIDE DEF op
    <3>2. run' = IF Here.do \in {"replay", "accounts"} THEN [run EXCEPT !.doing = "write"]
                 ELSE [run EXCEPT !.doing = "send", !.op = op]
      BY <3>1 DEF op
    <3> QED
      BY <2>1, <3>2, RunFields DEF IsRun
  <2>3. run'.script = run.script /\ run'.at = run.at
    BY <2>1, <2>2, RunFields DEF IsRun
  <2>4. Here' = Here
    BY <2>1, <2>3, HereStays
  <2> QED
    BY <2>2, <2>4
<1>3. CASE Settle
  <2>1. Running /\ run.doing = "send" /\ registry' = registry /\ run.op.do = Here.do
    BY <1>3 DEF Settle, Typed, Goes
  <2>2. run.op.do # "deploy" /\ run' = [run EXCEPT !.doing = "write"]
    BY <1>3, <2>1, RunFields DEF Settle, IsRun
  <2>3. run'.script = run.script /\ run'.at = run.at
    BY <2>1, <2>2, RunFields DEF IsRun
  <2>4. Here' = Here
    BY <2>1, <2>3, HereStays
  <2> QED
    BY <2>1, <2>2, <2>4
<1>4. CASE Record
  <2>1. Running /\ run' = [run EXCEPT !.doing = "write"] /\ run.doing = "record"
    BY <1>4 DEF Record
  <2>2. run'.script = run.script /\ run'.at = run.at /\ run'.got = run.got
    BY <2>1, RunFields DEF IsRun
  <2>3. Here' = Here
    BY <1>4, <2>2, RecordLeaves, HereStays
  <2>4. /\ registry'.deployed = [registry.deployed EXCEPT ![Here.pool] = run.got]
        /\ Here.pool \in Pools /\ DOMAIN registry.deployed = Pools
    BY <1>4, <2>3, RecordLeaves, RegistryFields DEF Fits, Typed
  <2> QED
    BY <2>2, <2>3, <2>4
<1>5. CASE Generate
  <2>1. Running /\ run.doing = "look"
    BY <1>5 DEF Generate, Looking
  <2>2. run'.doing = run.doing
    <3>1. run' \in {[run EXCEPT !.at = @ + 1], Ended("interrupted")}
      BY <1>5 DEF Generate
    <3> QED
      BY <2>1, <3>1, RunFields DEF IsRun, Ended, Running
  <2> QED
    BY <2>1, <2>2
<1>6. CASE PassOver
  <2>1. Running /\ run.doing = "look" /\ run' = [run EXCEPT !.at = @ + 1]
    BY <1>6 DEF PassOver, Looking
  <2> QED
    BY <2>1, RunFields DEF IsRun
<1>7. CASE Write
  <2>1. Running
    BY <1>7 DEF Write
  <2>2. run'.doing = "look"
    BY <1>7, <2>1, RunFields DEF Write, IsRun
  <2> QED
    BY <2>2
<1>8. ASSUME NEW op \in late, LateSettles(op)
      PROVE  registry'.deployed[Here'.pool] = run'.got
  <2>1. registry' = registry /\ run' = IF Running THEN [run EXCEPT !.overtaken = TRUE] ELSE run
    BY <1>8 DEF LateSettles
  <2>2. CASE Running
    <3>1. /\ run'.script = run.script /\ run'.at = run.at
          /\ run'.doing = run.doing /\ run'.got = run.got
      BY <2>1, <2>2, RunFields DEF IsRun
    <3>2. Here' = Here
      BY <2>1, <3>1, HereStays
    <3> QED
      BY <2>1, <2>2, <3>1, <3>2 DEF EvidenceFirst
  <2> QED
    BY <1>1, <2>1, <2>2
<1>9. CASE Fail \/ Pass \/ Interrupt
  BY <1>9 DEF Fail, Pass, Interrupt, Ended, Running
<1>10. ASSUME NEW script \in Scripts, Start(script)
       PROVE  registry'.deployed[Here'.pool] = run'.got
  <2>1. run'.doing = "look"
    BY <1>10 DEF Start
  <2> QED
    BY <2>1
<1> QED
  BY <1>1, <1>2, <1>3, <1>4, <1>5, <1>6, <1>7, <1>8, <1>9, <1>10
  DEF Next, vars, LateIsDropped, Rebuild, Scripts

\* Where a run is after a step.
LEMMA RunAfter ==
  ASSUME Typed, Running
  PROVE  /\ PassOver => /\ run'.script = run.script /\ run'.at = run.at + 1
                        /\ run'.doing = "look"
         /\ Generate /\ Running' => /\ run'.script = run.script /\ run'.at = run.at + 1
                                    /\ run'.doing = "look"
         /\ Decide => /\ run'.script = run.script /\ run'.at = run.at
                      /\ IF Here.do \in {"replay", "accounts"} THEN run'.doing = "write"
                         ELSE run'.doing = "send" /\ run'.op = Transaction(Here)
         /\ Settle => /\ run'.script = run.script /\ run'.at = run.at
                      /\ run'.doing = IF run.op.do = "deploy" THEN "record" ELSE "write"
                      /\ run'.op = run.op
         /\ Record => /\ run'.script = run.script /\ run'.at = run.at
                      /\ run'.doing = "write" /\ run'.got = run.got
         /\ Write  => /\ run'.script = run.script /\ run'.at = run.at + 1
                      /\ run'.doing = "look"
         /\ \A op : LateSettles(op) =>
                      /\ run'.script = run.script /\ run'.at = run.at /\ run'.op = run.op
                      /\ run'.doing = run.doing /\ run'.got = run.got
<1>1. IsRun(run)
  BY RunFields
<1>2. ASSUME PassOver
      PROVE  /\ run'.script = run.script /\ run'.at = run.at + 1 /\ run'.doing = "look"
  BY <1>1, <1>2 DEF PassOver, Looking, IsRun
<1>3. ASSUME Generate, Running'
      PROVE  /\ run'.script = run.script /\ run'.at = run.at + 1 /\ run'.doing = "look"
  <2>1. run' = [run EXCEPT !.at = @ + 1] /\ run.doing = "look"
    BY <1>3 DEF Generate, Looking, Ended, Running
  <2> QED
    BY <1>1, <2>1 DEF IsRun
<1>4. ASSUME Decide
      PROVE  /\ run'.script = run.script /\ run'.at = run.at
             /\ IF Here.do \in {"replay", "accounts"} THEN run'.doing = "write"
                ELSE run'.doing = "send" /\ run'.op = Transaction(Here)
  <2> DEFINE op == Transaction(Here)
             done == Here.do \in {"replay", "accounts"}
  <2>1. run' = IF done THEN [run EXCEPT !.doing = "write"]
               ELSE [run EXCEPT !.doing = "send", !.op = op]
    BY <1>4 DEF Decide
  <2> HIDE DEF op, done
  <2>2. /\ run'.script = run.script /\ run'.at = run.at
        /\ IF done THEN run'.doing = "write" ELSE run'.doing = "send" /\ run'.op = op
    BY <1>1, <2>1 DEF IsRun
  <2> QED
    BY <2>2 DEF op, done
<1>5. ASSUME Settle
      PROVE  /\ run'.script = run.script /\ run'.at = run.at
             /\ run'.doing = IF run.op.do = "deploy" THEN "record" ELSE "write"
             /\ run'.op = run.op
  <2> DEFINE n == Len(contracts) + 1
             deployed == run.op.do = "deploy"
  <2>1. run' = IF deployed THEN [run EXCEPT !.doing = "record", !.got = n]
               ELSE [run EXCEPT !.doing = "write"]
    BY <1>5 DEF Settle
  <2> HIDE DEF n, deployed
  <2>2. /\ run'.script = run.script /\ run'.at = run.at /\ run'.op = run.op
        /\ run'.doing = IF deployed THEN "record" ELSE "write"
    BY <1>1, <2>1 DEF IsRun
  <2> QED
    BY <2>2 DEF deployed
<1>6. ASSUME Record
      PROVE  /\ run'.script = run.script /\ run'.at = run.at
             /\ run'.doing = "write" /\ run'.got = run.got
  BY <1>1, <1>6 DEF Record, IsRun
<1>7. ASSUME Write
      PROVE  /\ run'.script = run.script /\ run'.at = run.at + 1 /\ run'.doing = "look"
  BY <1>1, <1>7 DEF Write, IsRun
<1>8. ASSUME NEW op, LateSettles(op)
      PROVE  /\ run'.script = run.script /\ run'.at = run.at /\ run'.op = run.op
             /\ run'.doing = run.doing /\ run'.got = run.got
  BY <1>1, <1>8 DEF LateSettles, IsRun
<1> QED
  BY <1>2, <1>3, <1>4, <1>5, <1>6, <1>7, <1>8

\* deploy.ts deploys its pool in the third step.
LEMMA DeployScriptIs ==
  /\ Len(DeployScript) = 8 /\ DOMAIN DeployScript = 1..8
  /\ \A k \in 1..8 : DeployScript[k].do # "identity"
  /\ DeployScript[3] = Step("deploy", Demo, DemoPool)
<1>1. /\ DeployScript[1] = Step("deploy", Demo, Usdc)
      /\ DeployScript[2] = Step("deploy", Demo, Token(Demo))
      /\ DeployScript[3] = Step("deploy", Demo, Pool(Demo))
      /\ DeployScript[4] = Step("initialize", Demo, Usdc)
      /\ DeployScript[5] = Step("initialize", Demo, Token(Demo))
      /\ DeployScript[6] = Step("initialize", Demo, Pool(Demo))
      /\ DeployScript[7] = Step("set_admin", Demo, Token(Demo))
      /\ DeployScript[8] = Step("mint", Demo, Usdc)
  BY DEF DeployScript
<1>2. Len(DeployScript) = 8 /\ DOMAIN DeployScript = 1..8
  BY DEF DeployScript
<1>3. ASSUME NEW k \in 1..8 PROVE DeployScript[k].do # "identity"
  <2>1. \/ k = 1 \/ k = 2 \/ k = 3 \/ k = 4 \/ k = 5 \/ k = 6 \/ k = 7 \/ k = 8
    BY <1>3
  <2> QED
    BY <1>1, <2>1, StepFields
<1> QED
  BY <1>1, <1>2, <1>3 DEF DemoPool

\* The ledger of the demo pool, after every step.
LEMMA DemoLedgerNext ==
  ASSUME Typed, EvidenceFirst, DemoLedger, [Next]_vars
  PROVE  DemoLedger'
<1>a. /\ Goes /\ IsRegistry(registry, Len(contracts)) /\ Len(contracts) \in Nat
      /\ code \in [{"token", "pool"} -> Nat \ {0}]
  BY DEF Typed, IsChain
<1>b. /\ registry.ids \in [Names -> 0..Len(contracts)] /\ registry.wasm \in [Names -> Nat]
      /\ registry.deployed \in [Pools -> Nat]
      /\ DemoPool \in Names /\ Demo \in Pools
  BY <1>a, RegistryFields, NamesAreNames DEF DemoPool
\* The step of deploy.ts that deploys the pool.
<1>c. ASSUME Running, run.script = "deploy", InScript
      PROVE  /\ run.at \in 1..8 /\ Here.do # "identity"
             /\ run.at = 3 => Here.do = "deploy" /\ Here.name = DemoPool
  BY <1>c, DeployScriptIs, StepFields DEF InScript, Here, StepsOf
<1>d. ASSUME run.script = "deploy" PROVE Reuses(DemoPool) <=> Reusable
  BY <1>d, NamesDiffer DEF Reuses, IdOf, Reusable, DemoPool
<1>1. ASSUME registry' = registry, code' = code, times'.unfinished = times.unfinished,
             \/ run'.script # "deploy"
             \/ run'.script = run.script /\ run'.at = run.at /\ run'.doing = run.doing
      PROVE  DemoLedger'
  BY <1>1 DEF DemoLedger, Settled, Reusable
<1>2. CASE UNCHANGED vars
  BY <1>1, <1>2 DEF vars
<1>3. ASSUME NEW script \in Scripts, Start(script)
      PROVE  DemoLedger'
  <2>1. run'.script = script /\ run'.at = IF Recorded(script) THEN Len(StepsOf(script)) + 1 ELSE 1
    BY <1>3 DEF Start
  <2>2. script = "deploy" => run'.at = 1
    BY <2>1 DEF Recorded
  <2>3. times'.unfinished = times.unfinished \cup ({script} \cap {"deploy", "market"})
    BY <1>3 DEF Start, Typed, IsTimes
  <2>4. registry' = registry /\ code' = code
    BY <1>3 DEF Start
  <2>5. /\ "deploy" \in times.unfinished => "deploy" \in times'.unfinished
        /\ script = "deploy" => "deploy" \in times'.unfinished
    BY <2>3
  <2>6. run'.script = "deploy" => run'.at = 1 /\ "deploy" \in times'.unfinished
    BY <2>1, <2>2, <2>5
  <2>7. run'.script = "deploy" => run'.doing = "look"
    BY <1>3 DEF Start
  <2> QED
    BY <2>4, <2>5, <2>6, <2>7 DEF DemoLedger, Settled, Reusable
<1>4. CASE PassOver
  <2>1. /\ Running /\ InScript /\ NotNeeded(Here) /\ registry' = registry /\ code' = code
        /\ times' = times /\ run.doing = "look"
    BY <1>4 DEF PassOver, Looking, InScript
  <2>2. run'.script = run.script /\ run'.at = run.at + 1 /\ run'.doing = "look"
    BY <1>4, <2>1, RunAfter
  <2>3. CASE run.script = "deploy"
    <3>1. run.at = 3 => Reusable
      <4> SUFFICES ASSUME run.at = 3 PROVE Reusable
        OBVIOUS
      <4>1. Here.do = "deploy" /\ Here.name = DemoPool
        BY <1>c, <2>1, <2>3
      <4>2. Reuses(Here.name)
        BY <2>1, <2>3, <4>1 DEF NotNeeded, NotNeededByDeploy
      <4> QED
        BY <1>d, <2>3, <4>1, <4>2
    <3>2. run.at \in 1..8
      BY <1>c, <2>1, <2>3
    <3> QED
      BY <2>1, <2>2, <2>3, <3>1, <3>2 DEF DemoLedger, Settled, Reusable
  <2> QED
    BY <1>1, <2>1, <2>2, <2>3
<1>5. CASE Generate
  <2>1. /\ Running /\ InScript /\ Here.do = "identity" /\ registry' = registry
        /\ code' = code /\ times'.unfinished = times.unfinished
    BY <1>5 DEF Generate, Looking, InScript, Typed, IsTimes
  <2>2. run.script # "deploy"
    BY <1>c, <2>1
  <2>3. run'.script # "deploy"
    BY <1>5, <2>1, <2>2, RunAfter DEF Running
  <2> QED
    BY <1>1, <2>1, <2>3
<1>6. CASE Decide
  <2>1. /\ Running /\ InScript /\ ~NotNeeded(Here) /\ registry' = registry /\ code' = code
        /\ times' = times
    BY <1>6 DEF Decide, Looking, InScript
  <2>2. run'.script = run.script /\ run'.at = run.at
    BY <1>6, <2>1, RunAfter
  <2>3. CASE run.script = "deploy"
    <3>1. run.at = 3 => ~Reusable
      <4> SUFFICES ASSUME run.at = 3 PROVE ~Reusable
        OBVIOUS
      <4>1. Here.do = "deploy" /\ Here.name = DemoPool
        BY <1>c, <2>1, <2>3
      <4>2. ~Reuses(Here.name)
        BY <2>1, <2>3, <4>1 DEF NotNeeded, NotNeededByDeploy
      <4> QED
        BY <1>d, <2>3, <4>1, <4>2
    <3> QED
      BY <2>1, <2>2, <2>3, <3>1 DEF DemoLedger, Settled, Reusable
  <2> QED
    BY <1>1, <2>1, <2>2, <2>3
<1>7. CASE Settle
  <2>1. /\ Running /\ run.doing = "send" /\ registry' = registry /\ code' = code
        /\ times' = times
    BY <1>7 DEF Settle
  <2>2. run'.script = run.script /\ run'.at = run.at
    BY <1>7, <2>1, RunAfter
  <2> QED
    BY <2>1, <2>2 DEF DemoLedger, Settled, Reusable
<1>8. CASE Record
  <2>1. /\ Running /\ run.doing = "record" /\ code' = code /\ times' = times /\ InScript
        /\ Here.do = "deploy"
    BY <1>8, <1>a DEF Record, Goes
  <2>2. run'.script = run.script /\ run'.at = run.at
    BY <1>8, <2>1, RunAfter
  <2>3. /\ registry'.ids = registry.ids /\ registry'.wasm = registry.wasm
        /\ registry'.deployed = IF Kind(Here.name) = "pool"
                                THEN [registry.deployed EXCEPT ![Here.pool] = run.got]
                                ELSE registry.deployed
    BY <1>8, RecordLeaves
  <2>4. CASE run.script = "deploy" /\ Kind(Here.name) = "pool"
    <3>1. run.at = 3
      BY <2>1, <2>4, DeploysHere
    <3>2. ~Reusable
      BY <2>1, <2>4, <3>1 DEF DemoLedger
    <3> QED
      BY <2>1, <2>2, <2>3, <2>4, <3>1, <3>2 DEF DemoLedger, Settled, Reusable
  <2>5. CASE ~(run.script = "deploy" /\ Kind(Here.name) = "pool")
    <3>1. registry'.deployed[Demo] = registry.deployed[Demo]
      <4>1. CASE Kind(Here.name) = "pool"
        <5>1. PICK b \in 1..Len(Market) : Here.pool = Market[b]
          BY <2>1, <2>5, <4>1, DeploysHere
        <5>2. Here.pool # Demo
          BY <5>1, MarketPoolsAre
        <5> QED
          BY <1>b, <2>3, <4>1, <5>2
      <4> QED
        BY <2>3, <4>1
    <3> QED
      BY <2>1, <2>2, <2>3, <3>1 DEF DemoLedger, Settled, Reusable
  <2> QED
    BY <2>4, <2>5
<1>9. CASE Write
  <2>1. /\ Running /\ run.doing = "write" /\ code' = code /\ times' = times /\ InScript
    BY <1>9, <1>a DEF Write, Goes
  <2>2. run'.script = run.script /\ run'.at = run.at + 1 /\ run'.doing = "look"
    BY <1>9, <2>1, RunAfter
  <2>3. registry'.deployed = registry.deployed
    BY <1>9, WriteLeaves
  <2>4. CASE Here.do = "deploy" /\ Here.name = DemoPool
    <3>1. Kind(Here.name) = "pool" /\ Here.pool = Demo /\ run.script = "deploy"
      <4>1. Kind(Here.name) = "pool" /\ Here.name = Pool(Here.pool)
        BY <2>1, <2>4, DeploysHere, NamesDiffer DEF DemoPool
      <4>2. Here.pool = Demo
        BY <2>4, <4>1, NamesDiffer DEF DemoPool
      <4> QED
        BY <2>1, <2>4, <4>1, <4>2, DeploysHere, MarketPoolsAre
    <3>2. registry.deployed[Demo] = run.got
      BY <2>1, <2>4, <3>1 DEF EvidenceFirst
    <3>3. /\ registry'.ids  = [registry.ids EXCEPT ![DemoPool] = run.got]
          /\ registry'.wasm = [registry.wasm EXCEPT ![DemoPool] = code["pool"]]
      BY <1>9, <2>4, <3>1, WriteLeaves
    <3>4. registry'.ids[DemoPool] = run.got /\ registry'.wasm[DemoPool] = code["pool"]
      BY <1>b, <3>3
    <3> QED
      BY <1>a, <2>1, <2>2, <2>3, <3>1, <3>2, <3>4 DEF DemoLedger, Settled, Reusable
  <2>5. CASE ~(Here.do = "deploy" /\ Here.name = DemoPool)
    <3>1. /\ registry'.ids[DemoPool] = registry.ids[DemoPool]
          /\ registry'.wasm[DemoPool] = registry.wasm[DemoPool]
      BY <1>9, <1>b, <2>5, WriteLeaves
    <3>2. run.script = "deploy" => run.at # 3 /\ run.at \in 1..8
      BY <1>c, <2>1, <2>5
    <3> QED
      BY <2>1, <2>2, <2>3, <3>1, <3>2 DEF DemoLedger, Settled, Reusable
  <2> QED
    BY <2>4, <2>5
<1>10. CASE Fail \/ Interrupt
  <2>1. run'.script # "deploy"
    BY <1>10 DEF Fail, Interrupt, Ended
  <2>2. times'.unfinished = times.unfinished
    BY <1>10 DEF Fail, Interrupt, Typed, IsTimes
  <2> QED
    BY <1>1, <1>10, <2>1, <2>2 DEF Fail, Interrupt
<1>11. CASE Pass
  <2>1. /\ Running /\ code' = code /\ run'.script = "none"
        /\ run.at = Len(StepsOf(run.script)) + 1
    BY <1>11 DEF Pass, Ended
  <2>2. times'.unfinished = IF run.script = "market" THEN {} ELSE times.unfinished \ {run.script}
    BY <1>11 DEF Pass, Typed, IsTimes
  <2>3. CASE run.script = "market"
    <3>1. registry' = Published
      BY <1>11, <2>3 DEF Pass
    <3>2. /\ registry'.ids = [registry.ids EXCEPT ![Token(Demo)] = NoId, ![Pool(Demo)] = NoId]
          /\ registry'.wasm = registry.wasm
      BY <1>a, <3>1, PublishedLeaves
    <3>3. registry'.ids[DemoPool] = NoId
      BY <1>b, <3>2 DEF DemoPool
    <3> QED
      BY <2>1, <3>2, <3>3 DEF DemoLedger, Settled, Reusable
  <2>4. CASE run.script # "market"
    <3>1. registry' = registry
      BY <1>11, <2>4 DEF Pass
    <3>2. run.script = "deploy" => run.at > 3
      <4>1. run.script = "deploy" => StepsOf(run.script) = DeployScript
        BY DEF StepsOf
      <4>2. Len(DeployScript) = 8
        BY DeployScriptIs
      <4>3. run.script = "deploy" => run.at = 8 + 1
        BY <2>1, <4>1, <4>2, ZenonT(60)
      <4> QED
        BY <4>3
    <3> QED
      BY <2>1, <2>2, <2>4, <3>1, <3>2 DEF DemoLedger, Settled, Reusable
  <2> QED
    BY <2>3, <2>4
<1>12. ASSUME NEW op \in late, LateSettles(op)
       PROVE  DemoLedger'
  <2>1. \/ run'.script # "deploy"
        \/ run'.script = run.script /\ run'.at = run.at /\ run'.doing = run.doing
    <3>1. CASE Running
      BY <1>12, <3>1, RunAfter
    <3>2. CASE ~Running
      BY <1>12, <3>2 DEF LateSettles, Running
    <3> QED
      BY <3>1, <3>2
  <2> QED
    BY <1>1, <1>12, <2>1 DEF LateSettles
<1>13. ASSUME NEW op \in late, LateIsDropped(op)
       PROVE  DemoLedger'
  BY <1>1, <1>13 DEF LateIsDropped
<1>14. ASSUME NEW kind \in {"token", "pool"}, Rebuild(kind)
       PROVE  DemoLedger'
  <2>1. /\ run' = run /\ registry' = registry /\ run.script = "none"
        /\ times'.unfinished = times.unfinished
    BY <1>14 DEF Rebuild, Running, Typed, IsTimes
  <2>2. code' = [code EXCEPT ![kind] = @ + 1]
    BY <1>14 DEF Rebuild
  <2>3. code'["pool"] = IF kind = "pool" THEN code["pool"] + 1 ELSE code["pool"]
    BY <1>a, <2>2
  <2>4. registry.wasm[DemoPool] \in Nat /\ code["pool"] \in Nat
    BY <1>a, <1>b
  <2> QED
    BY <2>1, <2>3, <2>4 DEF DemoLedger, Settled, Reusable
<1> QED
  BY <1>2, <1>3, <1>4, <1>5, <1>6, <1>7, <1>8, <1>9, <1>10, <1>11, <1>12, <1>13, <1>14
  DEF Next, Scripts

\* The ledgers of the marketplace's pools, after every step.
LEMMA MarketLedgersNext ==
  ASSUME Typed, EvidenceFirst, MarketLedgers, [Next]_vars
  PROVE  MarketLedgers'
<1>a. /\ Goes /\ IsRegistry(registry, Len(contracts)) /\ Len(contracts) \in Nat
  BY DEF Typed, IsChain
<1>b. /\ registry.ids \in [Names -> 0..Len(contracts)]
      /\ registry.pools \in [Pools -> 0..Len(contracts)]
      /\ registry.deployed \in [Pools -> Nat] /\ registry.pools[Demo] = NoId
      /\ \A b \in 1..Len(Market) : Market[b] \in Pools /\ Market[b] # Demo
                                   /\ Pool(Market[b]) \in Names
  BY <1>a, RegistryFields, NamesAreNames, MarketPoolsAre
<1>c. ASSUME Running, run.script = "market", InScript
      PROVE  /\ run.at \in 1..Len(MarketScript) /\ Len(MarketScript) \in Nat
             /\ \A b \in 1..Len(Market) : run.at = PoolPlace(b) =>
                  Here = Step("deploy", Market[b], Pool(Market[b]))
  BY <1>c, MarketPoolsAre, PoolPlaces DEF InScript, Here, StepsOf
<1>d. \A b \in 1..Len(Market) : PoolPlace(b) \in Nat /\ PoolPlace(b) <= Len(MarketScript)
                                /\ PoolPlace(b) >= 1
  BY PoolPlaces, MarketPoolsAre
<1>1. ASSUME registry' = registry, times'.unfinished = times.unfinished,
             \/ run'.script # "market"
             \/ run'.script = run.script /\ run'.at = run.at
      PROVE  MarketLedgers'
  BY <1>1 DEF MarketLedgers
<1>2. CASE UNCHANGED vars
  BY <1>1, <1>2 DEF vars
<1>3. ASSUME NEW script \in Scripts, Start(script)
      PROVE  MarketLedgers'
  <2>1. run'.script = script /\ run'.at = IF Recorded(script) THEN Len(StepsOf(script)) + 1 ELSE 1
    BY <1>3 DEF Start
  <2>2. script = "market" => run'.at = 1
    BY <2>1 DEF Recorded
  <2>3. times'.unfinished = times.unfinished \cup ({script} \cap {"deploy", "market"})
    BY <1>3 DEF Start, Typed, IsTimes
  <2>4. /\ "market" \in times.unfinished => "market" \in times'.unfinished
        /\ run'.script = "market" => "market" \in times'.unfinished /\ run'.at = 1
    BY <2>1, <2>2, <2>3
  <2>5. registry' = registry
    BY <1>3 DEF Start
  <2>6. \A b \in 1..Len(Market) : ~(PoolPlace(b) < 1)
    BY <1>d
  <2>7. 1 <= Len(MarketScript) + 1
    BY MarketPoolsAre
  <2> QED
    BY <2>4, <2>5, <2>6, <2>7 DEF MarketLedgers
\* Goes on after a step that does not deploy a pool.
<1>4. ASSUME Running, InScript, registry' = registry, times'.unfinished = times.unfinished,
             run'.script = run.script, run'.at = run.at + 1,
             run.script = "market" => ~(Here.do = "deploy" /\ Here.name # Usdc)
      PROVE  MarketLedgers'
  <2>1. CASE run.script = "market"
    <3>1. \A b \in 1..Len(Market) : run.at # PoolPlace(b)
      BY <1>4, <1>c, <2>1, StepFields, NamesDiffer
    <3>2. \A b \in 1..Len(Market) : PoolPlace(b) < run'.at => PoolPlace(b) < run.at
      BY <1>4, <1>c, <1>d, <2>1, <3>1
    <3>3. run'.at <= Len(MarketScript) + 1
      BY <1>4, <1>c, <2>1
    <3> QED
      BY <1>4, <2>1, <3>2, <3>3 DEF MarketLedgers
  <2> QED
    BY <1>1, <1>4, <2>1
<1>5. CASE PassOver
  <2>1. /\ Running /\ InScript /\ NotNeeded(Here) /\ registry' = registry /\ times' = times
    BY <1>5 DEF PassOver, Looking, InScript
  <2>2. run'.script = run.script /\ run'.at = run.at + 1
    BY <1>5, <2>1, RunAfter
  <2>3. run.script = "market" => ~(Here.do = "deploy" /\ Here.name # Usdc)
    BY <2>1 DEF NotNeeded, NotNeededByMarket
  <2> QED
    BY <1>4, <2>1, <2>2, <2>3
<1>6. CASE Generate
  <2>1. /\ Running /\ InScript /\ Here.do = "identity" /\ registry' = registry
        /\ times'.unfinished = times.unfinished
    BY <1>6 DEF Generate, Looking, InScript, Typed, IsTimes
  <2>2. CASE Running'
    BY <1>4, <1>6, <2>1, <2>2, RunAfter
  <2>3. CASE ~Running'
    BY <1>1, <2>1, <2>3 DEF Running
  <2> QED
    BY <2>2, <2>3
<1>7. CASE Decide \/ Settle
  <2>1. Running /\ registry' = registry /\ times' = times
    BY <1>7 DEF Decide, Settle, Looking
  <2> QED
    BY <1>1, <1>7, <2>1, RunAfter
<1>8. CASE Record
  <2>1. /\ Running /\ times' = times /\ InScript /\ Here.do = "deploy"
    BY <1>8, <1>a DEF Record, Goes
  <2>2. run'.script = run.script /\ run'.at = run.at
    BY <1>8, <2>1, RunAfter
  <2>3. /\ registry'.ids = registry.ids /\ registry'.pools = registry.pools
        /\ registry'.deployed = IF Kind(Here.name) = "pool"
                                THEN [registry.deployed EXCEPT ![Here.pool] = run.got]
                                ELSE registry.deployed
    BY <1>8, RecordLeaves
  <2>4. CASE Kind(Here.name) = "pool" /\ run.script = "deploy"
    <3>1. Here.pool = Demo
      BY <2>1, <2>4, DeploysHere
    <3>2. \A p \in Pools : p # Demo => registry'.deployed[p] = registry.deployed[p]
      BY <1>b, <2>3, <2>4, <3>1
    <3> QED
      BY <1>b, <2>1, <2>2, <2>3, <2>4, <3>2 DEF MarketLedgers
  <2>5. CASE Kind(Here.name) = "pool" /\ run.script = "market"
    <3>1. PICK b \in 1..Len(Market) : run.at = PoolPlace(b) /\ Here.pool = Market[b]
      BY <2>1, <2>5, DeploysHere
    <3>2. ASSUME NEW c \in 1..Len(Market), PoolPlace(c) < run.at
          PROVE  registry'.deployed[Market[c]] = registry.deployed[Market[c]]
      <4>1. c # b
        BY <1>d, <3>1, <3>2
      <4>2. Market[c] # Market[b]
        BY <4>1, MarketPoolsAre
      <4> QED
        BY <1>b, <2>3, <2>5, <3>1, <4>2
    <3> QED
      BY <2>1, <2>2, <2>3, <2>5, <3>2 DEF MarketLedgers
  <2>6. CASE Kind(Here.name) # "pool"
    BY <2>1, <2>2, <2>3, <2>6 DEF MarketLedgers
  <2> QED
    BY <2>1, <2>4, <2>5, <2>6, DeploysHere
<1>9. CASE Write
  <2>1. /\ Running /\ run.doing = "write" /\ times' = times /\ InScript
    BY <1>9, <1>a DEF Write, Goes
  <2>2. run'.script = run.script /\ run'.at = run.at + 1
    BY <1>9, <2>1, RunAfter
  <2>3. registry'.deployed = registry.deployed /\ registry'.pools = registry.pools
    BY <1>9, WriteLeaves
  <2>4. CASE run.script = "market"
    <3>1. run.at \in 1..Len(MarketScript) /\ Len(MarketScript) \in Nat
      BY <1>c, <2>1, <2>4
    <3>2. ASSUME NEW b \in 1..Len(Market), PoolPlace(b) < run'.at
          PROVE  registry'.ids[Pool(Market[b])] = registry.deployed[Market[b]]
      <4>1. CASE PoolPlace(b) = run.at
        <5>1. Here.do = "deploy" /\ Here.name = Pool(Market[b]) /\ Here.pool = Market[b]
          BY <1>c, <2>1, <2>4, <4>1, StepFields
        <5>2. registry.deployed[Market[b]] = run.got
          BY <2>1, <5>1, NamesDiffer DEF EvidenceFirst
        <5>3. registry'.ids = [registry.ids EXCEPT ![Pool(Market[b])] = run.got]
          BY <1>9, <5>1, WriteLeaves
        <5> QED
          BY <1>b, <5>2, <5>3
      <4>2. CASE PoolPlace(b) # run.at
        <5>1. PoolPlace(b) < run.at
          BY <1>d, <2>2, <3>1, <3>2, <4>2
        <5>2. registry.ids[Pool(Market[b])] = registry.deployed[Market[b]]
          BY <2>4, <5>1 DEF MarketLedgers
        <5>3. Here.do = "deploy" => Here.name # Pool(Market[b])
          <6> SUFFICES ASSUME Here.do = "deploy", Here.name = Pool(Market[b]) PROVE FALSE
            OBVIOUS
          <6>1. Kind(Here.name) = "pool"
            BY NamesDiffer
          <6>2. PICK c \in 1..Len(Market) : run.at = PoolPlace(c) /\ Here.pool = Market[c]
            BY <2>1, <2>4, <6>1, DeploysHere
          <6>3. Here.name = Pool(Market[c])
            BY <2>1, <6>1, <6>2, DeploysHere
          <6>4. b = c
            BY <6>3, NamesDiffer, MarketPoolsAre
          <6> QED
            BY <4>2, <6>2, <6>4
        <5>4. registry'.ids[Pool(Market[b])] = registry.ids[Pool(Market[b])]
          BY <1>9, <1>b, <5>3, WriteLeaves
        <5> QED
          BY <5>2, <5>4
      <4> QED
        BY <4>1, <4>2
    <3>3. run'.at <= Len(MarketScript) + 1
      BY <2>2, <3>1
    <3> QED
      BY <2>1, <2>2, <2>3, <2>4, <3>2, <3>3 DEF MarketLedgers
  <2>5. CASE run.script # "market"
    BY <2>1, <2>2, <2>3, <2>5 DEF MarketLedgers
  <2> QED
    BY <2>4, <2>5
<1>10. CASE Fail \/ Interrupt
  <2>1. run'.script # "market"
    BY <1>10 DEF Fail, Interrupt, Ended
  <2>2. times'.unfinished = times.unfinished
    BY <1>10 DEF Fail, Interrupt, Typed, IsTimes
  <2> QED
    BY <1>1, <1>10, <2>1, <2>2 DEF Fail, Interrupt
<1>11. CASE Pass
  <2>1. Running /\ run'.script = "none" /\ run.at = Len(StepsOf(run.script)) + 1
    BY <1>11 DEF Pass, Ended
  <2>2. times'.unfinished = IF run.script = "market" THEN {} ELSE times.unfinished \ {run.script}
    BY <1>11 DEF Pass, Typed, IsTimes
  <2>3. CASE run.script = "market"
    <3>1. registry' = Published
      BY <1>11, <2>3 DEF Pass
    <3>2. /\ registry'.pools = [p \in Pools |-> IF p = Demo THEN NoId
                                                ELSE registry.ids[Pool(p)]]
          /\ registry'.deployed = registry.deployed
      BY <1>a, <3>1, PublishedLeaves
    <3>3. run.at = Len(MarketScript) + 1
      BY <2>1, <2>3 DEF StepsOf
    <3>4. ASSUME NEW p \in Pools, registry'.pools[p] # NoId
          PROVE  registry'.deployed[p] = registry'.pools[p]
      <4>1. p # Demo /\ registry'.pools[p] = registry.ids[Pool(p)]
        BY <3>2, <3>4
      <4>2. PICK b \in 1..Len(Market) : p = Market[b]
        BY <4>1, MarketPoolsAre
      <4>3. PoolPlace(b) < run.at
        BY <1>d, <3>3, MarketPoolsAre
      <4> QED
        BY <2>3, <3>2, <4>1, <4>2, <4>3 DEF MarketLedgers
    <3> QED
      BY <2>1, <3>4 DEF MarketLedgers
  <2>4. CASE run.script # "market"
    <3>1. registry' = registry
      BY <1>11, <2>4 DEF Pass
    <3> QED
      BY <2>1, <2>2, <2>4, <3>1 DEF MarketLedgers
  <2> QED
    BY <2>3, <2>4
<1>12. ASSUME NEW op \in late, LateSettles(op)
       PROVE  MarketLedgers'
  <2>1. run'.script # "market" \/ (run'.script = run.script /\ run'.at = run.at)
    <3>1. CASE Running
      BY <1>12, <3>1, RunAfter
    <3>2. CASE ~Running
      BY <1>12, <3>2 DEF LateSettles, Running
    <3> QED
      BY <3>1, <3>2
  <2> QED
    BY <1>1, <1>12, <2>1 DEF LateSettles
<1>13. ASSUME NEW op \in late, LateIsDropped(op)
       PROVE  MarketLedgers'
  BY <1>1, <1>13 DEF LateIsDropped
<1>14. ASSUME NEW kind \in {"token", "pool"}, Rebuild(kind)
       PROVE  MarketLedgers'
  <2>1. /\ run' = run /\ registry' = registry /\ times'.unfinished = times.unfinished
    BY <1>14 DEF Rebuild, Typed, IsTimes
  <2> QED
    BY <1>1, <2>1
<1> QED
  BY <1>2, <1>3, <1>5, <1>6, <1>7, <1>8, <1>9, <1>10, <1>11, <1>12, <1>13, <1>14
  DEF Next, Scripts

\* The ledgers, in the beginning.
LEMMA LedgersInit == Init => EvidenceFirst /\ DemoLedger /\ MarketLedgers
<1> SUFFICES ASSUME Init PROVE EvidenceFirst /\ DemoLedger /\ MarketLedgers
  OBVIOUS
<1>1. /\ run.script = "none" /\ ~Running
      /\ registry.ids = [name \in Names |-> NoId]
      /\ registry.wasm = [name \in Names |-> 0]
      /\ registry.pools = [p \in Pools |-> NoId]
      /\ code["pool"] = 1
  BY DEF Init, Running
<1>2. DemoPool \in Names
  BY NamesAreNames DEF DemoPool
<1>3. registry.ids[DemoPool] = NoId /\ registry.wasm[DemoPool] = 0
  BY <1>1, <1>2
<1>4. DemoLedger
  BY <1>1, <1>3 DEF DemoLedger, Reusable
<1>5. MarketLedgers
  BY <1>1 DEF MarketLedgers
<1> QED
  BY <1>1, <1>4, <1>5 DEF EvidenceFirst

\* The least of a set of naturals is no more than any of them.
LEMMA LeastOfNaturals ==
  ASSUME NEW S, S \subseteq Nat, NEW x \in S
  PROVE  Min(S) <= x
<1>1. PICK m \in S : \A y \in S : <<y, m>> \notin OpToRel(<, Nat)
  BY NatLessThanWellFounded, WFMin
<1>2. \A y \in S : m <= y
  <2> SUFFICES ASSUME NEW y \in S, ~(m <= y) PROVE FALSE
    OBVIOUS
  <2>1. y \in Nat /\ m \in Nat /\ y < m
    OBVIOUS
  <2>2. <<y, m>> \in OpToRel(<, Nat)
    BY <2>1 DEF OpToRel
  <2> QED
    BY <1>1, <2>2
<1>3. Min(S) \in S /\ \A y \in S : Min(S) <= y
  BY <1>2 DEF Min
<1> QED
  BY <1>3

\* What the ledgers say of the indexer's start.
LEMMA LedgersAreEnough == Typed /\ DemoLedger /\ MarketLedgers => IndexerStartsInTime
<1> SUFFICES ASSUME Typed, DemoLedger, MarketLedgers, times.unfinished = {},
                    NEW p \in EventPools
             PROVE  IndexerStartLedger <= EventPool(p)
  BY DEF IndexerStartsInTime
<1>1. registry.deployed \in [Pools -> Nat] /\ Demo \in Pools
  BY RegistryFields, NamesAreNames DEF Typed
<1>2. ASSUME EventPool(p) \in PoolDeployLedgers
      PROVE  IndexerStartLedger <= EventPool(p)
  <2>1. PoolDeployLedgers \subseteq Nat
    <3>1. \A q \in Pools : registry.deployed[q] \in Nat
      BY <1>1
    <3>2. EventPools \subseteq Pools
      BY <1>1 DEF EventPools
    <3> QED
      BY <3>1, <3>2 DEF PoolDeployLedgers
  <2>2. IndexerStartLedger = Min(PoolDeployLedgers)
    BY <1>2 DEF IndexerStartLedger
  <2> QED
    BY <1>2, <2>1, <2>2, LeastOfNaturals
<1>3. CASE IsPublished
  <2>1. p \in Pools /\ registry.pools[p] # NoId /\ EventPool(p) = registry.pools[p]
    BY <1>3 DEF EventPools, EventPool
  <2>2. registry.deployed[p] = registry.pools[p]
    BY <2>1 DEF MarketLedgers
  <2> QED
    BY <1>2, <1>3, <2>1, <2>2 DEF PoolDeployLedgers, NoId
<1>4. CASE ~IsPublished
  <2>1. p = Demo /\ registry.ids[DemoPool] # NoId /\ EventPool(p) = registry.ids[DemoPool]
    BY <1>4 DEF EventPools, EventPool, DemoPool
  <2>2. registry.deployed[Demo] = registry.ids[DemoPool]
    BY <2>1 DEF DemoLedger, Settled
  <2> QED
    BY <1>1, <1>2, <1>4, <2>1, <2>2 DEF PoolDeployLedgers, NoId
<1> QED
  BY <1>3, <1>4

(***************************************************************************)
(* An indexer that starts from nothing starts no later than the pools it is *)
(* to index: the evidence of a deployment is written before the contract   *)
(* is, and the marketplace is published at its end.                        *)
(***************************************************************************)
THEOREM IndexersStartInTime == Spec => []IndexerStartsInTime
<1> DEFINE Inv == Typed /\ EvidenceFirst /\ DemoLedger /\ MarketLedgers
<1>1. Init => Inv
  BY TypedInit, LedgersInit
<1>2. Inv /\ [Next]_vars => Inv'
  BY TypedNext, EvidenceNext, DemoLedgerNext, MarketLedgersNext
<1>3. Inv => IndexerStartsInTime
  BY LedgersAreEnough
<1> QED
  BY <1>1, <1>2, <1>3, PTL DEF Spec

-----------------------------------------------------------------------------
(* What is published. *)

(***************************************************************************)
(* The inductive invariants behind PublishedPoolsWork.  deploy-marketplace.ts *)
(* publishes when it has done all its steps, each for the contracts that its *)
(* earlier steps registered, and a step once done stays done.              *)
(***************************************************************************)
\* What the steps for a pool up to one leave on the chain.
StepsDone(cs, ids, p, o) ==
  LET n == ids[Pool(p)]
      t == ids[Token(p)]
  IN  /\ t # NoId
      /\ o >= 3 => n # NoId
      /\ o >= 4 => cs[n].admin = Issuer(p) /\ cs[n].token = t
      /\ o >= 5 => cs[t].admin = Contract(n)
      /\ o >= 6 => cs[n].roster # "none" /\ cs[n].epoch >= 1
      /\ o >= 8 => \E epoch \in 1..cs[n].epoch : <<Investor(p), epoch>> \in cs[n].spent

\* Its transactions, while they are sent, are for the contracts registered.
MarketOp(op, step, ids) ==
  /\ op.id = ids[step.name]
  /\ op.by = IF step.do = "subscribe" THEN Investor(step.pool) ELSE Issuer(step.pool)
  /\ step.do = "initialize" => op.token = ids[Token(step.pool)]

OfficeOp(op, step, ids) ==
  /\ op.id = ids[step.name]
  /\ op.to = Contract(ids[Pool(step.pool)])

\* A step the run has done with.
Behind(b, o) ==
  \/ run.at > Place(b, o)
  \/ run.at = Place(b, o) /\ run.doing = "write" /\ Here.do # "deploy"

MarketDone ==
  run.script = "market" =>
    \A b \in 1..Len(Market), o \in 1..8 :
      /\ Behind(b, o) => StepsDone(contracts, registry.ids, Market[b], o)
      /\ run.at = Place(b, o) /\ run.doing = "send" =>
           /\ o \in {4, 6, 8} => MarketOp(run.op, Here, registry.ids)
           /\ o = 5 => OfficeOp(run.op, Here, registry.ids)

\* A published pool n works.
Works(cs, p, n) ==
  /\ cs[n].admin = Issuer(p)
  /\ cs[n].token \in 1..Len(cs)
  /\ cs[cs[n].token].admin = Contract(n)
  /\ cs[n].roster # "none"
  /\ \E epoch \in 1..cs[n].epoch : <<Investor(p), epoch>> \in cs[n].spent

PoolsWork ==
  \A p \in Pools : registry.pools[p] # NoId => Works(contracts, p, registry.pools[p])

\* What the steps for a pool left is not taken back.
LEMMA StepsDoneStay ==
  ASSUME NEW cs, IsChain(cs), NEW ds, IsChain(ds), Len(ds) >= Len(cs),
         \A i \in 1..Len(cs) : Later(cs[i], ds[i]),
         NEW ids \in [Names -> 0..Len(cs)], NEW p \in Pools, NEW o \in 1..8,
         StepsDone(cs, ids, p, o)
  PROVE  StepsDone(ds, ids, p, o)
<1> DEFINE n == ids[Pool(p)]
           t == ids[Token(p)]
<1>1. Len(cs) \in Nat /\ \A i \in 1..Len(cs) : cs[i].epoch \in Nat
  BY DEF IsChain, IsContract
<1>2. n \in 0..Len(cs) /\ t \in 0..Len(cs)
  BY NamesAreNames
<1>3. /\ t # NoId
      /\ o >= 3 => n # NoId
      /\ o >= 4 => cs[n].admin = Issuer(p) /\ cs[n].token = t
      /\ o >= 5 => cs[t].admin = Contract(n)
      /\ o >= 6 => cs[n].roster # "none" /\ cs[n].epoch >= 1
      /\ o >= 8 => \E epoch \in 1..cs[n].epoch : <<Investor(p), epoch>> \in cs[n].spent
  BY DEF StepsDone
<1> HIDE DEF n, t
<1>4. t \in 1..Len(cs) /\ Later(cs[t], ds[t])
  BY <1>1, <1>2, <1>3 DEF NoId
<1>5. o >= 3 => n \in 1..Len(cs) /\ Later(cs[n], ds[n]) /\ cs[n].epoch \in Nat
  BY <1>1, <1>2, <1>3 DEF NoId
<1>6. o >= 4 => ds[n].admin = Issuer(p) /\ ds[n].token = t
  BY <1>3, <1>5, AddressesDiffer DEF Later
<1>7. o >= 5 => ds[t].admin = Contract(n)
  BY <1>3, <1>4, AddressesDiffer DEF Later
<1>8. o >= 6 => ds[n].roster # "none" /\ ds[n].epoch >= 1
  BY <1>3, <1>5 DEF Later
<1>9. o >= 8 => \E epoch \in 1..ds[n].epoch : <<Investor(p), epoch>> \in ds[n].spent
  <2> SUFFICES ASSUME o >= 8
               PROVE  \E epoch \in 1..ds[n].epoch : <<Investor(p), epoch>> \in ds[n].spent
    OBVIOUS
  <2>1. PICK epoch \in 1..cs[n].epoch : <<Investor(p), epoch>> \in cs[n].spent
    BY <1>3
  <2>2. ds[n].epoch \in Nat /\ ds[n].epoch >= cs[n].epoch /\ cs[n].spent \subseteq ds[n].spent
    BY <1>5 DEF Later
  <2>3. epoch \in 1..ds[n].epoch
    BY <1>5, <2>2
  <2> QED
    BY <2>1, <2>2, <2>3
<1> QED
  BY <1>3, <1>6, <1>7, <1>8, <1>9 DEF StepsDone, n, t

\* A pool that works goes on working.
LEMMA WorksStays ==
  ASSUME NEW cs, IsChain(cs), NEW ds, IsChain(ds), Len(ds) >= Len(cs),
         \A i \in 1..Len(cs) : Later(cs[i], ds[i]),
         NEW p, NEW n \in 1..Len(cs), Works(cs, p, n)
  PROVE  Works(ds, p, n)
<1> DEFINE t == cs[n].token
<1>1. Len(cs) \in Nat /\ Len(ds) \in Nat /\ \A i \in 1..Len(cs) : cs[i].epoch \in Nat
  BY DEF IsChain, IsContract
<1>2. /\ cs[n].admin = Issuer(p) /\ t \in 1..Len(cs) /\ cs[t].admin = Contract(n)
      /\ cs[n].roster # "none"
  BY DEF Works
<1>3. Later(cs[n], ds[n]) /\ Later(cs[t], ds[t])
  BY <1>2
<1>4. ds[n].admin = Issuer(p) /\ ds[n].token = t /\ ds[n].roster # "none"
  BY <1>2, <1>3, AddressesDiffer DEF Later
<1>5. ds[t].admin = Contract(n)
  BY <1>2, <1>3, AddressesDiffer DEF Later
<1>6. t \in 1..Len(ds)
  BY <1>1, <1>2
<1>7. PICK epoch \in 1..cs[n].epoch : <<Investor(p), epoch>> \in cs[n].spent
  BY DEF Works
<1>8. epoch \in 1..ds[n].epoch /\ <<Investor(p), epoch>> \in ds[n].spent
  BY <1>1, <1>3, <1>7 DEF Later
<1> HIDE DEF t
<1> QED
  BY <1>4, <1>5, <1>6, <1>8 DEF Works

\* A pool all of whose steps are done works.
LEMMA AllStepsWork ==
  ASSUME NEW cs, NEW ids \in [Names -> 0..Len(cs)], Len(cs) \in Nat, NEW p \in Pools,
         StepsDone(cs, ids, p, 8)
  PROVE  ids[Pool(p)] # NoId /\ Works(cs, p, ids[Pool(p)])
<1>1. ids[Token(p)] \in 1..Len(cs)
  BY NamesAreNames DEF StepsDone, NoId
<1> QED
  BY <1>1 DEF StepsDone, Works

\* The steps for the pools have different places, in their order.
LEMMA Places ==
  ASSUME NEW b \in 1..Len(Market), NEW o \in 1..8
  PROVE  /\ Place(b, o) \in Nat
         /\ Place(b, o) \in 1..Len(MarketScript)
         /\ MarketScript[Place(b, o)] = MarketSteps(Market[b])[o]
         /\ \A c \in 1..Len(Market), q \in 1..8 :
              Place(b, o) = Place(c, q) => b = c /\ o = q
         /\ \A q \in 1..8 : q < o <=> Place(b, q) < Place(b, o)
<1>1. Len(Market) \in Nat /\ Base \in Nat /\ Len(MarketScript) = Base + 8 * Len(Market)
  BY MarketPoolsAre
<1>2. Place(b, o) \in Nat /\ Place(b, o) \in 1..Len(MarketScript)
  BY <1>1 DEF Place
<1>3. MarketScript[Place(b, o)] = MarketSteps(Market[b])[o]
  BY MarketScriptFits DEF Place
<1>4. \A c \in 1..Len(Market), q \in 1..8 : Place(b, o) = Place(c, q) => b = c /\ o = q
  BY <1>1 DEF Place
<1>5. \A q \in 1..8 : q < o <=> Place(b, q) < Place(b, o)
  BY <1>1 DEF Place
<1> QED
  BY <1>2, <1>3, <1>4, <1>5

\* Whatever the marketplace deploys has its place.
LEMMA MarketNames ==
  ASSUME NEW k \in 1..Len(MarketScript), MarketScript[k].do = "deploy"
  PROVE  \/ MarketScript[k].name = Usdc
         \/ \E b \in 1..Len(Market) :
              \/ k = Place(b, 1) /\ MarketScript[k].name = Token(Market[b])
              \/ k = Place(b, 3) /\ MarketScript[k].name = Pool(Market[b])
<1>1. CASE k \in 1..Base
  BY <1>1, MarketScriptFits
<1>2. CASE k \notin 1..Base
  <2>1. k \in (Base + 1)..Len(MarketScript)
    BY <1>2, MarketPoolsAre
  <2>2. PICK b \in 1..Len(Market), o \in 1..8 : k = Place(b, o)
    BY <2>1, MarketScriptFits DEF Place
  <2>3. MarketScript[k] = MarketSteps(Market[b])[o]
    BY <2>2, Places
  <2> DEFINE p == Market[b]
  <2> HIDE DEF p
  <2>4. \/ o = 1 \/ o = 2 \/ o = 3 \/ o = 4 \/ o = 5 \/ o = 6 \/ o = 7 \/ o = 8
    BY <2>2
  <2>5. MarketScript[k] = MarketSteps(p)[o]
    BY <2>3 DEF p
  <2>6. \/ o = 1 /\ MarketScript[k].name = Token(p)
        \/ o = 3 /\ MarketScript[k].name = Pool(p)
    BY <2>4, <2>5, MarketStepsAre, StepFields
  <2> QED
    BY <2>2, <2>6 DEF p
<1> QED
  BY <1>1, <1>2

\* What is done for a pool does not depend on the ids of others.
LEMMA StepsDoneMove ==
  ASSUME NEW cs, NEW ids, NEW jds, NEW p, NEW o \in 1..8, StepsDone(cs, ids, p, o),
         jds[Token(p)] = ids[Token(p)], o >= 3 => jds[Pool(p)] = ids[Pool(p)]
  PROVE  StepsDone(cs, jds, p, o)
  BY DEF StepsDone

\* The steps for a pool of the marketplace, one by one.
LEMMA PoolSteps ==
  ASSUME NEW p, NEW o \in 1..8
  PROVE  LET step == MarketSteps(p)[o] IN
         /\ step.pool = p
         /\ step.do \notin {"identity", "accounts", "replay"}
         /\ step.do = "deploy" <=> o \in {1, 3}
         /\ step.do = "initialize" <=> o \in {2, 4}
         /\ step.do = "set_admin" <=> o = 5
         /\ step.do = "update_accredited_set" <=> o = 6
         /\ step.do = "mint" <=> o = 7
         /\ step.do = "subscribe" <=> o = 8
         /\ o \in {1, 2, 5} => step.name = Token(p)
         /\ o \in {3, 4, 6, 8} => step.name = Pool(p)
         /\ o # 7 => step.name # Usdc
<1>1. \/ o = 1 \/ o = 2 \/ o = 3 \/ o = 4 \/ o = 5 \/ o = 6 \/ o = 7 \/ o = 8
  OBVIOUS
<1> QED
  BY <1>1, MarketStepsAre, StepFields, NamesDiffer

\* The transactions for a pool are its own.
LEMMA MarketTransactions ==
  ASSUME NEW p, NEW o \in {4, 5, 6, 8}, run.script = "market"
  PROVE  LET step == MarketSteps(p)[o] IN
         /\ o \in {4, 6, 8} => MarketOp(Transaction(step), step, registry.ids)
         /\ o = 5 => OfficeOp(Transaction(step), step, registry.ids)
<1> DEFINE step == MarketSteps(p)[o]
           op == Transaction(step)
<1>1. /\ op.id = IdOf(step.name) /\ op.by = Signer(step)
      /\ op.token = IF Kind(step.name) = "pool" THEN IdOf(Token(step.pool)) ELSE NoId
      /\ op.to = IF step.do = "set_admin" THEN Contract(IdOf(Pool(step.pool)))
                 ELSE Subscriber(step)
  BY DEF Transaction
<1>2. /\ step.pool = p
      /\ step.do = "initialize" <=> o = 4
      /\ step.do = "set_admin" <=> o = 5
      /\ step.do = "update_accredited_set" <=> o = 6
      /\ step.do = "subscribe" <=> o = 8
      /\ step.do \notin {"deploy", "mint", "replay"}
      /\ o # 5 => step.name = Pool(p)
  BY PoolSteps
<1> HIDE DEF step, op
<1>3. \A name : IdOf(name) = registry.ids[name]
  BY DEF IdOf
<1>4. Subscriber(step) = Investor(step.pool)
  BY DEF Subscriber
<1>5. ASSUME o # 5
      PROVE  Signer(step) = IF step.do = "subscribe" THEN Investor(step.pool)
                            ELSE Issuer(step.pool)
  <2>1. Pool(p)[1] = "pool" /\ Pool(p) # Usdc
    BY NamesDiffer DEF Pool
  <2> QED
    BY <1>2, <1>4, <1>5, <2>1 DEF Signer
<1>6. o \in {4, 6, 8} => MarketOp(op, step, registry.ids)
  <2>1. o \in {4, 6, 8} => Kind(step.name) = "pool"
    BY <1>2, NamesDiffer
  <2> QED
    BY <1>1, <1>2, <1>3, <1>5, <2>1 DEF MarketOp
<1>7. o = 5 => OfficeOp(op, step, registry.ids)
  BY <1>1, <1>2, <1>3 DEF OfficeOp
<1> QED
  BY <1>6, <1>7 DEF step, op

\* A transaction of the marketplace that settles leaves what its step is for.
LEMMA MarketSettles ==
  ASSUME Typed, MarketDone, Settle, run.script = "market",
         NEW b \in 1..Len(Market), NEW o \in 1..8, run.at = Place(b, o), o \notin {1, 3}
  PROVE  StepsDone(contracts', registry.ids, Market[b], o)
<1> DEFINE p == Market[b]
           ids == registry.ids
           n == ids[Pool(p)]
           t == ids[Token(p)]
<1>1. /\ IsChain(contracts) /\ Len(contracts) \in Nat /\ ids \in [Names -> 0..Len(contracts)]
      /\ p \in Pools
  BY MarketPoolsAre, RegistryFields DEF Typed, IsChain
<1>2. /\ n \in 0..Len(contracts) /\ t \in 0..Len(contracts)
  BY <1>1, NamesAreNames
<1>3. /\ Running /\ run.doing = "send" /\ IsOp(run.op) /\ run.op.do = Here.do
      /\ Applied(run.op) /\ InScript
  BY DEF Settle, Typed, Goes
<1>4. Here = MarketSteps(p)[o]
  <2>1. MarketScript[Place(b, o)] = MarketSteps(Market[b])[o]
    BY Places
  <2>2. Here = MarketScript[run.at]
    BY DEF Here, StepsOf
  <2> QED
    BY <2>1, <2>2
<1>5. /\ IsChain(contracts') /\ Len(contracts') >= Len(contracts)
      /\ \A i \in 1..Len(contracts) : Later(contracts[i], contracts'[i])
      /\ run.op.id \in 1..Len(contracts) => Leaves(run.op)
  <2>1. Admits(run.op) /\ contracts' = After(run.op)
    BY <1>3 DEF Applied
  <2> QED
    BY <1>1, <1>3, <2>1, ChainMoves
\* What the steps before it left is still there.
<1>6. StepsDone(contracts, ids, p, o - 1) /\ StepsDone(contracts', ids, p, o - 1)
  <2>1. PICK q \in 1..8 : q = o - 1 /\ q < o
    OBVIOUS
  <2>2. /\ Place(b, q) \in Nat /\ Place(b, o) \in Nat
        /\ Place(b, q) < Place(b, o)
    BY <2>1, MarketPoolsAre DEF Place
  <2>3. run.at > Place(b, q)
    BY <2>2
  <2>4. StepsDone(contracts, ids, p, q)
    BY <2>3 DEF MarketDone, Behind
  <2> HIDE DEF p, ids
  <2> QED
    BY <1>1, <1>5, <2>1, <2>4, StepsDoneStay
<1>7. /\ o \in {4, 6, 8} => MarketOp(run.op, Here, ids)
      /\ o = 5 => OfficeOp(run.op, Here, ids)
  BY <1>3 DEF MarketDone
<1>8. /\ Here.pool = p
      /\ Here.do = "initialize" <=> o \in {2, 4}
      /\ Here.do = "set_admin" <=> o = 5
      /\ Here.do = "update_accredited_set" <=> o = 6
      /\ Here.do = "subscribe" <=> o = 8
      /\ o = 5 => Here.name = Token(p)
      /\ o \in {4, 6, 8} => Here.name = Pool(p)
  BY <1>4, PoolSteps
<1> DEFINE op == run.op
<1>9. /\ t # NoId /\ t \in 1..Len(contracts)
      /\ o >= 4 => n # NoId /\ n \in 1..Len(contracts)
  BY <1>2, <1>6 DEF StepsDone, NoId
<1>10. o \in {4, 5, 6, 8} => Leaves(op)
  <2>1. o \in {4, 6, 8} => op.id = n
    BY <1>7, <1>8 DEF MarketOp
  <2>2. o = 5 => op.id = t
    BY <1>7, <1>8 DEF OfficeOp
  <2>3. o \in {4, 5, 6, 8} => op.id \in 1..Len(contracts)
    BY <1>9, <2>1, <2>2
  <2> QED
    BY <1>5, <2>3
<1>11. /\ o = 4 => contracts'[n].admin = Issuer(p) /\ contracts'[n].token = t
       /\ o = 5 => contracts'[t].admin = Contract(n)
  BY <1>3, <1>7, <1>8, <1>10 DEF MarketOp, OfficeOp, Leaves
<1>12. o = 6 => contracts'[n].roster # "none" /\ contracts'[n].epoch >= 1
  <2> SUFFICES ASSUME o = 6
               PROVE  contracts'[n].roster # "none" /\ contracts'[n].epoch >= 1
    OBVIOUS
  <2>1. contracts'[n].roster = op.roster /\ contracts'[n].epoch = contracts[n].epoch + 1
    BY <1>3, <1>7, <1>8, <1>10 DEF MarketOp, Leaves
  <2>2. op.roster # "none"
    BY <1>3, <1>8 DEF IsOp
  <2>3. contracts[n].epoch \in Nat
    BY <1>1, <1>9 DEF IsChain, IsContract
  <2> QED
    BY <2>1, <2>2, <2>3
<1>13. o = 8 => \E epoch \in 1..contracts'[n].epoch :
                   <<Investor(p), epoch>> \in contracts'[n].spent
  <2> SUFFICES ASSUME o = 8
               PROVE  \E epoch \in 1..contracts'[n].epoch :
                         <<Investor(p), epoch>> \in contracts'[n].spent
    OBVIOUS
  <2>1. /\ <<Investor(p), contracts[n].epoch>> \in contracts'[n].spent
        /\ contracts'[n].epoch = contracts[n].epoch
    BY <1>3, <1>7, <1>8, <1>10 DEF MarketOp, Leaves
  <2>2. contracts[n].epoch \in Nat /\ contracts[n].epoch >= 1
    BY <1>1, <1>6, <1>9 DEF IsChain, IsContract, StepsDone
  <2> DEFINE epoch == contracts[n].epoch
  <2> HIDE DEF epoch
  <2>3. epoch \in 1..contracts'[n].epoch /\ <<Investor(p), epoch>> \in contracts'[n].spent
    BY <2>1, <2>2 DEF epoch
  <2> QED
    BY <2>3
<1>14. \/ o = 2 \/ o = 4 \/ o = 5 \/ o = 6 \/ o = 7 \/ o = 8
  OBVIOUS
<1> HIDE DEF p, n, t, ids
<1>15. StepsDone(contracts', ids, p, o)
  <2>1. CASE o = 2
    <3>1. StepsDone(contracts', ids, p, 1)
      BY <1>6, <2>1
    <3> QED
      BY <2>1, <3>1 DEF StepsDone
  <2>2. CASE o = 4
    <3>1. StepsDone(contracts', ids, p, 3)
      BY <1>6, <2>2
    <3> QED
      BY <1>11, <2>2, <3>1 DEF StepsDone, n, t
  <2>3. CASE o = 5
    <3>1. StepsDone(contracts', ids, p, 4)
      BY <1>6, <2>3
    <3> QED
      BY <1>11, <2>3, <3>1 DEF StepsDone, n, t
  <2>4. CASE o = 6
    <3>1. StepsDone(contracts', ids, p, 5)
      BY <1>6, <2>4
    <3> QED
      BY <1>12, <2>4, <3>1 DEF StepsDone, n, t
  <2>5. CASE o = 7
    <3>1. StepsDone(contracts', ids, p, 6)
      BY <1>6, <2>5
    <3> QED
      BY <2>5, <3>1 DEF StepsDone
  <2>6. CASE o = 8
    <3>1. StepsDone(contracts', ids, p, 7)
      BY <1>6, <2>6
    <3> QED
      BY <1>13, <2>6, <3>1 DEF StepsDone, n, t
  <2> QED
    BY <1>14, <2>1, <2>2, <2>3, <2>4, <2>5, <2>6
<1> QED
  BY <1>15 DEF p, ids

\* The marketplace's progress, after every step.
LEMMA MarketDoneNext ==
  ASSUME Typed, MarketDone, [Next]_vars
  PROVE  MarketDone'
<1> DEFINE ids == registry.ids
<1>a. /\ Goes /\ IsRegistry(registry, Len(contracts)) /\ IsChain(contracts)
      /\ Len(contracts) \in Nat /\ ids \in [Names -> 0..Len(contracts)]
  BY RegistryFields DEF Typed, IsChain
<1> SUFFICES ASSUME run'.script = "market", NEW b \in 1..Len(Market), NEW o \in 1..8
             PROVE  /\ (\/ run'.at > Place(b, o)
                        \/ /\ run'.at = Place(b, o) /\ run'.doing = "write"
                           /\ Here'.do # "deploy")
                          => StepsDone(contracts', ids', Market[b], o)
                    /\ run'.at = Place(b, o) /\ run'.doing = "send" =>
                         /\ o \in {4, 6, 8} => MarketOp(run'.op, Here', ids')
                         /\ o = 5 => OfficeOp(run'.op, Here', ids')
  BY DEF MarketDone, Behind
<1> DEFINE p == Market[b]
           Goal == /\ (\/ run'.at > Place(b, o)
                       \/ /\ run'.at = Place(b, o) /\ run'.doing = "write"
                          /\ Here'.do # "deploy")
                         => StepsDone(contracts', ids', p, o)
                   /\ run'.at = Place(b, o) /\ run'.doing = "send" =>
                        /\ o \in {4, 6, 8} => MarketOp(run'.op, Here', ids')
                        /\ o = 5 => OfficeOp(run'.op, Here', ids')
<1> SUFFICES Goal
  OBVIOUS
<1>b. /\ p \in Pools
      /\ Place(b, o) \in Nat /\ Place(b, o) > 1
  <2>1. p \in Pools /\ Len(Market) \in Nat
    BY MarketPoolsAre
  <2>2. Place(b, o) \in Nat /\ Place(b, o) > 1
    BY <2>1 DEF Place, Base
  <2> QED
    BY <2>1, <2>2
\* In the middle of a run of the marketplace's script.
<1>c. ASSUME Running, run.script = "market"
      PROVE  /\ Behind(b, o) => StepsDone(contracts, ids, p, o)
             /\ Behind(b, o) /\ ids' = ids => StepsDone(contracts', ids', p, o)
             /\ run.at \in Nat
             /\ InScript => run.at \in 1..Len(MarketScript) /\ Here = MarketScript[run.at]
             /\ run.at = Place(b, o) => Here = MarketSteps(p)[o]
             /\ run.at = Place(b, o) /\ run.doing = "send" =>
                  /\ o \in {4, 6, 8} => MarketOp(run.op, Here, ids)
                  /\ o = 5 => OfficeOp(run.op, Here, ids)
  <2>1. Behind(b, o) => StepsDone(contracts, ids, p, o)
    BY <1>c DEF MarketDone
  <2>2. IsChain(contracts') /\ Grows
    BY ChainNext
  <2>3. Behind(b, o) => StepsDone(contracts', ids, p, o)
    <3> HIDE DEF p, ids
    <3> QED
      BY <1>a, <1>b, <2>1, <2>2, StepsDoneStay DEF Grows
  <2>4. run.at \in Nat
    BY <1>c, RunFields
  <2>5. /\ InScript => run.at \in 1..Len(MarketScript)
        /\ Here = MarketScript[run.at]
    BY <1>c, MarketPoolsAre DEF InScript, Here, StepsOf
  <2>6. run.at = Place(b, o) => Here = MarketSteps(p)[o]
    <3>1. MarketScript[Place(b, o)] = MarketSteps(Market[b])[o]
      BY Places
    <3> QED
      BY <2>5, <3>1
  <2>7. run.at = Place(b, o) /\ run.doing = "send" =>
          /\ o \in {4, 6, 8} => MarketOp(run.op, Here, ids)
          /\ o = 5 => OfficeOp(run.op, Here, ids)
    BY <1>c DEF MarketDone
  <2>8. Behind(b, o) /\ ids' = ids => StepsDone(contracts', ids', p, o)
    BY <2>3
  <2> QED
    BY <2>1, <2>4, <2>5, <2>6, <2>7, <2>8
\* A step that leaves the run where it is.
<1>1. ASSUME Running, registry' = registry, run'.script = run.script, run'.at = run.at,
             run'.doing = run.doing, run'.op = run.op
      PROVE  Goal
  <2>1. Here' = Here
    BY <1>1, HereStays
  <2>2. run.script = "market"
    BY <1>1
  <2> QED
    BY <1>1, <1>c, <2>1, <2>2 DEF Behind
<1>2. CASE UNCHANGED <<run, registry>>
  <2>1. Running
    BY <1>2 DEF Running
  <2> QED
    BY <1>1, <1>2, <2>1
<1>3. ASSUME NEW script \in Scripts, Start(script)
      PROVE  Goal
  <2>1. /\ run'.script = script /\ run'.doing = "look"
        /\ run'.at = IF Recorded(script) THEN Len(StepsOf(script)) + 1 ELSE 1
    BY <1>3 DEF Start
  <2>2. run'.at = 1
    BY <2>1 DEF Recorded
  <2> QED
    BY <1>b, <2>1, <2>2
\* A step after which the run looks at the next.
<1>4. ASSUME Running, registry'.ids = ids, run'.script = run.script, run'.at = run.at + 1,
             run'.doing = "look",
             run.at = Place(b, o) => StepsDone(contracts', ids, p, o)
      PROVE  Goal
  <2>1. run.script = "market"
    BY <1>4
  <2>2. run'.at > Place(b, o) => run.at > Place(b, o) \/ run.at = Place(b, o)
    BY <1>4, <1>b, <1>c, <2>1
  <2>3. run.at > Place(b, o) => StepsDone(contracts', ids', p, o)
    BY <1>4, <1>c, <2>1 DEF Behind
  <2> HIDE DEF p
  <2> QED
    BY <1>4, <2>2, <2>3
<1>5. CASE PassOver
  <2>1. /\ Running /\ InScript /\ NotNeeded(Here) /\ registry' = registry
        /\ contracts' = contracts
    BY <1>5 DEF PassOver, Looking, InScript
  <2>2. run'.script = run.script /\ run'.at = run.at + 1 /\ run'.doing = "look"
    BY <1>5, <2>1, RunAfter
  <2>3. ASSUME run.at = Place(b, o) PROVE StepsDone(contracts', ids, p, o)
    <3>1. Here = MarketSteps(p)[o] /\ run.script = "market"
      BY <1>c, <2>1, <2>2, <2>3
    <3>2. o = 7
      <4>1. /\ Here.do \notin {"identity", "accounts", "replay"}
            /\ Here.do = "mint" <=> o = 7
            /\ o # 7 => Here.name # Usdc
        BY <3>1, PoolSteps
      <4> QED
        BY <2>1, <3>1, <4>1 DEF NotNeeded, NotNeededByMarket
    <3>3. StepsDone(contracts, ids, p, 6)
      <4>1. Place(b, 6) \in Nat /\ Place(b, 6) < Place(b, 7)
        BY MarketPoolsAre DEF Place
      <4>2. run.at > Place(b, 6)
        BY <2>3, <3>2, <4>1
      <4> QED
        BY <3>1, <4>2 DEF MarketDone, Behind
    <3> HIDE DEF p, ids
    <3> QED
      BY <2>1, <3>2, <3>3 DEF StepsDone
  <2> QED
    BY <1>4, <2>1, <2>2, <2>3
<1>6. CASE Generate
  <2>1. Running /\ Here.do = "identity" /\ registry' = registry
    BY <1>6 DEF Generate, Looking
  <2>2. run'.script = run.script /\ run'.at = run.at + 1 /\ run'.doing = "look"
    BY <1>6, <2>1, RunAfter DEF Running
  <2>3. run.at # Place(b, o)
    <3>1. run.at = Place(b, o) => Here = MarketSteps(p)[o]
      BY <1>c, <2>1, <2>2
    <3>2. MarketSteps(p)[o].do # "identity"
      BY PoolSteps
    <3> QED
      BY <2>1, <3>1, <3>2
  <2> QED
    BY <1>4, <2>1, <2>2, <2>3
<1>7. CASE Decide
  <2>1. Running /\ registry' = registry
    BY <1>7 DEF Decide, Looking
  <2>2. /\ run'.script = run.script /\ run'.at = run.at
        /\ IF Here.do \in {"replay", "accounts"} THEN run'.doing = "write"
           ELSE run'.doing = "send" /\ run'.op = Transaction(Here)
    BY <1>7, <2>1, RunAfter
  <2>3. Here' = Here /\ run.script = "market"
    BY <2>1, <2>2, HereStays
  <2>4. CASE run.at = Place(b, o)
    <3>1. Here = MarketSteps(p)[o]
      BY <1>c, <2>1, <2>3, <2>4
    <3>2. Here.do \notin {"replay", "accounts"}
      BY <3>1, PoolSteps
    <3>3. run'.doing = "send" /\ run'.op = Transaction(Here)
      BY <2>2, <3>2
    <3>4. /\ o \in {4, 6, 8} => MarketOp(Transaction(Here), Here, ids)
          /\ o = 5 => OfficeOp(Transaction(Here), Here, ids)
      BY <2>3, <3>1, MarketTransactions
    <3>5. ~(run'.at > Place(b, o))
      BY <1>b, <2>2, <2>4
    <3> QED
      BY <2>1, <2>3, <3>3, <3>4, <3>5
  <2>5. CASE run.at # Place(b, o)
    BY <1>c, <2>1, <2>2, <2>3, <2>5 DEF Behind
  <2> QED
    BY <2>4, <2>5
<1>8. CASE Settle
  <2>1. Running /\ registry' = registry
    BY <1>8 DEF Settle
  <2>2. /\ run'.script = run.script /\ run'.at = run.at /\ run'.doing # "send"
    BY <1>8, <2>1, RunAfter
  <2>3. Here' = Here /\ run.script = "market"
    BY <2>1, <2>2, HereStays
  <2>4. CASE run.at = Place(b, o)
    <3>1. Here = MarketSteps(p)[o]
      BY <1>c, <2>1, <2>3, <2>4
    <3>2. Here.do # "deploy" => o \notin {1, 3}
      BY <3>1, PoolSteps
    <3>3. Here.do # "deploy" => StepsDone(contracts', ids, p, o)
      BY <1>8, <2>3, <2>4, <3>2, MarketSettles
    <3>4. ~(run'.at > Place(b, o))
      BY <1>b, <2>2, <2>4
    <3> QED
      BY <2>1, <2>2, <2>3, <3>3, <3>4
  <2>5. CASE run.at # Place(b, o)
    BY <1>c, <2>1, <2>2, <2>3, <2>5 DEF Behind
  <2> QED
    BY <2>4, <2>5
<1>9. CASE Record
  <2>1. Running /\ Here.do = "deploy" /\ registry'.ids = ids /\ registry'.pools = registry.pools
    BY <1>9, RecordLeaves DEF Record
  <2>2. /\ run'.script = run.script /\ run'.at = run.at /\ run'.doing = "write"
    BY <1>9, <2>1, RunAfter
  <2>3. Here' = Here /\ run.script = "market"
    BY <2>1, <2>2, HereStays
  <2> QED
    BY <1>c, <2>1, <2>2, <2>3 DEF Behind
<1>10. CASE Write
  <2>1. /\ Running /\ run.doing = "write" /\ InScript /\ contracts' = contracts
    BY <1>10, <1>a DEF Write, Goes
  <2>2. run'.script = run.script /\ run'.at = run.at + 1 /\ run'.doing = "look"
    BY <1>10, <2>1, RunAfter
  <2>3. run.script = "market"
    BY <2>2
  <2>4. CASE Here.do # "deploy"
    <3>1. registry'.ids = ids
      BY <1>10, <2>4, WriteLeaves
    <3>2. run.at = Place(b, o) => StepsDone(contracts', ids, p, o)
      BY <1>c, <2>1, <2>3, <2>4 DEF Behind
    <3> QED
      BY <1>4, <2>1, <2>2, <3>1, <3>2
  <2>5. CASE Here.do = "deploy"
    <3>1. /\ ids' = [ids EXCEPT ![Here.name] = run.got] /\ Here.name \in Names
          /\ run.got \in 1..Len(contracts)
      BY <1>10, <2>5, WriteLeaves
    <3>2. \A name \in Names : ids'[name] = IF name = Here.name THEN run.got ELSE ids[name]
      BY <1>a, <3>1
    <3>3. Token(p) \in Names /\ Pool(p) \in Names
      BY <1>b, NamesAreNames
    <3>4. \/ Here.name = Usdc
          \/ \E c \in 1..Len(Market) :
               \/ run.at = Place(c, 1) /\ Here.name = Token(Market[c])
               \/ run.at = Place(c, 3) /\ Here.name = Pool(Market[c])
      BY <1>c, <2>1, <2>3, <2>5, MarketNames
    \* It deploys nothing of the steps behind it.
    <3>5. ASSUME run.at > Place(b, o)
          PROVE  /\ ids'[Token(p)] = ids[Token(p)]
                 /\ o >= 3 => ids'[Pool(p)] = ids[Pool(p)]
      <4>1. Here.name # Token(p)
        <5> SUFFICES ASSUME Here.name = Token(p) PROVE FALSE
          OBVIOUS
        <5>1. PICK c \in 1..Len(Market) : run.at = Place(c, 1) /\ Here.name = Token(Market[c])
          BY <3>4, NamesDiffer
        <5>2. c = b
          BY <5>1, NamesDiffer, MarketPoolsAre
        <5> QED
          BY <3>5, <5>1, <5>2, MarketPoolsAre DEF Place
      <4>2. o >= 3 => Here.name # Pool(p)
        <5> SUFFICES ASSUME o >= 3, Here.name = Pool(p) PROVE FALSE
          OBVIOUS
        <5>1. PICK c \in 1..Len(Market) : run.at = Place(c, 3) /\ Here.name = Pool(Market[c])
          BY <3>4, NamesDiffer
        <5>2. c = b
          BY <5>1, NamesDiffer, MarketPoolsAre
        <5> QED
          BY <3>5, <5>1, <5>2, MarketPoolsAre DEF Place
      <4> QED
        BY <3>2, <3>3, <4>1, <4>2
    <3>6. run.at > Place(b, o) => StepsDone(contracts', ids', p, o)
      <4> SUFFICES ASSUME run.at > Place(b, o) PROVE StepsDone(contracts', ids', p, o)
        OBVIOUS
      <4>1. StepsDone(contracts, ids, p, o)
        BY <1>c, <2>1, <2>3 DEF Behind
      <4>2. /\ ids'[Token(p)] = ids[Token(p)]
            /\ o >= 3 => ids'[Pool(p)] = ids[Pool(p)]
        BY <3>5
      <4> HIDE DEF p, ids
      <4> QED
        BY <2>1, <4>1, <4>2, StepsDoneMove
    <3>7. run.at = Place(b, o) => StepsDone(contracts', ids', p, o)
      <4> SUFFICES ASSUME run.at = Place(b, o) PROVE StepsDone(contracts', ids', p, o)
        OBVIOUS
      <4>1. Here = MarketSteps(p)[o]
        BY <1>c, <2>1, <2>3
      <4>2. \/ o = 1 /\ Here.name = Token(p)
            \/ o = 3 /\ Here.name = Pool(p)
        BY <2>5, <4>1, PoolSteps
      <4>3. run.got # NoId
        BY <3>1 DEF NoId
      <4>4. CASE o = 1
        <5>1. ids'[Token(p)] # NoId
          BY <3>2, <3>3, <4>2, <4>3, <4>4
        <5> HIDE DEF p, ids
        <5> QED
          BY <4>4, <5>1 DEF StepsDone
      <4>5. CASE o = 3
        <5>1. StepsDone(contracts, ids, p, 1)
          <6>1. Place(b, 1) \in Nat /\ Place(b, 1) < Place(b, 3)
            BY MarketPoolsAre DEF Place
          <6>2. run.at > Place(b, 1)
            BY <4>5, <6>1
          <6> QED
            BY <2>3, <6>2 DEF MarketDone, Behind
        <5>2. ids[Token(p)] # NoId
          BY <5>1 DEF StepsDone
        <5>3. ids'[Pool(p)] # NoId /\ ids'[Token(p)] # NoId
          BY <3>2, <3>3, <4>2, <4>3, <4>5, <5>2, NamesDiffer
        <5> HIDE DEF p, ids
        <5> QED
          BY <4>5, <5>3 DEF StepsDone
      <4> QED
        BY <4>2, <4>4, <4>5
    <3>8. run'.at > Place(b, o) => run.at > Place(b, o) \/ run.at = Place(b, o)
      BY <1>b, <1>c, <2>1, <2>2, <2>3
    <3> HIDE DEF p, ids
    <3> QED
      BY <2>2, <3>6, <3>7, <3>8
  <2> QED
    BY <2>4, <2>5
<1>11. ASSUME NEW op \in late, LateSettles(op)
       PROVE  Goal
  <2>1. Running
    BY <1>11 DEF LateSettles, Running
  <2>2. /\ run'.script = run.script /\ run'.at = run.at /\ run'.op = run.op
        /\ run'.doing = run.doing
    BY <1>11, <2>1, RunAfter
  <2> QED
    BY <1>1, <1>11, <2>1, <2>2 DEF LateSettles
<1>12. ASSUME NEW op \in late, LateIsDropped(op)
       PROVE  Goal
  BY <1>2, <1>12 DEF LateIsDropped
<1>13. ASSUME NEW kind, Rebuild(kind)
       PROVE  Goal
  BY <1>2, <1>13 DEF Rebuild
<1>14. CASE UNCHANGED vars
  BY <1>2, <1>14 DEF vars
<1>15. CASE Fail \/ Pass \/ Interrupt
  BY <1>15 DEF Fail, Pass, Interrupt, Ended
<1> HIDE DEF Goal
<1> QED
  BY <1>3, <1>5, <1>6, <1>7, <1>8, <1>9, <1>10, <1>11, <1>12, <1>13, <1>14, <1>15
  DEF Next, Scripts

\* The published pools work after every step.
LEMMA PoolsWorkNext ==
  ASSUME Typed, MarketDone, PoolsWork, [Next]_vars
  PROVE  PoolsWork'
<1>a. /\ IsRegistry(registry, Len(contracts)) /\ IsChain(contracts) /\ Len(contracts) \in Nat
      /\ registry.ids \in [Names -> 0..Len(contracts)]
      /\ registry.pools \in [Pools -> 0..Len(contracts)]
  BY RegistryFields DEF Typed, IsChain
<1>b. IsChain(contracts') /\ Grows
  BY ChainNext
\* What was published goes on working.
<1>1. ASSUME registry'.pools = registry.pools
      PROVE  PoolsWork'
  <2> SUFFICES ASSUME NEW p \in Pools, registry'.pools[p] # NoId
               PROVE  Works(contracts', p, registry'.pools[p])
    BY DEF PoolsWork
  <2> DEFINE n == registry.pools[p]
  <2>1. n \in 1..Len(contracts) /\ registry'.pools[p] = n
    BY <1>1, <1>a DEF NoId
  <2>2. Works(contracts, p, n)
    BY <2>1 DEF PoolsWork, NoId
  <2> HIDE DEF n
  <2>3. Works(contracts', p, n)
    BY <1>a, <1>b, <2>1, <2>2, WorksStays DEF Grows
  <2> QED
    BY <2>1, <2>3
<1>2. CASE Pass /\ run.script = "market"
  <2>1. /\ Running /\ run.at = Len(MarketScript) + 1 /\ registry' = Published
        /\ contracts' = contracts
    BY <1>2 DEF Pass, StepsOf
  <2>2. registry'.pools = [p \in Pools |-> IF p = Demo THEN NoId ELSE registry.ids[Pool(p)]]
    BY <1>a, <2>1, PublishedLeaves
  <2> SUFFICES ASSUME NEW p \in Pools, registry'.pools[p] # NoId
               PROVE  Works(contracts, p, registry'.pools[p])
    BY <2>1 DEF PoolsWork
  <2>3. p # Demo /\ registry'.pools[p] = registry.ids[Pool(p)]
    BY <2>2
  <2>4. PICK b \in 1..Len(Market) : p = Market[b]
    BY <2>3, MarketPoolsAre
  <2>5. run.at > Place(b, 8)
    <3>1. Place(b, 8) \in 1..Len(MarketScript)
      BY Places
    <3> QED
      BY <2>1, <3>1, MarketPoolsAre
  <2>6. StepsDone(contracts, registry.ids, p, 8)
    BY <1>2, <2>4, <2>5 DEF MarketDone, Behind
  <2> QED
    BY <1>a, <2>3, <2>6, AllStepsWork
<1>3. CASE Pass /\ run.script # "market"
  BY <1>1, <1>3 DEF Pass
<1>4. CASE Record \/ Write
  BY <1>1, <1>4, RecordLeaves, WriteLeaves
<1>5. CASE UNCHANGED vars
  BY <1>1, <1>5 DEF vars
<1> QED
  BY <1>1, <1>2, <1>3, <1>4, <1>5
  DEF Next, Start, PassOver, Generate, Decide, Settle, Fail, Interrupt, LateSettles,
      LateIsDropped, Rebuild

\* Nothing is published in the beginning.
LEMMA PoolsWorkInit == Init => MarketDone /\ PoolsWork
<1> SUFFICES ASSUME Init PROVE MarketDone /\ PoolsWork
  OBVIOUS
<1>1. MarketDone
  BY DEF Init, MarketDone
<1>2. registry.pools = [p \in Pools |-> NoId]
  BY DEF Init
<1>3. PoolsWork
  BY <1>2 DEF PoolsWork
<1> QED
  BY <1>1, <1>3

(***************************************************************************)
(* A pool in the registry's list of pools is its issuer's, mints its own   *)
(* token, has a roster and a subscription, whatever was interrupted before *)
(* and whatever settles late.                                              *)
(***************************************************************************)
THEOREM PublishedPoolsAlwaysWork == Spec => []PublishedPoolsWork
<1> DEFINE Inv == Typed /\ MarketDone /\ PoolsWork
<1>1. Init => Inv
  BY TypedInit, PoolsWorkInit
<1>2. Inv /\ [Next]_vars => Inv'
  BY TypedNext, MarketDoneNext, PoolsWorkNext
<1>3. Inv => PublishedPoolsWork
  BY DEF PoolsWork, Works, PublishedPoolsWork
<1> QED
  BY <1>1, <1>2, <1>3, PTL DEF Spec

-----------------------------------------------------------------------------
(* What deploy.ts leaves. *)

(***************************************************************************)
(* The inductive invariants behind PassedDeploymentWorks.  The registry    *)
(* names a contract once; what may still give a registered contract an     *)
(* admin was sent for that contract under its name, with tokens that fit;  *)
(* and deploy.ts goes on from a step when that step has left what it is    *)
(* for.  Minting is the one thing a late transaction can undo.             *)
(***************************************************************************)
Ids   == registry.ids
Sending == Running /\ run.doing = "send"
Sends == late \cup (IF Sending THEN {run.op} ELSE {})

\* What sets who the admin of a contract is.
IsOffice(op) == op.do \in {"initialize", "set_admin"}

\* The tokens of a pool are the registered ones, or older than the sources.
TokensFit(cs, ids, version, usdc, token) ==
  /\ usdc \in 1..Len(cs) /\ token \in 1..Len(cs)
  /\ cs[usdc].version = cs[token].version
  /\ cs[token].version \in Nat
  /\ \/ usdc = ids[Usdc] /\ token = ids[Token(Demo)]
     \/ cs[token].version < version

OfficeFits(op, cs, ids, version) ==
  /\ op.id \in 0..Len(cs)
  /\ \A name \in Names : op.id # NoId /\ op.id = ids[name] => op.name = name
  /\ op.do = "set_admin" => op.name # DemoPool
  /\ op.do = "initialize" /\ op.id # NoId /\ op.id = ids[DemoPool] =>
       op.by = TestIssuer /\ TokensFit(cs, ids, version, op.usdc, op.token)

\* A contract has one name, and the version it is registered with.
NamedOnce(ids) == \A a, b \in Names : ids[a] # NoId /\ ids[a] = ids[b] => a = b

VersionsFit(cs, ids, wasm, built) ==
  \A a \in Names : ids[a] # NoId =>
    cs[ids[a]].version = wasm[a] /\ wasm[a] <= built[Kind(a)]

\* The contract at hand is as it was deployed.
Held ==
  Running /\ run.got # NoId =>
    /\ contracts[run.got].admin = Nobody
    /\ contracts[run.got].version = code[Kind(Here.name)]
    /\ \A a \in Names : Ids[a] # run.got
    /\ \A op \in late : IsOffice(op) => op.id # run.got

\* The registered demo pool.
PoolFits(cs, ids, version) ==
  LET id == ids[DemoPool]
  IN  id # NoId /\ cs[id].admin # Nobody =>
        cs[id].admin = TestIssuer /\ TokensFit(cs, ids, version, cs[id].usdc, cs[id].token)

\* All of it, for the transactions that may still settle.
Fitting(cs, ids, wasm, built, ops) ==
  /\ NamedOnce(ids)
  /\ VersionsFit(cs, ids, wasm, built)
  /\ \A op \in ops : IsOffice(op) => OfficeFits(op, cs, ids, built["token"])
  /\ PoolFits(cs, ids, built["token"])

\* Tokens are replaced that are older than the sources.
Replacing ==
  /\ Sending => run.op.name = Here.name
  /\ Running /\ run.doing # "look" /\ Here.do = "deploy"
       /\ Here.name \in {Usdc, Token(Demo)} /\ Ids[Here.name] # NoId =>
         registry.wasm[Here.name] # code["token"]
  /\ run.script = "market" /\ run.at < Base => Usdc \notin run.fresh

Kept == Fitting(contracts, Ids, registry.wasm, code, Sends) /\ Held /\ Replacing

\* Balances are numbers.
Balances ==
  /\ \A i \in 1..Len(contracts) : contracts[i].balance \in [Accounts -> Int]
  /\ \A op \in Sends :
       /\ op.do = "mint" => op.to \in Accounts /\ (op.id # NoId => op.amount \in Int)
       /\ op.do = "subscribe" => op.pool \in Pools

\* What a step of deploy.ts is for.
Left(cs, ids, wasm, built, k) ==
  /\ k = 1 => ids[Usdc] # NoId /\ wasm[Usdc] = built["token"]
  /\ k = 2 => ids[Token(Demo)] # NoId /\ wasm[Token(Demo)] = built["token"]
  /\ k = 3 => ids[DemoPool] # NoId
  /\ k = 6 => cs[ids[DemoPool]].admin # Nobody
  /\ k = 7 => cs[ids[Token(Demo)]].admin = Contract(ids[DemoPool])

Minted(cs, ids) == cs[ids[Usdc]].balance[Investor(Demo)] >= Target[Demo]

MintsShortfall(op, cs, ids) ==
  /\ op.id = ids[Usdc] /\ op.to = Investor(Demo)
  /\ op.amount = Target[Demo] - cs[ids[Usdc]].balance[Investor(Demo)]

IsPast(k) == run.at > k \/ (run.at = k /\ run.doing = "write" /\ k > 3)

DeployDone ==
  run.script = "deploy" =>
    /\ \A k \in 1..8 : IsPast(k) => Left(contracts, Ids, registry.wasm, code, k)
    /\ IsPast(8) /\ ~run.overtaken => Minted(contracts, Ids)
    /\ Sending =>
         /\ run.at \in {6, 7} => run.op.id = Ids[Here.name]
         /\ run.at = 7 => run.op.to = Contract(Ids[DemoPool])
         /\ run.at = 8 /\ ~run.overtaken => MintsShortfall(run.op, contracts, Ids)
\* What a transaction leaves alone.
Alone(c, d) == d.admin = c.admin /\ d.usdc = c.usdc /\ d.token = c.token

Paid(c, d, who, sum) == d.balance = [c.balance EXCEPT ![who] = @ + sum]

\* Who a transaction makes admin, and what it pays.
LEMMA AdminsMove ==
  ASSUME IsChain(contracts), NEW op, IsOp(op), Admits(op), contracts' = After(op),
         NEW i \in 1..Len(contracts)
  PROVE  /\ contracts'[i].version = contracts[i].version
         /\ ~(IsOffice(op) /\ op.id = i) => Alone(contracts[i], contracts'[i])
         /\ op.do \notin {"mint", "subscribe"} => contracts'[i].balance = contracts[i].balance
         /\ op.do = "mint" =>
              IF i = op.id THEN Paid(contracts[i], contracts'[i], op.to, op.amount)
              ELSE contracts'[i].balance = contracts[i].balance
         /\ op.do = "subscribe" =>
              \/ contracts'[i].balance = contracts[i].balance
              \/ contracts'[i].balance =
                   [contracts[i].balance EXCEPT ![op.by] = @ - Amount[op.pool]]
<1> DEFINE c == contracts[i]
           d == contracts'[i]
<1>1. /\ contracts = [j \in 1..Len(contracts) |-> contracts[j]]
      /\ c = [kind |-> c.kind, version |-> c.version, admin |-> c.admin,
              balance |-> c.balance, usdc |-> c.usdc, token |-> c.token,
              epoch |-> c.epoch, roster |-> c.roster, spent |-> c.spent]
  BY DEF IsChain, IsContract
<1>2. op.do \in Sendable
  BY DEF IsOp
<1>3. c.version = d.version
  BY ChainMoves DEF Later
<1>4. CASE op.do = "deploy"
  <2>1. contracts' = Append(contracts, Uninitialized(Kind(op.name))) /\ Len(contracts) \in Nat
    BY <1>4 DEF After, IsChain
  <2>2. d = c
    BY <1>4, <2>1, UninitializedIsContract, AppendChain DEF IsChain
  <2> QED
    BY <1>3, <1>4, <2>2 DEF Alone, IsOffice
<1>5. CASE op.do \notin {"deploy", "subscribe"} /\ op.id # i
  <2>1. d = c
    BY <1>1, <1>2, <1>5 DEF After, Sendable
  <2> QED
    BY <1>3, <1>5, <2>1 DEF Alone
<1>6. CASE op.do = "initialize" /\ op.id = i
  <2>1. d = [c EXCEPT !.admin = op.by, !.usdc = op.usdc, !.token = op.token]
    BY <1>1, <1>6 DEF After
  <2>2. d.balance = c.balance
    <3> HIDE DEF c, d
    <3> QED
      BY <1>1, <2>1
  <2> QED
    BY <1>3, <1>6, <2>2 DEF IsOffice
<1>7. CASE op.do = "set_admin" /\ op.id = i
  <2>1. d = [c EXCEPT !.admin = op.to]
    BY <1>1, <1>7 DEF After
  <2>2. d.balance = c.balance
    <3> HIDE DEF c, d
    <3> QED
      BY <1>1, <2>1
  <2> QED
    BY <1>3, <1>7, <2>2 DEF IsOffice
<1>8. CASE op.do = "update_accredited_set" /\ op.id = i
  <2>1. d = [c EXCEPT !.epoch = @ + 1, !.roster = op.roster]
    BY <1>1, <1>8 DEF After
  <2>2. d.balance = c.balance /\ Alone(c, d)
    <3> HIDE DEF c, d
    <3> QED
      BY <1>1, <2>1 DEF Alone
  <2> QED
    BY <1>3, <1>8, <2>2 DEF IsOffice
<1>9. CASE op.do = "mint" /\ op.id = i
  <2> DEFINE b == [c.balance EXCEPT ![op.to] = @ + op.amount]
  <2>1. d = [c EXCEPT !.balance = b]
    BY <1>1, <1>9 DEF After
  <2>2. d.balance = b /\ Alone(c, d)
    <3> HIDE DEF c, d, b
    <3> QED
      BY <1>1, <2>1 DEF Alone
  <2> QED
    BY <1>3, <1>9, <2>2 DEF IsOffice, Paid
<1>10. CASE op.do = "subscribe"
  <2> DEFINE u    == contracts[op.id].usdc
             b    == [c.balance EXCEPT ![op.by] = @ - Amount[op.pool]]
             paid == [contracts EXCEPT ![u].balance[op.by] = @ - Amount[op.pool]]
             e    == paid[i]
             s    == e.spent \cup {<<op.by, op.epoch>>}
  <2>1. contracts' = [paid EXCEPT ![op.id].spent = @ \cup {<<op.by, op.epoch>>}]
    BY <1>10 DEF After
  <2>2. e = c \/ e = [c EXCEPT !.balance = b]
    BY <1>1
  <2>3. d = e \/ d = [e EXCEPT !.spent = s]
    <3>1. paid = [j \in 1..Len(contracts) |-> paid[j]]
      BY <1>1
    <3> HIDE DEF paid
    <3> QED
      BY <2>1, <3>1
  <2>4. /\ e = [kind |-> e.kind, version |-> e.version, admin |-> e.admin,
                balance |-> e.balance, usdc |-> e.usdc, token |-> e.token,
                epoch |-> e.epoch, roster |-> e.roster, spent |-> e.spent]
        /\ Alone(c, e) /\ (e.balance = c.balance \/ e.balance = b)
    <3> HIDE DEF c, e, b
    <3> QED
      BY <1>1, <2>2 DEF Alone
  <2>5. Alone(e, d) /\ d.balance = e.balance
    <3> HIDE DEF e, d, s
    <3> QED
      BY <2>3, <2>4 DEF Alone
  <2>6. Alone(c, d) /\ (d.balance = c.balance \/ d.balance = b)
    BY <2>4, <2>5 DEF Alone
  <2> QED
    BY <1>3, <1>10, <2>6
<1> QED
  BY <1>2, <1>4, <1>5, <1>6, <1>7, <1>8, <1>9, <1>10 DEF Sendable

\* What a step keeps of a run besides, and what it holds then.
LEMMA RunKeeps ==
  ASSUME Typed, Running
  PROVE  /\ (PassOver \/ Generate \/ Decide \/ Settle \/ Record) /\ Running' =>
              run'.fresh = run.fresh /\ run'.overtaken = run.overtaken
         /\ (PassOver \/ Generate \/ Decide) /\ Running' => run'.got = NoId
         /\ Settle => run'.got = IF run.op.do = "deploy" THEN Len(contracts) + 1 ELSE NoId
         /\ Write  => /\ run'.got = NoId /\ run'.overtaken = run.overtaken
                      /\ run'.fresh = IF Here.do \in {"deploy", "subscribe"}
                                      THEN run.fresh \cup {Here.name} ELSE run.fresh
         /\ \A op : LateSettles(op) => run'.overtaken /\ run'.fresh = run.fresh
<1>1. /\ run = [script |-> run.script, at |-> run.at, doing |-> run.doing, op |-> run.op,
                got |-> run.got, told |-> run.told, fresh |-> run.fresh,
                overtaken |-> run.overtaken]
      /\ run.doing \in {"look", "send"} => run.got = NoId
  BY DEF Typed, Goes, IsRun
<1>2. ASSUME PassOver
      PROVE  run'.fresh = run.fresh /\ run'.overtaken = run.overtaken /\ run'.got = NoId
  BY <1>1, <1>2 DEF PassOver, Looking
<1>3. ASSUME Generate, Running'
      PROVE  run'.fresh = run.fresh /\ run'.overtaken = run.overtaken /\ run'.got = NoId
  <2>1. run' = [run EXCEPT !.at = @ + 1] /\ run.doing = "look"
    BY <1>3 DEF Generate, Looking, Ended, Running
  <2> QED
    BY <1>1, <2>1
<1>4. ASSUME Decide
      PROVE  run'.fresh = run.fresh /\ run'.overtaken = run.overtaken /\ run'.got = NoId
  <2> DEFINE op == Transaction(Here)
             done == Here.do \in {"replay", "accounts"}
  <2>1. /\ run.doing = "look"
        /\ run' = IF done THEN [run EXCEPT !.doing = "write"]
                  ELSE [run EXCEPT !.doing = "send", !.op = op]
    BY <1>4 DEF Decide, Looking
  <2> HIDE DEF op, done
  <2> QED
    BY <1>1, <2>1
<1>5. ASSUME Settle
      PROVE  /\ run'.fresh = run.fresh /\ run'.overtaken = run.overtaken
             /\ run'.got = IF run.op.do = "deploy" THEN Len(contracts) + 1 ELSE NoId
  <2> DEFINE n == Len(contracts) + 1
             deployed == run.op.do = "deploy"
  <2>1. /\ run.doing = "send"
        /\ run' = IF deployed THEN [run EXCEPT !.doing = "record", !.got = n]
                  ELSE [run EXCEPT !.doing = "write"]
    BY <1>5 DEF Settle
  <2> HIDE DEF n, deployed
  <2>2. /\ run'.fresh = run.fresh /\ run'.overtaken = run.overtaken
        /\ run'.got = IF deployed THEN n ELSE NoId
    BY <1>1, <2>1
  <2> QED
    BY <2>2 DEF n, deployed
<1>6. ASSUME Record
      PROVE  run'.fresh = run.fresh /\ run'.overtaken = run.overtaken
  BY <1>1, <1>6 DEF Record
<1>7. ASSUME Write
      PROVE  /\ run'.got = NoId /\ run'.overtaken = run.overtaken
             /\ run'.fresh = IF Here.do \in {"deploy", "subscribe"}
                             THEN run.fresh \cup {Here.name} ELSE run.fresh
  <2> DEFINE told == IF Here.do = "update_accredited_set" THEN At(Here.name).epoch
                     ELSE run.told
             fresh == IF Here.do \in {"deploy", "subscribe"}
                      THEN run.fresh \cup {Here.name} ELSE run.fresh
  <2>1. run' = [run EXCEPT !.at = @ + 1, !.doing = "look", !.told = told, !.op = << >>,
                           !.got = NoId, !.fresh = fresh]
    BY <1>1, <1>7 DEF Write
  <2> HIDE DEF told, fresh
  <2>2. run'.got = NoId /\ run'.overtaken = run.overtaken /\ run'.fresh = fresh
    BY <1>1, <2>1
  <2> QED
    BY <2>2 DEF fresh
<1>8. ASSUME NEW op, LateSettles(op)
      PROVE  run'.overtaken /\ run'.fresh = run.fresh
  BY <1>1, <1>8 DEF LateSettles
<1> QED
  BY <1>2, <1>3, <1>4, <1>5, <1>6, <1>7, <1>8

\* What was sent is what one of the running script's steps sends.
LEMMA SendsMove ==
  ASSUME Typed, [Next]_vars
  PROVE  /\ ~Decide => Sends' \subseteq Sends
         /\ Decide => Sends' \subseteq Sends \cup {Transaction(Here)}
         /\ Decide /\ Here.do \in {"replay", "accounts"} => Sends' \subseteq Sends
         /\ \A op \in Sends : IsOp(op)
<1>1. \A op \in Sends : IsOp(op)
  BY DEF Sends, Sending, Typed, Goes
<1>2. ASSUME late' \subseteq Sends, Sending' => run'.op \in Sends
      PROVE  Sends' \subseteq Sends
  BY <1>2 DEF Sends
<1>3. ASSUME UNCHANGED vars PROVE Sends' \subseteq Sends
  BY <1>3 DEF Sends, Sending, Running, vars
<1>4. ASSUME NEW script \in Scripts, Start(script)
      PROVE  Sends' \subseteq Sends
  BY <1>2, <1>4 DEF Start, Sends, Sending
<1>5. ASSUME PassOver \/ Generate \/ Write PROVE Sends' \subseteq Sends
  <2>1. Running /\ late' = late
    BY <1>5 DEF PassOver, Generate, Write, Looking
  <2>2. ~Sending'
    BY <1>5, <2>1, RunAfter DEF Sending
  <2> QED
    BY <1>2, <2>1, <2>2 DEF Sends
<1>6. ASSUME Settle \/ Record PROVE Sends' \subseteq Sends
  <2>1. Running /\ late' \subseteq late
    BY <1>6 DEF Settle, Record, Applied
  <2>2. ~Sending'
    BY <1>6, <2>1, RunAfter DEF Sending
  <2> QED
    BY <1>2, <2>1, <2>2 DEF Sends
<1>7. ASSUME Fail \/ Pass \/ Interrupt PROVE Sends' \subseteq Sends
  <2>1. late' \subseteq Sends
    BY <1>7 DEF Fail, Pass, Interrupt, Sends, Sending
  <2>2. ~Sending'
    BY <1>7 DEF Fail, Pass, Interrupt, Sending, Running, Ended
  <2> QED
    BY <1>2, <2>1, <2>2
<1>8. ASSUME NEW op \in late, LateSettles(op)
      PROVE  Sends' \subseteq Sends
  <2>1. late' \subseteq late
    BY <1>8 DEF LateSettles, Applied
  <2>2. Sending' => Sending /\ run'.op = run.op
    <3>1. CASE Running
      BY <1>8, <3>1, RunAfter DEF Sending
    <3>2. CASE ~Running
      BY <1>8, <3>2 DEF LateSettles, Sending, Running
    <3> QED
      BY <3>1, <3>2
  <2> QED
    BY <1>2, <2>1, <2>2 DEF Sends
<1>9. ASSUME NEW op \in late, LateIsDropped(op)
      PROVE  Sends' \subseteq Sends
  BY <1>9 DEF LateIsDropped, Sends, Sending, Running
<1>10. ASSUME NEW kind \in {"token", "pool"}, Rebuild(kind)
       PROVE  Sends' \subseteq Sends
  BY <1>10 DEF Rebuild, Sends, Sending, Running
<1>11. ASSUME Decide
       PROVE  /\ Sends' \subseteq Sends \cup {Transaction(Here)}
              /\ Here.do \in {"replay", "accounts"} => Sends' \subseteq Sends
  <2>1. Running /\ late' = late
    BY <1>11 DEF Decide, Looking
  <2>2. /\ Sending' => run'.op = Transaction(Here)
        /\ Here.do \in {"replay", "accounts"} => ~Sending'
    BY <1>11, <2>1, RunAfter DEF Sending
  <2> QED
    BY <2>1, <2>2 DEF Sends
<1> QED
  BY <1>1, <1>3, <1>4, <1>5, <1>6, <1>7, <1>8, <1>9, <1>10, <1>11 DEF Next, Scripts

\* The steps of deploy.ts.
LEMMA DeploySteps ==
  /\ \A k \in 1..8 : DeployScript[k].pool = Demo
  /\ \A k \in 1..8 : DeployScript[k].do = "deploy" <=> k \in {1, 2, 3}
  /\ \A k \in 1..8 : DeployScript[k].do = "initialize" <=> k \in {4, 5, 6}
  /\ \A k \in 1..8 : DeployScript[k].do = "set_admin" <=> k = 7
  /\ \A k \in 1..8 : DeployScript[k].do = "mint" <=> k = 8
  /\ \A k \in 1..8 : DeployScript[k].name = Usdc <=> k \in {1, 4, 8}
  /\ \A k \in 1..8 : DeployScript[k].name = Token(Demo) <=> k \in {2, 5, 7}
  /\ \A k \in 1..8 : DeployScript[k].name = DemoPool <=> k \in {3, 6}
<1>1. /\ DeployScript[1] = Step("deploy", Demo, Usdc)
      /\ DeployScript[2] = Step("deploy", Demo, Token(Demo))
      /\ DeployScript[3] = Step("deploy", Demo, Pool(Demo))
      /\ DeployScript[4] = Step("initialize", Demo, Usdc)
      /\ DeployScript[5] = Step("initialize", Demo, Token(Demo))
      /\ DeployScript[6] = Step("initialize", Demo, Pool(Demo))
      /\ DeployScript[7] = Step("set_admin", Demo, Token(Demo))
      /\ DeployScript[8] = Step("mint", Demo, Usdc)
  BY DEF DeployScript
<1> DEFINE at(k, do, name) == /\ DeployScript[k].pool = Demo
                              /\ DeployScript[k].do = do /\ DeployScript[k].name = name
<1>2. /\ at(1, "deploy", Usdc) /\ at(2, "deploy", Token(Demo)) /\ at(3, "deploy", DemoPool)
      /\ at(4, "initialize", Usdc) /\ at(5, "initialize", Token(Demo))
      /\ at(6, "initialize", DemoPool) /\ at(7, "set_admin", Token(Demo))
      /\ at(8, "mint", Usdc)
  BY <1>1, StepFields DEF DemoPool
<1>3. Usdc # Token(Demo) /\ Usdc # DemoPool /\ Token(Demo) # DemoPool
  BY NamesDiffer DEF DemoPool
<1>4. \A k \in 1..8 : \/ k = 1 \/ k = 2 \/ k = 3 \/ k = 4 \/ k = 5 \/ k = 6 \/ k = 7 \/ k = 8
  OBVIOUS
<1> QED
  BY <1>2, <1>3, <1>4

\* deploy.ts at one of its steps.
LEMMA DeployHere ==
  ASSUME Running, run.script = "deploy", InScript
  PROVE  /\ run.at \in 1..8 /\ Here = DeployScript[run.at] /\ Here.pool = Demo
         /\ Here.do = "deploy" <=> run.at \in {1, 2, 3}
         /\ Here.do = "initialize" <=> run.at \in {4, 5, 6}
         /\ Here.do = "set_admin" <=> run.at = 7
         /\ Here.do = "mint" <=> run.at = 8
         /\ Here.name = Usdc <=> run.at \in {1, 4, 8}
         /\ Here.name = Token(Demo) <=> run.at \in {2, 5, 7}
         /\ Here.name = DemoPool <=> run.at \in {3, 6}
<1>1. run.at \in 1..8 /\ Here = DeployScript[run.at]
  BY DeployScriptIs DEF InScript, Here, StepsOf
<1> QED
  BY <1>1, DeploySteps

\* Who initializes and hands on, and who mints.
LEMMA OfficesHere ==
  ASSUME Typed, Running, InScript
  PROVE  /\ IsOffice(Here) => run.script \in {"deploy", "market"} /\ Here.name \in Names
         /\ IsOffice(Here) /\ Here.name = DemoPool => run.script = "deploy" /\ run.at = 6
         /\ Here.do = "mint" => Here.name = Usdc
<1>1. Here = StepsOf(run.script)[run.at] /\ run.at \in DOMAIN StepsOf(run.script)
      /\ run.script \in Scripts
  BY RunFields DEF Here, InScript
<1>2. CASE run.script = "setup"
  BY <1>1, <1>2, FixedScriptsFit DEF StepsOf, IsOffice
<1>3. CASE run.script = "smoke"
  <2>1. Here \in {SmokeScript[1], SmokeScript[2], SmokeScript[3]}
    BY <1>1, <1>3 DEF StepsOf, SmokeScript
  <2> QED
    BY <2>1, StepFields DEF SmokeScript, IsOffice
<1>4. CASE run.script = "e2e"
  <2>1. Here \in {E2EScript[1], E2EScript[2], E2EScript[3]}
    BY <1>1, <1>4 DEF StepsOf, E2EScript
  <2> QED
    BY <2>1, StepFields DEF E2EScript, IsOffice
<1>5. CASE run.script = "deploy"
  <2>1. run.at \in {1, 2, 3, 4, 5, 6, 7, 8}
    BY <1>5, DeployHere
  <2> QED
    BY <1>5, <2>1, DeployHere, NamesAreNames, NamesDiffer DEF IsOffice, DemoPool
<1>6. CASE run.script = "market"
  <2>1. run.at \in 1..Len(MarketScript) /\ Here = MarketScript[run.at]
    BY <1>1, <1>6, MarketPoolsAre DEF StepsOf
  <2>2. CASE run.at \in 1..Base
    BY <1>6, <2>1, <2>2, MarketScriptFits, NamesAreNames, NamesDiffer DEF IsOffice, DemoPool
  <2>3. CASE run.at \notin 1..Base
    <3>1. run.at \in (Base + 1)..Len(MarketScript)
      BY <2>1, <2>3, MarketPoolsAre
    <3>2. PICK b \in 1..Len(Market), o \in 1..8 : run.at = Place(b, o)
      BY <3>1, MarketScriptFits DEF Place
    <3>3. Here = MarketSteps(Market[b])[o]
      BY <2>1, <3>2, Places
    <3> DEFINE p == Market[b]
    <3>4. p \in Pools /\ p # Demo
      BY MarketPoolsAre
    <3>5. /\ IsOffice(Here) => Here.name \in {Token(p), Pool(p)}
          /\ Here.do = "mint" => Here.name = Usdc
      <4> HIDE DEF p
      <4>1. \/ o = 1 \/ o = 2 \/ o = 3 \/ o = 4 \/ o = 5 \/ o = 6 \/ o = 7 \/ o = 8
        BY <3>2
      <4>2. Here = MarketSteps(p)[o]
        BY <3>3 DEF p
      <4> QED
        BY <4>1, <4>2, MarketStepsAre, StepFields DEF IsOffice
    <3> QED
      BY <1>6, <3>4, <3>5, NamesAreNames, NamesDiffer DEF DemoPool
  <2> QED
    BY <2>2, <2>3
<1> QED
  BY <1>1, <1>2, <1>3, <1>4, <1>5, <1>6 DEF Scripts

\* A chain goes on with its versions.
SameVersions(cs, ds) ==
  Len(ds) \in Nat /\ Len(ds) >= Len(cs) /\ \A i \in 1..Len(cs) : ds[i].version = cs[i].version

\* Tokens that fit go on to, when the chain grows and the sources change.
LEMMA TokensStay ==
  ASSUME NEW cs, Len(cs) \in Nat, NEW ds, SameVersions(cs, ds), NEW ids,
         NEW v \in Nat, NEW w \in Nat, w >= v, NEW usdc, NEW token,
         TokensFit(cs, ids, v, usdc, token)
  PROVE  TokensFit(ds, ids, w, usdc, token)
<1>1. /\ usdc \in 1..Len(ds) /\ token \in 1..Len(ds)
      /\ ds[usdc].version = cs[usdc].version /\ ds[token].version = cs[token].version
  BY DEF TokensFit, SameVersions
<1> QED
  BY <1>1 DEF TokensFit

\* And when registered tokens are replaced that are older than the sources.
LEMMA TokensOutdated ==
  ASSUME NEW cs, NEW ids, NEW jds, NEW wasm, NEW built, NEW usdc, NEW token,
         built["token"] \in Nat, wasm \in [Names -> Nat],
         TokensFit(cs, ids, built["token"], usdc, token), VersionsFit(cs, ids, wasm, built),
         \/ jds[Usdc] = ids[Usdc]
         \/ ids[Usdc] # NoId => wasm[Usdc] # built["token"],
         \/ jds[Token(Demo)] = ids[Token(Demo)]
         \/ ids[Token(Demo)] # NoId => wasm[Token(Demo)] # built["token"]
  PROVE  TokensFit(cs, jds, built["token"], usdc, token)
<1>1. CASE cs[token].version < built["token"]
  BY <1>1 DEF TokensFit
<1>2. CASE ~(cs[token].version < built["token"])
  <2>1. /\ usdc = ids[Usdc] /\ token = ids[Token(Demo)]
        /\ usdc # NoId /\ token # NoId /\ cs[usdc].version = cs[token].version
        /\ cs[token].version \in Nat
    BY <1>2 DEF TokensFit, NoId
  <2>2. /\ Usdc \in Names /\ Token(Demo) \in Names
        /\ Kind(Usdc) = "token" /\ Kind(Token(Demo)) = "token"
    BY NamesAreNames, NamesDiffer
  <2>3. /\ cs[usdc].version = wasm[Usdc] /\ wasm[Usdc] <= built["token"]
        /\ cs[token].version = wasm[Token(Demo)] /\ wasm[Token(Demo)] <= built["token"]
    BY <2>1, <2>2 DEF VersionsFit
  <2>4. wasm[Usdc] = built["token"] /\ wasm[Token(Demo)] = built["token"]
    <3> DEFINE x == wasm[Usdc]
               y == wasm[Token(Demo)]
               v == built["token"]
    <3>1. /\ x \in Nat /\ y \in Nat /\ v \in Nat /\ x = y /\ y <= v /\ ~(y < v)
      BY <1>2, <2>1, <2>2, <2>3
    <3> HIDE DEF x, y, v
    <3>2. x = v /\ y = v
      BY <3>1
    <3> QED
      BY <3>2 DEF x, y, v
  <2>5. jds[Usdc] = ids[Usdc] /\ jds[Token(Demo)] = ids[Token(Demo)]
    BY <2>1, <2>4
  <2> QED
    BY <2>5 DEF TokensFit
<1> QED
  BY <1>1, <1>2

\* A transaction that settles leaves it so.
LEMMA FittingByChain ==
  ASSUME Typed, NEW ops, Fitting(contracts, Ids, registry.wasm, code, ops),
         NEW op \in ops, IsOp(op), Applied(op)
  PROVE  Fitting(contracts', Ids, registry.wasm, code, ops)
<1> DEFINE n == Len(contracts)
           v == code["token"]
           id == Ids[DemoPool]
<1>1. /\ IsChain(contracts) /\ n \in Nat /\ Ids \in [Names -> 0..n] /\ v \in Nat
      /\ DemoPool \in Names
  BY RegistryFields, NamesAreNames DEF Typed, IsChain, Ids, DemoPool
<1>2. Admits(op) /\ contracts' = After(op)
  BY DEF Applied
<1>3. SameVersions(contracts, contracts') /\ (op.id \in 1..n => Leaves(op))
  <2>1. /\ IsChain(contracts') /\ Len(contracts') >= n
        /\ op.id \in 1..n => Leaves(op)
    BY <1>1, <1>2, ChainMoves
  <2>2. \A i \in 1..n : contracts'[i].version = contracts[i].version
    BY <1>1, <1>2, AdminsMove
  <2> QED
    BY <2>1, <2>2 DEF SameVersions, IsChain
<1>4. NamedOnce(Ids)
  BY DEF Fitting
<1>5. VersionsFit(contracts', Ids, registry.wasm, code)
  <2> SUFFICES ASSUME NEW a \in Names, Ids[a] # NoId
               PROVE  contracts'[Ids[a]].version = registry.wasm[a]
                      /\ registry.wasm[a] <= code[Kind(a)]
    BY DEF VersionsFit
  <2>1. Ids[a] \in 1..n
    BY <1>1 DEF NoId
  <2> QED
    BY <1>3, <2>1 DEF SameVersions, Fitting, VersionsFit
<1>6. ASSUME NEW usdc, NEW token, TokensFit(contracts, Ids, v, usdc, token)
      PROVE  TokensFit(contracts', Ids, v, usdc, token)
  BY <1>1, <1>3, <1>6, TokensStay
<1>7. ASSUME NEW o \in ops, IsOffice(o)
      PROVE  OfficeFits(o, contracts', Ids, v)
  <2>1. OfficeFits(o, contracts, Ids, v)
    BY <1>7 DEF Fitting
  <2>2. o.id \in 0..Len(contracts')
    BY <1>1, <1>3, <2>1 DEF OfficeFits, SameVersions
  <2> QED
    BY <1>6, <2>1, <2>2 DEF OfficeFits
<1>8. PoolFits(contracts', Ids, v)
  <2> SUFFICES ASSUME id # NoId, contracts'[id].admin # Nobody
               PROVE  /\ contracts'[id].admin = TestIssuer
                      /\ TokensFit(contracts', Ids, v, contracts'[id].usdc, contracts'[id].token)
    BY DEF PoolFits
  <2>1. id \in 1..n
    BY <1>1 DEF NoId
  <2>2. CASE IsOffice(op) /\ op.id = id
    <3>1. OfficeFits(op, contracts, Ids, v)
      BY <2>2 DEF Fitting
    <3>2. op.do = "initialize"
      BY <1>1, <2>2, <3>1 DEF OfficeFits, IsOffice
    <3>3. op.by = TestIssuer /\ TokensFit(contracts, Ids, v, op.usdc, op.token)
      BY <2>2, <3>1, <3>2 DEF OfficeFits
    <3>4. /\ contracts'[id].admin = op.by /\ contracts'[id].usdc = op.usdc
          /\ contracts'[id].token = op.token
      BY <1>3, <2>1, <2>2, <3>2 DEF Leaves
    <3> QED
      BY <1>6, <3>3, <3>4
  <2>3. CASE ~(IsOffice(op) /\ op.id = id)
    <3>1. Alone(contracts[id], contracts'[id])
      BY <1>1, <1>2, <2>1, <2>3, AdminsMove
    <3>2. /\ contracts[id].admin = TestIssuer
          /\ TokensFit(contracts, Ids, v, contracts[id].usdc, contracts[id].token)
      BY <3>1 DEF Alone, Fitting, PoolFits
    <3> QED
      BY <1>6, <3>1, <3>2 DEF Alone
  <2> QED
    BY <2>2, <2>3
<1> QED
  BY <1>4, <1>5, <1>7, <1>8 DEF Fitting

\* A contract that was deployed and is registered leaves it so.
LEMMA FittingByWrite ==
  ASSUME Typed, NEW ops, Fitting(contracts, Ids, registry.wasm, code, ops),
         Held, Replacing, Write, Here.do = "deploy",
         \A op \in ops : IsOffice(op) => op.id # run.got
  PROVE  Fitting(contracts, Ids', registry'.wasm, code, ops)
<1> DEFINE n == Len(contracts)
           v == code["token"]
           name == Here.name
           got == run.got
           wasm == registry.wasm
<1>1. /\ IsChain(contracts) /\ n \in Nat /\ Ids \in [Names -> 0..n] /\ v \in Nat
      /\ wasm \in [Names -> Nat] /\ DemoPool \in Names /\ Usdc \in Names
      /\ Token(Demo) \in Names /\ code \in [{"token", "pool"} -> Nat \ {0}]
  BY RegistryFields, NamesAreNames DEF Typed, IsChain, Ids, DemoPool
<1>2. /\ name \in Names /\ got \in 1..n /\ got # NoId /\ Running
      /\ Ids' = [Ids EXCEPT ![name] = got]
      /\ registry'.wasm = [wasm EXCEPT ![name] = code[Kind(name)]]
  BY WriteLeaves DEF Write, Ids, NoId
<1>3. /\ \A a \in Names : Ids'[a] = IF a = name THEN got ELSE Ids[a]
      /\ \A a \in Names : registry'.wasm[a] = IF a = name THEN code[Kind(name)] ELSE wasm[a]
  BY <1>1, <1>2
<1>4. /\ contracts[got].admin = Nobody /\ contracts[got].version = code[Kind(name)]
      /\ \A a \in Names : Ids[a] # got
  BY <1>2 DEF Held
<1> HIDE DEF name, got, wasm, v
<1>5. NamedOnce(Ids')
  <2> SUFFICES ASSUME NEW a \in Names, NEW b \in Names, Ids'[a] # NoId, Ids'[a] = Ids'[b]
               PROVE  a = b
    BY DEF NamedOnce
  <2> QED
    BY <1>3, <1>4 DEF Fitting, NamedOnce
<1>6. VersionsFit(contracts, Ids', registry'.wasm, code)
  <2> SUFFICES ASSUME NEW a \in Names, Ids'[a] # NoId
               PROVE  contracts[Ids'[a]].version = registry'.wasm[a]
                      /\ registry'.wasm[a] <= code[Kind(a)]
    BY DEF VersionsFit
  <2>1. CASE a = name
    <3>1. Kind(name) \in {"token", "pool"}
      BY DEF Kind
    <3>2. code[Kind(name)] \in Nat
      BY <1>1, <3>1
    <3> QED
      BY <1>3, <1>4, <2>1, <3>2
  <2>2. CASE a # name
    BY <1>3, <2>2 DEF Fitting, VersionsFit, wasm
  <2> QED
    BY <2>1, <2>2
<1>7. ASSUME NEW usdc, NEW token, TokensFit(contracts, Ids, v, usdc, token)
      PROVE  TokensFit(contracts, Ids', v, usdc, token)
  <2>1. ASSUME NEW a \in {Usdc, Token(Demo)}
        PROVE  Ids'[a] = Ids[a] \/ (Ids[a] # NoId => wasm[a] # v)
    <3>1. CASE a = name
      <4>1. run.doing = "write"
        BY DEF Write
      <4> QED
        BY <1>2, <2>1, <3>1, <4>1 DEF Replacing, v, wasm, name
    <3>2. CASE a # name
      BY <1>1, <1>3, <2>1, <3>2
    <3> QED
      BY <3>1, <3>2
  <2>2. VersionsFit(contracts, Ids, wasm, code)
    BY DEF Fitting, wasm
  <2>3. code["token"] \in Nat /\ TokensFit(contracts, Ids, code["token"], usdc, token)
    BY <1>1, <1>7 DEF v
  <2>4. /\ Ids'[Usdc] = Ids[Usdc] \/ (Ids[Usdc] # NoId => wasm[Usdc] # code["token"])
        /\ \/ Ids'[Token(Demo)] = Ids[Token(Demo)]
           \/ Ids[Token(Demo)] # NoId => wasm[Token(Demo)] # code["token"]
    BY <2>1 DEF v
  <2>5. TokensFit(contracts, Ids', code["token"], usdc, token)
    BY <1>1, <2>2, <2>3, <2>4, TokensOutdated
  <2> QED
    BY <2>5 DEF v
<1>8. ASSUME NEW o \in ops, IsOffice(o)
      PROVE  OfficeFits(o, contracts, Ids', v)
  <2>1. OfficeFits(o, contracts, Ids, v) /\ o.id # got
    BY <1>8 DEF Fitting, v, got
  <2>2. \A a \in Names : o.id = Ids'[a] => o.id = Ids[a]
    BY <1>3, <2>1
  <2> QED
    BY <1>1, <1>7, <2>1, <2>2 DEF OfficeFits
<1>9. PoolFits(contracts, Ids', v)
  <2>1. CASE DemoPool = name
    BY <1>1, <1>3, <1>4, <2>1 DEF PoolFits
  <2>2. CASE DemoPool # name
    <3>1. Ids'[DemoPool] = Ids[DemoPool]
      BY <1>1, <1>3, <2>2
    <3>2. PoolFits(contracts, Ids, v)
      BY DEF Fitting, v
    <3> QED
      BY <1>7, <3>1, <3>2 DEF PoolFits
  <2> QED
    BY <2>1, <2>2
<1> QED
  BY <1>5, <1>6, <1>8, <1>9 DEF Fitting, v

\* So does publishing the pools.
LEMMA FittingByPass ==
  ASSUME Typed, NEW ops, Fitting(contracts, Ids, registry.wasm, code, ops),
         registry' = Published
  PROVE  Fitting(contracts, Ids', registry'.wasm, code, ops)
<1> DEFINE n == Len(contracts)
           v == code["token"]
<1>1. /\ n \in Nat /\ Ids \in [Names -> 0..n] /\ DemoPool \in Names
      /\ IsRegistry(registry, n)
  BY RegistryFields, NamesAreNames DEF Typed, IsChain, Ids, DemoPool
<1>2. /\ Ids' = [Ids EXCEPT ![Token(Demo)] = NoId, ![DemoPool] = NoId]
      /\ registry'.wasm = registry.wasm
  BY <1>1, PublishedLeaves DEF Ids, DemoPool
<1>3. /\ \A a \in Names : Ids'[a] = Ids[a] \/ Ids'[a] = NoId
      /\ Ids'[DemoPool] = NoId
  BY <1>1, <1>2
<1>4. NamedOnce(Ids')
  BY <1>3 DEF Fitting, NamedOnce
<1>5. VersionsFit(contracts, Ids', registry'.wasm, code)
  BY <1>2, <1>3 DEF Fitting, VersionsFit
<1>6. \A o \in ops : IsOffice(o) => OfficeFits(o, contracts, Ids', v)
  <2> SUFFICES ASSUME NEW o \in ops, IsOffice(o)
               PROVE  OfficeFits(o, contracts, Ids', v)
    OBVIOUS
  <2>1. OfficeFits(o, contracts, Ids, v)
    BY DEF Fitting
  <2>2. \A a \in Names : o.id # NoId /\ o.id = Ids'[a] => o.id = Ids[a]
    BY <1>3
  <2> QED
    BY <1>3, <2>1, <2>2 DEF OfficeFits
<1>7. PoolFits(contracts, Ids', v)
  BY <1>3 DEF PoolFits
<1> QED
  BY <1>4, <1>5, <1>6, <1>7 DEF Fitting

\* And what changes the sources.
LEMMA FittingByRebuild ==
  ASSUME Typed, NEW ops, Fitting(contracts, Ids, registry.wasm, code, ops),
         code' \in [{"token", "pool"} -> Nat \ {0}],
         \A kind \in {"token", "pool"} : code'[kind] >= code[kind]
  PROVE  Fitting(contracts, Ids, registry.wasm, code', ops)
<1> DEFINE n == Len(contracts)
           v == code["token"]
           w == code'["token"]
<1>1. /\ n \in Nat /\ v \in Nat /\ w \in Nat /\ w >= v
      /\ code \in [{"token", "pool"} -> Nat \ {0}] /\ registry.wasm \in [Names -> Nat]
  BY RegistryFields DEF Typed, IsChain
<1>2. ASSUME NEW usdc, NEW token, TokensFit(contracts, Ids, v, usdc, token)
      PROVE  TokensFit(contracts, Ids, w, usdc, token)
  BY <1>1, <1>2 DEF TokensFit
<1>3. VersionsFit(contracts, Ids, registry.wasm, code')
  <2> SUFFICES ASSUME NEW a \in Names, Ids[a] # NoId
               PROVE  contracts[Ids[a]].version = registry.wasm[a]
                      /\ registry.wasm[a] <= code'[Kind(a)]
    BY DEF VersionsFit
  <2>1. Kind(a) \in {"token", "pool"}
    BY DEF Kind
  <2>2. code[Kind(a)] \in Nat /\ code'[Kind(a)] \in Nat /\ code'[Kind(a)] >= code[Kind(a)]
    BY <1>1, <2>1
  <2>3. registry.wasm[a] \in Nat
    BY <1>1
  <2> QED
    BY <2>2, <2>3 DEF Fitting, VersionsFit
<1>4. \A o \in ops : IsOffice(o) => OfficeFits(o, contracts, Ids, w)
  BY <1>2 DEF Fitting, OfficeFits
<1>5. PoolFits(contracts, Ids, w)
  BY <1>2 DEF Fitting, PoolFits
<1> QED
  BY <1>3, <1>4, <1>5 DEF Fitting

\* The contract at hand, after every step.
LEMMA HeldNext ==
  ASSUME Typed, Kept, [Next]_vars
  PROVE  Held'
<1> DEFINE n == Len(contracts)
<1> SUFFICES ASSUME Running', run'.got # NoId
             PROVE  /\ contracts'[run'.got].admin = Nobody
                    /\ contracts'[run'.got].version = code'[Kind(Here'.name)]
                    /\ \A a \in Names : Ids'[a] # run'.got
                    /\ \A op \in late' : IsOffice(op) => op.id # run'.got
  BY DEF Held
<1>1. /\ IsChain(contracts) /\ n \in Nat /\ Ids \in [Names -> 0..n] /\ Goes
      /\ Fitting(contracts, Ids, registry.wasm, code, Sends) /\ Held /\ Replacing
  BY RegistryFields DEF Typed, IsChain, Ids, Kept
<1>2. ASSUME Running, run'.got = run.got, run'.script = run.script, run'.at = run.at,
             registry'.pools = registry.pools, Ids' = Ids, code' = code,
             late' \subseteq late,
             contracts' = contracts \/ \E op \in late : IsOp(op) /\ Applied(op)
      PROVE  /\ contracts'[run'.got].admin = Nobody
             /\ contracts'[run'.got].version = code'[Kind(Here'.name)]
             /\ \A a \in Names : Ids'[a] # run'.got
             /\ \A op \in late' : IsOffice(op) => op.id # run'.got
  <2>1. /\ contracts[run.got].admin = Nobody
        /\ contracts[run.got].version = code[Kind(Here.name)]
        /\ \A a \in Names : Ids[a] # run.got
        /\ \A op \in late : IsOffice(op) => op.id # run.got
    BY <1>1, <1>2 DEF Held
  <2>2. Here' = Here
    BY <1>2, HereStays
  <2>3. /\ contracts'[run.got].admin = contracts[run.got].admin
        /\ contracts'[run.got].version = contracts[run.got].version
    <3>1. ASSUME NEW op \in late, IsOp(op), Applied(op)
          PROVE  /\ contracts'[run.got].admin = contracts[run.got].admin
                 /\ contracts'[run.got].version = contracts[run.got].version
      <4>1. run.got \in 1..n
        BY <1>1, <1>2 DEF Goes, IsRun
      <4>2. Admits(op) /\ contracts' = After(op) /\ ~(IsOffice(op) /\ op.id = run.got)
        BY <2>1, <3>1 DEF Applied
      <4> QED
        BY <1>1, <3>1, <4>1, <4>2, AdminsMove DEF Alone
    <3> QED
      BY <1>2, <3>1
  <2> QED
    BY <1>2, <2>1, <2>2, <2>3
<1>3. CASE UNCHANGED vars
  <2>1. Running
    BY <1>3 DEF vars, Running
  <2> QED
    BY <1>2, <1>3, <2>1 DEF vars, Ids
<1>4. ASSUME NEW script \in Scripts, Start(script) PROVE FALSE
  BY <1>4 DEF Start
<1>5. CASE PassOver \/ Generate \/ Decide \/ Write
  <2>1. Running
    BY <1>5 DEF PassOver, Generate, Decide, Write, Looking
  <2> QED
    BY <1>5, <2>1, RunKeeps
<1>6. CASE Fail \/ Pass \/ Interrupt
  BY <1>6 DEF Fail, Pass, Interrupt, Ended, Running
<1>7. CASE Settle
  <2> DEFINE op == run.op
  <2>1. /\ Running /\ run.doing = "send" /\ IsOp(op) /\ Admits(op) /\ contracts' = After(op)
        /\ registry' = registry /\ code' = code /\ late' \subseteq late
    BY <1>1, <1>7 DEF Settle, Goes, Applied
  <2>2. op.do = "deploy" /\ run'.got = n + 1
    BY <1>7, <2>1, RunKeeps
  <2>3. contracts'[n + 1] = Uninitialized(Kind(op.name))
    BY <1>1, <2>1, <2>2, ChainMoves
  <2>4. op.name = Here'.name
    <3>1. Here' = Here
      BY <1>7, <2>1, RunAfter, HereStays
    <3> QED
      BY <1>1, <2>1, <3>1 DEF Replacing, Sending
  <2>5. \A o \in late' : IsOffice(o) => o.id \in 0..n
    BY <1>1, <2>1 DEF Sends, Fitting, OfficeFits
  <2> HIDE DEF op, n
  <2>6. Uninitialized(Kind(op.name)).admin = Nobody
        /\ Uninitialized(Kind(op.name)).version = code[Kind(op.name)]
    BY DEF Uninitialized
  <2>7. \A i \in 0..n : i # n + 1
    BY <1>1
  <2>8. \A a \in Names : Ids'[a] \in 0..n
    BY <1>1, <2>1 DEF Ids
  <2> QED
    BY <2>1, <2>2, <2>3, <2>4, <2>5, <2>6, <2>7, <2>8
<1>8. CASE Record
  <2>1. Running /\ contracts' = contracts /\ code' = code /\ late' = late
    BY <1>8 DEF Record
  <2> QED
    BY <1>2, <1>8, <2>1, RunAfter, RecordLeaves DEF Ids
<1>9. ASSUME NEW op \in late, LateSettles(op)
      PROVE  /\ contracts'[run'.got].admin = Nobody
             /\ contracts'[run'.got].version = code'[Kind(Here'.name)]
             /\ \A a \in Names : Ids'[a] # run'.got
             /\ \A o \in late' : IsOffice(o) => o.id # run'.got
  <2>1. Running
    BY <1>9 DEF LateSettles, Running
  <2>2. /\ IsOp(op) /\ Applied(op) /\ late' \subseteq late /\ registry' = registry
        /\ code' = code
    BY <1>9 DEF LateSettles, Applied, Typed
  <2>3. run'.script = run.script /\ run'.at = run.at /\ run'.got = run.got
    BY <1>9, <2>1, RunAfter
  <2> QED
    BY <1>2, <2>1, <2>2, <2>3 DEF Ids
<1>10. CASE \E op \in late : LateIsDropped(op)
  <2>1. Running
    BY <1>10 DEF LateIsDropped, Running
  <2> QED
    BY <1>2, <1>10, <2>1 DEF LateIsDropped, Ids
<1>11. CASE \E kind \in {"token", "pool"} : Rebuild(kind)
  BY <1>11 DEF Rebuild, Running
<1> QED
  BY <1>3, <1>4, <1>5, <1>6, <1>7, <1>8, <1>9, <1>10, <1>11 DEF Next, Scripts

\* The tokens that are replaced, after every step.
LEMMA ReplacingNext ==
  ASSUME Typed, Replacing, [Next]_vars
  PROVE  Replacing'
<1> DEFINE Tokens == {Usdc, Token(Demo)}
           wasm == registry.wasm
           Named == Sending => run.op.name = Here.name
           Older == Running /\ run.doing # "look" /\ Here.do = "deploy" /\ Here.name \in Tokens
                      /\ Ids[Here.name] # NoId => wasm[Here.name] # code["token"]
           New == run.script = "market" /\ run.at < Base => Usdc \notin run.fresh
<1>0. Replacing <=> Named /\ Older /\ New
  BY DEF Replacing
<1>1. Goes /\ IsRegistry(registry, Len(contracts)) /\ Base \in Nat
  BY MarketPoolsAre DEF Typed
\* Where the run does not move.
<1>2. ASSUME Running => Running', Running' => Running, registry'.ids = registry.ids,
             registry'.pools = registry.pools, wasm' = wasm, Running => code' = code,
             Running => /\ run'.script = run.script /\ run'.at = run.at
                        /\ run'.fresh = run.fresh,
             Sending' => Sending /\ run'.op = run.op,
             Running' /\ run'.doing # "look" => run.doing # "look"
      PROVE  Replacing'
  <2>1. Running => Here' = Here
    BY <1>2, HereStays
  <2>2. Named' /\ Older' /\ New'
    <3>1. Named'
      BY <1>0, <1>2, <2>1 DEF Sending
    <3>2. Older'
      BY <1>0, <1>2, <2>1 DEF Ids
    <3>3. New'
      BY <1>0, <1>2 DEF Running
    <3> QED
      BY <3>1, <3>2, <3>3
  <2> QED
    BY <2>2 DEF Replacing
\* Where it goes on to look at the next step.
<1>3. ASSUME Running, run'.doing = "look", run'.script = run.script, run'.at = run.at + 1,
             \/ run'.fresh = run.fresh
             \/ /\ run'.fresh = run.fresh \cup {Here.name} /\ InScript
                /\ Here.do \in {"deploy", "subscribe"}
      PROVE  Replacing'
  <2>1. Named' /\ Older'
    BY <1>3 DEF Sending
  <2>2. ASSUME run.script = "market", run'.at < Base
        PROVE  Usdc \notin run'.fresh
    <3>1. run.at \in Nat \ {0} /\ run.at < Base /\ Usdc \notin run.fresh
      BY <1>0, <1>1, <1>3, <2>2, RunFields
    <3>2. CASE InScript /\ Here.do \in {"deploy", "subscribe"}
      <4>1. run.at \in 1..Base /\ Here = MarketScript[run.at]
        BY <1>1, <2>2, <3>1 DEF Here, StepsOf
      <4>2. run.at = Base - 1
        BY <3>2, <4>1, MarketScriptFits
      <4> QED
        BY <1>1, <1>3, <2>2, <4>2
    <3> QED
      BY <1>3, <3>1, <3>2
  <2> QED
    BY <1>3, <2>1, <2>2 DEF Replacing
<1>4. ASSUME ~Running' PROVE Replacing'
  BY <1>4 DEF Replacing, Sending, Running
<1>5. CASE UNCHANGED vars
  BY <1>2, <1>5 DEF vars, Running, Sending
<1>6. ASSUME NEW script \in Scripts, Start(script)
      PROVE  Replacing'
  <2>1. run'.fresh = {} /\ run'.doing = "look"
    BY <1>6 DEF Start
  <2> QED
    BY <2>1 DEF Replacing, Sending
<1>7. CASE PassOver \/ Generate
  <2>1. Running
    BY <1>7 DEF PassOver, Generate, Looking
  <2>2. CASE Running'
    BY <1>3, <1>7, <2>1, <2>2, RunAfter, RunKeeps
  <2> QED
    BY <1>4, <2>2
<1>8. CASE Decide
  <2> DEFINE op == Transaction(Here)
  <2>1. /\ Running /\ InScript /\ ~NotNeeded(Here) /\ registry' = registry /\ code' = code
    BY <1>8 DEF Decide, Looking, InScript
  <2>2. run'.script = run.script /\ run'.at = run.at
    BY <1>8, <2>1, RunAfter
  <2>3. Here' = Here
    BY <2>1, <2>2, HereStays
  <2>4. Running'
    BY <2>1, <2>2 DEF Running
  <2>5. run'.fresh = run.fresh
    BY <1>8, <2>1, <2>4, RunKeeps
  <2>6. Named'
    <3>1. Sending' => run'.op = op
      BY <1>8, <2>1, RunAfter DEF Sending
    <3>2. op.name = Here.name
      BY DEF Transaction
    <3> QED
      BY <2>3, <3>1, <3>2
  <2>7. New'
    BY <1>0, <2>2, <2>5
  <2>8. ASSUME Here.do = "deploy", Here.name \in Tokens, Ids[Here.name] # NoId
        PROVE  wasm[Here.name] # code["token"]
    <3>1. Kind(Here.name) = "token"
      BY <2>8, NamesDiffer
    <3>2. CASE run.script = "deploy"
      <4>1. ~Reuses(Here.name)
        BY <2>1, <2>8, <3>2 DEF NotNeeded, NotNeededByDeploy
      <4> QED
        BY <2>8, <3>1, <3>2, <4>1 DEF Reuses, IdOf, Ids
    <3>3. CASE run.script = "market"
      <4>1. run.at \in 1..Len(MarketScript) /\ Here = MarketScript[run.at]
        BY <2>1, <2>8, <3>3, DeploysHere
      <4>2. Here.name = Usdc
        <5>1. \A p \in Pools : p # Demo => Token(p) \notin Tokens /\ Pool(p) \notin Tokens
          BY NamesDiffer
        <5> QED
          BY <2>8, <4>1, <5>1, MarketNames, MarketPoolsAre
      <4>3. run.at \in 1..Base
        <5>1. CASE run.at \notin 1..Base
          <6>1. run.at \in (Base + 1)..Len(MarketScript)
            BY <4>1, <5>1, MarketPoolsAre
          <6>2. PICK b \in 1..Len(Market), o \in 1..8 : run.at = Place(b, o)
            BY <6>1, MarketScriptFits DEF Place
          <6>3. Here = MarketSteps(Market[b])[o]
            BY <4>1, <6>2, Places
          <6> QED
            BY <2>8, <4>2, <6>3, PoolSteps
        <5> QED
          BY <5>1
      <4>4. run.at < Base
        BY <1>1, <2>8, <4>1, <4>3, MarketScriptFits
      <4>5. Usdc \notin run.fresh
        BY <1>0, <3>3, <4>4
      <4>6. NotNeeded(Here)
        BY <2>8, <3>3, <4>2, <4>5 DEF NotNeeded, NotNeededByMarket, IdOf, Ids
      <4> QED
        BY <2>1, <4>6
    <3> QED
      BY <2>1, <2>8, <3>2, <3>3, DeploysHere
  <2>9. Older'
    BY <2>1, <2>3, <2>8 DEF Ids
  <2> QED
    BY <2>6, <2>7, <2>9 DEF Replacing
<1>9. CASE Settle
  <2>1. /\ Running /\ run.doing = "send" /\ registry' = registry /\ code' = code
    BY <1>9 DEF Settle
  <2>2. /\ run'.script = run.script /\ run'.at = run.at /\ run'.doing # "send"
        /\ run'.fresh = run.fresh
    BY <1>9, <2>1, RunAfter, RunKeeps DEF Running
  <2> QED
    BY <1>2, <2>1, <2>2 DEF Running, Sending
<1>10. CASE Record
  <2>1. /\ Running /\ run.doing = "record" /\ code' = code
    BY <1>10 DEF Record
  <2>2. /\ run'.script = run.script /\ run'.at = run.at /\ run'.doing # "send"
        /\ run'.fresh = run.fresh
    BY <1>10, <2>1, RunAfter, RunKeeps DEF Running
  <2> QED
    BY <1>2, <1>10, <2>1, <2>2, RecordLeaves DEF Running, Sending
<1>11. CASE Write
  <2>1. Running /\ InScript
    BY <1>1, <1>11 DEF Write, Goes
  <2> QED
    BY <1>3, <1>11, <2>1, RunAfter, RunKeeps
<1>12. CASE Fail \/ Pass \/ Interrupt
  BY <1>4, <1>12 DEF Fail, Pass, Interrupt, Ended, Running
<1>13. ASSUME NEW op \in late, LateSettles(op)
       PROVE  Replacing'
  <2>1. registry' = registry /\ code' = code
    BY <1>13 DEF LateSettles
  <2>2. CASE Running
    <3>1. /\ run'.script = run.script /\ run'.at = run.at /\ run'.fresh = run.fresh
          /\ run'.doing = run.doing /\ run'.op = run.op
      BY <1>13, <2>2, RunAfter, RunKeeps
    <3> QED
      BY <1>2, <2>1, <2>2, <3>1 DEF Running, Sending
  <2>3. CASE ~Running
    BY <1>4, <1>13, <2>3 DEF LateSettles, Running
  <2> QED
    BY <2>2, <2>3
<1>14. ASSUME NEW op \in late, LateIsDropped(op)
       PROVE  Replacing'
  BY <1>2, <1>14 DEF LateIsDropped, Running, Sending
<1>15. ASSUME NEW kind \in {"token", "pool"}, Rebuild(kind)
       PROVE  Replacing'
  BY <1>4, <1>15 DEF Rebuild, Running
<1> QED
  BY <1>5, <1>6, <1>7, <1>8, <1>9, <1>10, <1>11, <1>12, <1>13, <1>14, <1>15
  DEF Next, Scripts

\* Fewer transactions fit too.
LEMMA FittingFewer ==
  ASSUME NEW cs, NEW ids, NEW wasm, NEW built, NEW ops, NEW fewer, fewer \subseteq ops,
         Fitting(cs, ids, wasm, built, ops)
  PROVE  Fitting(cs, ids, wasm, built, fewer)
  BY DEF Fitting

\* And so does one more that does.
LEMMA FittingMore ==
  ASSUME NEW cs, NEW ids, NEW wasm, NEW built, NEW ops, NEW op, NEW more,
         more \subseteq ops \cup {op},
         IsOffice(op) => OfficeFits(op, cs, ids, built["token"]),
         Fitting(cs, ids, wasm, built, ops)
  PROVE  Fitting(cs, ids, wasm, built, more)
  BY DEF Fitting

\* What is sent for an office fits.
LEMMA OfficesSent ==
  ASSUME Typed, Kept, DeployDone, Decide, IsOffice(Here)
  PROVE  OfficeFits(Transaction(Here), contracts, Ids, code["token"])
<1> DEFINE n == Len(contracts)
           v == code["token"]
           op == Transaction(Here)
<1>1. /\ n \in Nat /\ Ids \in [Names -> 0..n] /\ DemoPool \in Names
      /\ Fitting(contracts, Ids, registry.wasm, code, Sends)
      /\ code \in [{"token", "pool"} -> Nat \ {0}]
  BY RegistryFields, NamesAreNames DEF Typed, IsChain, Ids, DemoPool, Kept
<1>2. Running /\ InScript /\ run.doing = "look"
  BY DEF Decide, Looking, InScript
<1>3. /\ run.script \in {"deploy", "market"} /\ Here.name \in Names
      /\ Here.name = DemoPool => run.script = "deploy" /\ run.at = 6
  BY <1>2, OfficesHere
<1>4. /\ op.do = Here.do /\ op.name = Here.name /\ op.id = Ids[Here.name]
      /\ op.by = Signer(Here)
      /\ Kind(Here.name) = "pool" => op.usdc = Ids[Usdc] /\ op.token = Ids[Token(Here.pool)]
  BY <1>3 DEF Transaction, IdOf, Ids
<1>5. \A name \in Names : op.id # NoId /\ op.id = Ids[name] => op.name = name
  BY <1>1, <1>3, <1>4 DEF Fitting, NamedOnce
<1>6. Here.name = DemoPool => Here.do = "initialize" /\ Here.pool = Demo
  BY <1>2, <1>3, DeployHere
<1>7. ASSUME Here.name = DemoPool
      PROVE  op.by = TestIssuer /\ TokensFit(contracts, Ids, v, op.usdc, op.token)
  <2>1. Kind(Here.name) = "pool" /\ Here.name # Usdc /\ Here.name[1] # "token"
    BY <1>7, NamesDiffer DEF DemoPool, Pool, Usdc
  <2>2. op.by = TestIssuer
    BY <1>4, <1>6, <1>7, <2>1 DEF Signer, TestIssuer
  <2>3. /\ Ids[Usdc] # NoId /\ registry.wasm[Usdc] = v
        /\ Ids[Token(Demo)] # NoId /\ registry.wasm[Token(Demo)] = v
    <3>1. IsPast(1) /\ IsPast(2)
      BY <1>3, <1>7 DEF IsPast
    <3> QED
      BY <1>3, <1>7, <3>1 DEF DeployDone, Left
  <2>4. /\ Usdc \in Names /\ Token(Demo) \in Names
    BY NamesAreNames
  <2>5. contracts[Ids[Usdc]].version = v /\ contracts[Ids[Token(Demo)]].version = v
    BY <1>1, <2>3, <2>4 DEF Fitting, VersionsFit
  <2>6. Ids[Usdc] \in 1..n /\ Ids[Token(Demo)] \in 1..n /\ v \in Nat
    BY <1>1, <2>3, <2>4 DEF NoId
  <2>7. op.usdc = Ids[Usdc] /\ op.token = Ids[Token(Demo)]
    BY <1>4, <1>6, <1>7, <2>1
  <2> QED
    BY <2>2, <2>5, <2>6, <2>7 DEF TokensFit
<1>8. op.id \in 0..n
  BY <1>1, <1>3, <1>4
<1>9. op.do = "set_admin" => op.name # DemoPool
  BY <1>4, <1>6
<1> HIDE DEF op
<1>10. op.id # NoId /\ op.id = Ids[DemoPool] => Here.name = DemoPool
  BY <1>1, <1>4, <1>5
<1> QED
  BY <1>5, <1>7, <1>8, <1>9, <1>10 DEF OfficeFits, op

\* What fits goes on to, after every step.
LEMMA FittingNext ==
  ASSUME Typed, Kept, DeployDone, [Next]_vars
  PROVE  Fitting(contracts', Ids', registry'.wasm, code', Sends')
<1>1. /\ Fitting(contracts, Ids, registry.wasm, code, Sends) /\ Held /\ Replacing
      /\ IsRegistry(registry, Len(contracts))
  BY DEF Kept, Typed
<1>2. ASSUME contracts' = contracts, Ids' = Ids, registry'.wasm = registry.wasm,
             code' = code, Sends' \subseteq Sends
      PROVE  Fitting(contracts', Ids', registry'.wasm, code', Sends')
  BY <1>1, <1>2, FittingFewer
<1>3. CASE Decide
  <2>1. /\ contracts' = contracts /\ registry' = registry /\ code' = code
        /\ Here.do # "identity"
    BY <1>3 DEF Decide
  <2>2. CASE Sends' \subseteq Sends
    BY <1>2, <2>1, <2>2 DEF Ids
  <2>3. CASE ~(Sends' \subseteq Sends)
    <3> DEFINE op == Transaction(Here)
    <3>1. Sends' \subseteq Sends \cup {op}
      BY <1>3, SendsMove
    <3>2. op.do = Here.do
      BY DEF Transaction
    <3>3. IsOffice(op) => OfficeFits(op, contracts, Ids, code["token"])
      BY <1>3, <3>2, OfficesSent DEF IsOffice
    <3> HIDE DEF op
    <3>4. Fitting(contracts, Ids, registry.wasm, code, Sends')
      BY <1>1, <3>1, <3>3, FittingMore
    <3> QED
      BY <2>1, <3>4 DEF Ids
  <2> QED
    BY <2>2, <2>3
<1>4. ~Decide => Sends' \subseteq Sends
  BY SendsMove
<1>5. CASE ~Decide /\ ((\E script \in Scripts : Start(script)) \/ UNCHANGED vars \/ PassOver
             \/ Generate \/ Fail \/ Interrupt \/ \E op \in late : LateIsDropped(op))
  <2>1. contracts' = contracts /\ registry' = registry /\ code' = code
    BY <1>5 DEF Start, PassOver, Generate, Fail, Interrupt, LateIsDropped, vars
  <2> QED
    BY <1>2, <1>4, <1>5, <2>1 DEF Ids
<1>6. ASSUME NEW op \in Sends, IsOp(op), Applied(op), registry' = registry, code' = code,
             ~Decide
      PROVE  Fitting(contracts', Ids', registry'.wasm, code', Sends')
  <2>1. Fitting(contracts', Ids, registry.wasm, code, Sends)
    BY <1>1, <1>6, FittingByChain
  <2>2. Fitting(contracts', Ids, registry.wasm, code, Sends')
    BY <1>4, <1>6, <2>1, FittingFewer
  <2> QED
    BY <1>6, <2>2 DEF Ids
<1>7. CASE ~Decide /\ Settle
  <2>1. /\ Sending /\ Applied(run.op) /\ registry' = registry /\ code' = code
    BY <1>7 DEF Settle, Sending
  <2>2. run.op \in Sends /\ IsOp(run.op)
    BY <2>1 DEF Sends, Sending, Typed, Goes
  <2> QED
    BY <1>6, <1>7, <2>1, <2>2
<1>8. ASSUME ~Decide, NEW op \in late, LateSettles(op)
      PROVE  Fitting(contracts', Ids', registry'.wasm, code', Sends')
  <2>1. Applied(op) /\ registry' = registry /\ code' = code /\ op \in Sends /\ IsOp(op)
    BY <1>8 DEF LateSettles, Sends, Typed
  <2> QED
    BY <1>6, <1>8, <2>1
<1>9. CASE ~Decide /\ Record
  <2>1. contracts' = contracts /\ code' = code
    BY <1>9 DEF Record
  <2> QED
    BY <1>2, <1>4, <1>9, <2>1, RecordLeaves DEF Ids
<1>10. CASE ~Decide /\ Write
  <2>1. Running /\ contracts' = contracts /\ code' = code /\ run.doing = "write" /\ ~Sending
    BY <1>10 DEF Write, Sending
  <2>2. CASE Here.do # "deploy"
    <3>1. Ids' = Ids /\ registry'.wasm = registry.wasm
      BY <1>10, <2>2, WriteLeaves DEF Ids
    <3> QED
      BY <1>2, <1>4, <1>10, <2>1, <3>1
  <2>3. CASE Here.do = "deploy"
    <3>1. run.got # NoId
      BY <1>10, <2>3, WriteLeaves DEF NoId
    <3>2. \A op \in Sends : IsOffice(op) => op.id # run.got
      BY <1>1, <2>1, <3>1 DEF Held, Sends
    <3>3. Fitting(contracts, Ids', registry'.wasm, code, Sends)
      BY <1>1, <1>10, <2>3, <3>2, FittingByWrite
    <3>4. Fitting(contracts, Ids', registry'.wasm, code, Sends')
      BY <1>4, <1>10, <3>3, FittingFewer
    <3> QED
      BY <2>1, <3>4
  <2> QED
    BY <2>2, <2>3
<1>11. CASE ~Decide /\ Pass
  <2>1. contracts' = contracts /\ code' = code
        /\ registry' = IF run.script = "market" THEN Published ELSE registry
    BY <1>11 DEF Pass
  <2>2. CASE run.script # "market"
    BY <1>2, <1>4, <1>11, <2>1, <2>2 DEF Ids
  <2>3. CASE run.script = "market"
    <3>1. Fitting(contracts, Ids', registry'.wasm, code, Sends)
      BY <1>1, <2>1, <2>3, FittingByPass
    <3>2. Fitting(contracts, Ids', registry'.wasm, code, Sends')
      BY <1>4, <1>11, <3>1, FittingFewer
    <3> QED
      BY <2>1, <3>2
  <2> QED
    BY <2>2, <2>3
<1>12. ASSUME ~Decide, NEW kind \in {"token", "pool"}, Rebuild(kind)
       PROVE  Fitting(contracts', Ids', registry'.wasm, code', Sends')
  <2>1. contracts' = contracts /\ registry' = registry
    BY <1>12 DEF Rebuild
  <2>2. Fitting(contracts, Ids, registry.wasm, code', Sends)
    BY <1>1, OthersNext, FittingByRebuild
  <2>3. Fitting(contracts, Ids, registry.wasm, code', Sends')
    BY <1>4, <1>12, <2>2, FittingFewer
  <2> QED
    BY <2>1, <2>3 DEF Ids
<1> QED
  BY <1>3, <1>5, <1>7, <1>8, <1>9, <1>10, <1>11, <1>12 DEF Next, Scripts

\* So everything is kept.
LEMMA KeptNext == Typed /\ Kept /\ DeployDone /\ [Next]_vars => Kept'
<1> SUFFICES ASSUME Typed, Kept, DeployDone, [Next]_vars PROVE Kept'
  OBVIOUS
<1>1. Fitting(contracts', Ids', registry'.wasm, code', Sends')
  BY FittingNext
<1>2. Held' /\ Replacing'
  BY HeldNext, ReplacingNext DEF Kept
<1> QED
  BY <1>1, <1>2 DEF Kept

\* Paying leaves numbers.
LEMMA PaidIsNumber ==
  ASSUME NEW b \in [Accounts -> Int], NEW who, NEW sum \in Int
  PROVE  /\ [b EXCEPT ![who] = @ + sum] \in [Accounts -> Int]
         /\ [b EXCEPT ![who] = @ - sum] \in [Accounts -> Int]
<1>1. \A a \in Accounts : b[a] \in Int /\ b[a] + sum \in Int /\ b[a] - sum \in Int
  OBVIOUS
<1>2. /\ [b EXCEPT ![who] = @ + sum] =
           [a \in Accounts |-> IF a = who THEN b[a] + sum ELSE b[a]]
      /\ [b EXCEPT ![who] = @ - sum] =
           [a \in Accounts |-> IF a = who THEN b[a] - sum ELSE b[a]]
  OBVIOUS
<1> QED
  BY <1>1, <1>2

\* A transaction leaves the balances numbers.
LEMMA BalancesMove ==
  ASSUME Typed, Balances, NEW op \in Sends, IsOp(op), Applied(op)
  PROVE  \A i \in 1..Len(contracts') : contracts'[i].balance \in [Accounts -> Int]
<1> DEFINE n == Len(contracts)
<1>1. /\ IsChain(contracts) /\ n \in Nat /\ Admits(op) /\ contracts' = After(op)
  BY DEF Typed, IsChain, Applied
<1> SUFFICES ASSUME NEW i \in 1..Len(contracts')
             PROVE  contracts'[i].balance \in [Accounts -> Int]
  OBVIOUS
<1>2. CASE i \in 1..n
  <2> DEFINE b == contracts[i].balance
  <2>1. b \in [Accounts -> Int]
    BY <1>2 DEF Balances
  <2>2. CASE op.do = "mint"
    <3>1. CASE i = op.id
      <4>1. op.amount \in Int
        BY <1>1, <1>2, <2>2, <3>1 DEF Balances, NoId
      <4>2. contracts'[i].balance = [b EXCEPT ![op.to] = @ + op.amount]
        BY <1>1, <1>2, <2>2, <3>1, AdminsMove DEF Paid
      <4> DEFINE sum == op.amount
                 who == op.to
      <4> HIDE DEF b, sum, who
      <4>3. [b EXCEPT ![who] = @ + sum] \in [Accounts -> Int]
        BY <2>1, <4>1, PaidIsNumber DEF sum
      <4> QED
        BY <4>2, <4>3 DEF sum, who
    <3>2. CASE i # op.id
      BY <1>1, <1>2, <2>1, <2>2, <3>2, AdminsMove
    <3> QED
      BY <3>1, <3>2
  <2>3. CASE op.do = "subscribe"
    <3>1. op.pool \in Pools
      BY <2>3 DEF Balances
    <3>2. Amount[op.pool] \in Int
      BY <3>1, AmountAssumption
    <3>3. \/ contracts'[i].balance = b
          \/ contracts'[i].balance = [b EXCEPT ![op.by] = @ - Amount[op.pool]]
      BY <1>1, <1>2, <2>3, AdminsMove
    <3> DEFINE sum == Amount[op.pool]
               who == op.by
    <3> HIDE DEF b, sum, who
    <3>4. [b EXCEPT ![who] = @ - sum] \in [Accounts -> Int]
      BY <2>1, <3>2, PaidIsNumber DEF sum
    <3> QED
      BY <2>1, <3>3, <3>4 DEF sum, who
  <2>4. CASE op.do \notin {"mint", "subscribe"}
    BY <1>1, <1>2, <2>1, <2>4, AdminsMove
  <2> QED
    BY <2>2, <2>3, <2>4
<1>3. CASE i \notin 1..n
  <2>1. op.do = "deploy" /\ i = n + 1
    BY <1>1, <1>3, ChainMoves
  <2>2. contracts'[n + 1] = Uninitialized(Kind(op.name))
    BY <1>1, <2>1, ChainMoves
  <2>3. Uninitialized(Kind(op.name)).balance = [a \in Accounts |-> 0]
    BY DEF Uninitialized
  <2> HIDE DEF n
  <2> QED
    BY <2>1, <2>2, <2>3
<1> QED
  BY <1>2, <1>3

\* What is sent pays numbers.
LEMMA BalancesSent ==
  ASSUME Typed, Balances, Decide, Here.do \notin {"replay", "accounts"}
  PROVE  LET op == Transaction(Here) IN
         /\ op.do = "mint" => op.to \in Accounts /\ (op.id # NoId => op.amount \in Int)
         /\ op.do = "subscribe" => op.pool \in Pools
<1> DEFINE op == Transaction(Here)
           n == Len(contracts)
<1>1. /\ Running /\ InScript /\ run.script \in Scripts /\ IsRegistry(registry, n)
      /\ Ids \in [Names -> 0..n] /\ n \in Nat
  BY RunFields, RegistryFields DEF Decide, Looking, InScript, Typed, IsChain, Ids
<1>2. Fits(Here)
  BY <1>1, HereFits
<1>3. op.do = Here.do /\ op.pool = Here.pool /\ op.id = IdOf(Here.name)
  BY DEF Transaction
<1>4. Here.pool \in Pools
  BY <1>2 DEF Fits
<1>5. ASSUME Here.do = "mint", op.id # NoId
      PROVE  op.amount \in Int
  <2>1. Here.name = Usdc /\ IdOf(Usdc) = Ids[Usdc]
    <3>1. Here.name = Usdc
      BY <1>1, <1>5, OfficesHere
    <3> QED
      BY <3>1, NamesDiffer DEF IdOf, Ids
  <2>2. op.amount = MintAmount(Here)
    BY <1>5 DEF Transaction
  <2>3. Ids[Usdc] \in 1..n
    BY <1>1, <1>3, <1>5, <2>1, NamesAreNames DEF NoId
  <2>4. Subscriber(Here) \in Accounts
    BY <1>4, NamesAreNames DEF Subscriber
  <2>5. At(Usdc).balance[Subscriber(Here)] \in Int
    BY <2>1, <2>3, <2>4 DEF At, Balances
  <2>6. Target[Here.pool] \in Int /\ Amount[Here.pool] \in Int
    BY <1>4, AmountAssumption
  <2>7. Shortfall(Here) \in Int
    BY <2>5, <2>6 DEF Shortfall
  <2> QED
    BY <2>2, <2>6, <2>7 DEF MintAmount
<1>6. Here.do = "mint" => op.to \in Accounts
  BY <1>4, NamesAreNames DEF Transaction, Subscriber
<1> QED
  BY <1>3, <1>4, <1>5, <1>6

\* The balances, after every step.
LEMMA BalancesNext == Typed /\ Balances /\ [Next]_vars => Balances'
<1> SUFFICES ASSUME Typed, Balances, [Next]_vars PROVE Balances'
  OBVIOUS
<1> DEFINE Pays(op) ==
             /\ op.do = "mint" => op.to \in Accounts /\ (op.id # NoId => op.amount \in Int)
             /\ op.do = "subscribe" => op.pool \in Pools
<1>1. /\ \A i \in 1..Len(contracts) : contracts[i].balance \in [Accounts -> Int]
      /\ \A op \in Sends : Pays(op)
  BY DEF Balances
<1>2. \A i \in 1..Len(contracts') : contracts'[i].balance \in [Accounts -> Int]
  <2>1. CASE contracts' = contracts
    BY <1>1, <2>1
  <2>2. CASE Settle
    <3>1. run.op \in Sends /\ IsOp(run.op) /\ Applied(run.op)
      BY <2>2 DEF Settle, Sends, Sending, Typed, Goes
    <3> QED
      BY <3>1, BalancesMove
  <2>3. ASSUME NEW op \in late, LateSettles(op)
        PROVE  \A i \in 1..Len(contracts') : contracts'[i].balance \in [Accounts -> Int]
    <3>1. op \in Sends /\ IsOp(op) /\ Applied(op)
      BY <2>3 DEF LateSettles, Sends, Typed
    <3> QED
      BY <3>1, BalancesMove
  <2>4. contracts' = contracts \/ Settle \/ \E op \in late : LateSettles(op)
    BY DEF Next, vars, Start, PassOver, Generate, Decide, Record, Write, Fail, Pass, Interrupt,
       LateIsDropped, Rebuild
  <2> QED
    BY <2>1, <2>2, <2>3, <2>4
<1>3. \A op \in Sends' : Pays(op)
  <2>1. CASE Decide /\ Here.do \notin {"replay", "accounts"}
    <3>1. Pays(Transaction(Here))
      BY <2>1, BalancesSent
    <3> HIDE DEF Pays
    <3> QED
      BY <1>1, <2>1, <3>1, SendsMove
  <2>2. CASE ~(Decide /\ Here.do \notin {"replay", "accounts"})
    <3>1. Sends' \subseteq Sends
      BY <2>2, SendsMove
    <3> QED
      BY <1>1, <3>1
  <2> QED
    BY <2>1, <2>2
<1> QED
  BY <1>2, <1>3 DEF Balances

\* What the steps of deploy.ts left is not taken back.
LEMMA LeftStays ==
  ASSUME Typed, [Next]_vars, NEW k \in 1..8,
         \A j \in 1..8 : j <= k => Left(contracts, Ids, registry.wasm, code, j)
  PROVE  Left(contracts', Ids, registry.wasm, code, k)
<1> DEFINE n == Len(contracts)
<1>1. /\ Ids \in [Names -> 0..n] /\ n \in Nat /\ Grows
      /\ DemoPool \in Names /\ Token(Demo) \in Names
  BY RegistryFields, ChainNext, NamesAreNames DEF Typed, IsChain, Ids, DemoPool
<1>2. Left(contracts, Ids, registry.wasm, code, k)
  OBVIOUS
<1>3. CASE k = 6
  <2>1. Left(contracts, Ids, registry.wasm, code, 3)
    BY <1>3
  <2>2. Ids[DemoPool] \in 1..n
    BY <1>1, <2>1 DEF Left, NoId
  <2> QED
    BY <1>1, <1>2, <1>3, <2>2 DEF Left, Grows, Later
<1>4. CASE k = 7
  <2>1. Left(contracts, Ids, registry.wasm, code, 2)
    BY <1>4
  <2>2. Ids[Token(Demo)] \in 1..n
    BY <1>1, <2>1 DEF Left, NoId
  <2> QED
    BY <1>1, <1>2, <1>4, <2>2, AddressesDiffer DEF Left, Grows, Later
<1>5. CASE k \notin {6, 7}
  BY <1>2, <1>5 DEF Left
<1> QED
  BY <1>3, <1>4, <1>5

\* What is past stays so, with what the step at hand left.
LEMMA PastNext ==
  ASSUME Typed, DeployDone, [Next]_vars, run.script = "deploy",
         Ids' = Ids, registry'.wasm = registry.wasm, code' = code,
         \A k \in 1..8 : IsPast(k)' =>
           IsPast(k) \/ (k = run.at /\ Left(contracts', Ids, registry.wasm, code, k)),
         run.at \in Nat
  PROVE  \A k \in 1..8 : IsPast(k)' => Left(contracts', Ids', registry'.wasm, code', k)
<1> SUFFICES ASSUME NEW k \in 1..8, IsPast(k), IsPast(k)'
             PROVE  Left(contracts', Ids, registry.wasm, code, k)
  OBVIOUS
<1>1. \A j \in 1..8 : j <= k => IsPast(j)
  BY DEF IsPast
<1>2. \A j \in 1..8 : j <= k => Left(contracts, Ids, registry.wasm, code, j)
  BY <1>1 DEF DeployDone
<1> QED
  BY <1>2, LeftStays

\* A transaction of deploy.ts leaves what its step is for.
LEMMA DeploySettles ==
  ASSUME Typed, Balances, DeployDone, Settle, run.script = "deploy", run.at \in {6, 7, 8}
  PROVE  /\ Left(contracts', Ids, registry.wasm, code, run.at)
         /\ run.at = 8 /\ ~run.overtaken => Minted(contracts', Ids)
<1> DEFINE n == Len(contracts)
           op == run.op
           id == op.id
<1>1. /\ Running /\ Sending /\ InScript /\ IsOp(op) /\ op.do = Here.do
      /\ Admits(op) /\ contracts' = After(op) /\ IsChain(contracts)
      /\ Ids \in [Names -> 0..n] /\ n \in Nat
      /\ DemoPool \in Names /\ Token(Demo) \in Names /\ Usdc \in Names
  BY RegistryFields, NamesAreNames
  DEF Settle, Sending, Applied, Typed, Goes, Running, Ids, IsChain, DemoPool
<1>2. \A k \in 1..3 : Left(contracts, Ids, registry.wasm, code, k)
  BY DEF DeployDone, IsPast
<1>3. Ids[Usdc] \in 1..n /\ Ids[Token(Demo)] \in 1..n /\ Ids[DemoPool] \in 1..n
  BY <1>1, <1>2 DEF Left, NoId
<1>4. CASE run.at = 6
  <2>1. op.do = "initialize" /\ id = Ids[DemoPool]
    BY <1>1, <1>4, DeployHere DEF DeployDone
  <2>2. contracts'[id].admin = op.by
    BY <1>1, <1>3, <2>1, ChainMoves DEF Leaves
  <2>3. op.by # Nobody
    BY <1>1, AddressesDiffer DEF IsOp
  <2> QED
    BY <1>4, <2>1, <2>2, <2>3 DEF Left
<1>5. CASE run.at = 7
  <2>1. op.do = "set_admin" /\ id = Ids[Token(Demo)] /\ op.to = Contract(Ids[DemoPool])
    BY <1>1, <1>5, DeployHere DEF DeployDone
  <2>2. contracts'[id].admin = op.to
    BY <1>1, <1>3, <2>1, ChainMoves DEF Leaves
  <2> QED
    BY <1>5, <2>1, <2>2 DEF Left
<1>6. CASE run.at = 8
  <2>1. Left(contracts', Ids, registry.wasm, code, run.at)
    BY <1>6 DEF Left
  <2>2. ASSUME ~run.overtaken PROVE Minted(contracts', Ids)
    <3> DEFINE b == contracts[Ids[Usdc]].balance
               who == Investor(Demo)
               x == b[who]
               y == Target[Demo]
               sum == op.amount
    <3>1. op.do = "mint" /\ MintsShortfall(op, contracts, Ids)
      BY <1>1, <1>6, <2>2, DeployHere DEF DeployDone
    <3>2. id = Ids[Usdc] /\ op.to = who /\ sum = y - x
      BY <3>1 DEF MintsShortfall
    <3>3. contracts'[id].balance = [b EXCEPT ![who] = @ + sum]
      <4>1. id \in 1..n
        BY <1>3, <3>2
      <4>2. Paid(contracts[id], contracts'[id], op.to, op.amount)
        <5> HIDE DEF id, op, n
        <5>1. id = op.id
          BY DEF id
        <5> QED
          BY <1>1, <3>1, <4>1, <5>1, AdminsMove DEF n
      <4> QED
        BY <3>2, <4>2 DEF Paid
    <3>4. b \in [Accounts -> Int] /\ who \in Accounts /\ y \in Int
      BY <1>3, NamesAreNames, AmountAssumption DEF Balances
    <3>5. x \in Int
      BY <3>4
    <3>6. contracts'[Ids[Usdc]].balance[who] = x + sum
      <4> HIDE DEF b, who, sum, id
      <4> QED
        BY <3>2, <3>3, <3>4
    <3>7. x + sum >= y
      <4> HIDE DEF x, y, sum
      <4> QED
        BY <3>2, <3>4, <3>5
    <3> QED
      BY <3>6, <3>7 DEF Minted
  <2> QED
    BY <2>1, <2>2
<1> QED
  BY <1>4, <1>5, <1>6

\* A step that is not needed left what it is for before.
LEMMA DeployNotNeeded ==
  ASSUME Typed, Balances, DeployDone, Running, run.script = "deploy", InScript, NotNeeded(Here)
  PROVE  /\ Left(contracts, Ids, registry.wasm, code, run.at)
         /\ run.at = 8 => Minted(contracts, Ids)
<1>1. /\ run.at \in 1..8 /\ NotNeededByDeploy(Here) /\ Here.pool = Demo
  BY DeployHere, DeployScriptIs DEF NotNeeded
<1>2. \A name : IdOf(name) = Ids[name] /\ At(name) = contracts[Ids[name]]
  BY DEF IdOf, At, Ids
<1>3. CASE run.at \in {1, 2, 3}
  <2>1. Reuses(Here.name)
    BY <1>1, <1>3, DeployHere DEF NotNeededByDeploy
  <2>2. /\ Kind(Usdc) = "token" /\ Kind(Token(Demo)) = "token"
    BY NamesDiffer
  <2> QED
    BY <1>2, <1>3, <2>1, <2>2, DeployHere DEF Left, Reuses
<1>4. CASE run.at \in {4, 5}
  BY <1>4 DEF Left
<1>5. CASE run.at = 6
  BY <1>1, <1>2, <1>5, DeployHere DEF NotNeededByDeploy, Left
<1>6. CASE run.at = 7
  BY <1>1, <1>2, <1>6, DeployHere DEF NotNeededByDeploy, Left, DemoPool
<1>7. CASE run.at = 8
  <2>1. Left(contracts, Ids, registry.wasm, code, run.at)
    BY <1>7 DEF Left
  <2> DEFINE x == contracts[Ids[Usdc]].balance[Investor(Demo)]
             y == Target[Demo]
  <2>2. y - x <= 0
    <3>1. Shortfall(Here) <= 0
      BY <1>1, <1>7, DeployHere DEF NotNeededByDeploy
    <3> QED
      BY <1>1, <1>2, <3>1 DEF Shortfall, Subscriber
  <2>3. x \in Int /\ y \in Int
    <3>1. Left(contracts, Ids, registry.wasm, code, 1)
      BY <1>7 DEF DeployDone, IsPast
    <3>2. Ids[Usdc] \in 1..Len(contracts)
      BY <3>1, RegistryFields, NamesAreNames DEF Left, Typed, IsChain, Ids, NoId
    <3> QED
      BY <3>2, NamesAreNames, AmountAssumption DEF Balances
  <2>4. x >= y
    <3> HIDE DEF x, y
    <3> QED
      BY <2>2, <2>3
  <2> QED
    BY <2>1, <2>4 DEF Minted
<1> QED
  BY <1>1, <1>3, <1>4, <1>5, <1>6, <1>7

\* What deploy.ts has done, after every step.
LEMMA DeployDoneNext ==
  ASSUME Typed, Balances, DeployDone, [Next]_vars
  PROVE  DeployDone'
<1> DEFINE n == Len(contracts)
           wasm == registry.wasm
           Steps == \A k \in 1..8 : IsPast(k) => Left(contracts, Ids, wasm, code, k)
           Funded == IsPast(8) /\ ~run.overtaken => Minted(contracts, Ids)
           Sent == Sending =>
                     /\ run.at \in {6, 7} => run.op.id = Ids[Here.name]
                     /\ run.at = 7 => run.op.to = Contract(Ids[DemoPool])
                     /\ run.at = 8 /\ ~run.overtaken => MintsShortfall(run.op, contracts, Ids)
<1>0. DeployDone <=> (run.script = "deploy" => Steps /\ Funded /\ Sent)
  BY DEF DeployDone
<1>1. /\ Goes /\ Ids \in [Names -> 0..n] /\ wasm \in [Names -> Nat] /\ n \in Nat
      /\ Usdc \in Names /\ Token(Demo) \in Names /\ DemoPool \in Names
  BY RegistryFields, NamesAreNames DEF Typed, IsChain, Ids, DemoPool
<1>2. run.script = "deploy" => Running /\ Steps /\ Funded /\ Sent /\ run.at \in Nat
  BY <1>0, RunFields DEF Running
<1>3. ASSUME run'.script = "deploy" => Steps' /\ Funded' /\ Sent'
      PROVE  DeployDone'
  BY <1>3 DEF DeployDone
<1>4. CASE run'.script # "deploy"
  BY <1>4 DEF DeployDone
<1>5. ASSUME NEW script \in Scripts, Start(script), run'.script = "deploy"
      PROVE  DeployDone'
  <2>1. run'.at = 1 /\ run'.doing = "look"
    BY <1>5 DEF Start, Recorded
  <2>2. Steps' /\ Funded' /\ Sent'
    BY <2>1 DEF IsPast, Sending
  <2> QED
    BY <1>3, <2>2
\* The chain, the registry and the sources do not change, nor does the run
\* but for what overtakes it.
<1>6. ASSUME contracts' = contracts, Ids' = Ids, wasm' = wasm, code' = code, run' = run,
             registry'.pools = registry.pools
      PROVE  DeployDone'
  <2>1. Here' = Here
    BY <1>6, HereStays
  <2>2. run.script = "deploy" => Steps' /\ Funded' /\ Sent'
    BY <1>2, <1>6, <2>1 DEF IsPast, Sending, Running
  <2> QED
    BY <1>3, <1>6, <2>2
<1>7. CASE UNCHANGED vars
  BY <1>6, <1>7 DEF vars, Ids
<1>8. ASSUME NEW op \in late, LateIsDropped(op)
      PROVE  DeployDone'
  BY <1>6, <1>8 DEF LateIsDropped, Ids
<1>9. ASSUME NEW kind \in {"token", "pool"}, Rebuild(kind)
      PROVE  DeployDone'
  BY <1>4, <1>9 DEF Rebuild, Running
<1>10. CASE Fail \/ Pass \/ Interrupt
  BY <1>4, <1>10 DEF Fail, Pass, Interrupt, Ended
<1>11. CASE PassOver
  <2>1. /\ Running /\ InScript /\ NotNeeded(Here) /\ registry' = registry /\ code' = code
        /\ contracts' = contracts /\ run.doing = "look"
    BY <1>11 DEF PassOver, Looking, InScript
  <2>2. run'.script = run.script /\ run'.at = run.at + 1 /\ run'.doing = "look"
    BY <1>11, <2>1, RunAfter
  <2>3. CASE run.script = "deploy"
    <3>1. run.at \in 1..8
      BY <2>1, <2>3, DeployHere
    <3>2. /\ Left(contracts, Ids, wasm, code, run.at)
          /\ run.at = 8 => Minted(contracts, Ids)
      BY <2>1, <2>3, DeployNotNeeded
    <3>3. \A k \in 1..8 : IsPast(k)' => IsPast(k) \/ k = run.at
      BY <2>2, <3>1 DEF IsPast
    <3>4. Ids' = Ids /\ wasm' = wasm
      BY <2>1 DEF Ids
    <3>5. Steps'
      BY <1>2, <2>1, <2>3, <3>2, <3>3, <3>4
    <3>6. Funded'
      <4>1. IsPast(8)' => run.at = 8
        BY <2>2, <3>1 DEF IsPast
      <4> QED
        BY <2>1, <3>2, <3>4, <4>1
    <3>7. Sent'
      BY <2>2 DEF Sending
    <3> QED
      BY <1>3, <3>5, <3>6, <3>7
  <2> QED
    BY <1>4, <2>2, <2>3
<1>12. CASE Generate
  <2>1. Running /\ InScript /\ Here.do = "identity"
    BY <1>12 DEF Generate, Looking, InScript
  <2>2. run.script # "deploy"
    BY <2>1, DeployHere, DeployScriptIs
  <2> QED
    BY <1>4, <1>12, <2>1, <2>2, RunAfter DEF Running
<1>13. CASE Decide
  <2> DEFINE op == Transaction(Here)
  <2>1. /\ Running /\ InScript /\ registry' = registry /\ code' = code
        /\ contracts' = contracts /\ run.doing = "look"
    BY <1>13 DEF Decide, Looking, InScript
  <2>2. run'.script = run.script /\ run'.at = run.at
    BY <1>13, <2>1, RunAfter
  <2>3. CASE run.script = "deploy"
    <3>1. /\ run.at \in 1..8 /\ Here.do \notin {"replay", "accounts"} /\ Here.pool = Demo
          /\ Ids' = Ids /\ wasm' = wasm /\ Here' = Here
      <4>1. Here.do \in {"deploy", "initialize", "set_admin", "mint"} /\ run.at \in 1..8
        BY <2>1, <2>3, DeployHere, FixedScriptsFit, DeployScriptIs
      <4> QED
        BY <2>1, <2>2, <2>3, <4>1, DeployHere, HereStays DEF Ids
    <3>2. run'.doing = "send" /\ run'.op = op
      BY <1>13, <2>1, <3>1, RunAfter
    <3>3. \A k \in 1..8 : IsPast(k)' => IsPast(k)
      BY <2>2, <3>2 DEF IsPast
    <3>4. Steps' /\ Funded'
      <4>1. Steps'
        BY <1>2, <2>1, <2>3, <3>1, <3>3
      <4>2. ~IsPast(8)'
        BY <2>2, <3>1, <3>2 DEF IsPast
      <4> QED
        BY <4>1, <4>2
    <3>5. \A name : IdOf(name) = Ids[name]
      BY <2>3 DEF IdOf, Ids
    <3>6. op.id = Ids[Here.name]
      BY <3>5 DEF Transaction
    <3>7. run.at = 7 => op.to = Contract(Ids[DemoPool])
      BY <2>1, <2>3, <3>1, <3>5, DeployHere DEF Transaction, DemoPool
    <3>8. run.at = 8 => MintsShortfall(op, contracts, Ids)
      <4> SUFFICES ASSUME run.at = 8 PROVE MintsShortfall(op, contracts, Ids)
        OBVIOUS
      <4>1. Here.do = "mint" /\ Here.name = Usdc
        BY <2>1, <2>3, DeployHere
      <4>2. op.to = Investor(Demo) /\ op.amount = Shortfall(Here)
        BY <2>3, <3>1, <4>1 DEF Transaction, Subscriber, MintAmount
      <4>3. Shortfall(Here) = Target[Demo] - contracts[Ids[Usdc]].balance[Investor(Demo)]
        BY <2>3, <3>1, <3>5 DEF Shortfall, At, Subscriber
      <4> QED
        BY <3>6, <4>1, <4>2, <4>3 DEF MintsShortfall
    <3> HIDE DEF op
    <3>9. Sent'
      BY <2>1, <2>2, <3>1, <3>2, <3>6, <3>7, <3>8
    <3> QED
      BY <1>3, <3>4, <3>9
  <2> QED
    BY <1>4, <2>2, <2>3
<1>14. CASE Settle
  <2>1. /\ Running /\ registry' = registry /\ code' = code /\ run.doing = "send" /\ Sending
        /\ run.op.do = Here.do /\ InScript
    BY <1>1, <1>14 DEF Settle, Sending, Goes
  <2>2. /\ run'.script = run.script /\ run'.at = run.at
        /\ run'.doing = IF run.op.do = "deploy" THEN "record" ELSE "write"
    BY <1>14, <2>1, RunAfter
  <2>3. CASE run.script = "deploy"
    <3>1. run.at \in 1..8 /\ Ids' = Ids /\ wasm' = wasm
      BY <2>1, <2>3, DeployHere DEF Ids
    <3>2. run'.overtaken = run.overtaken
      BY <1>14, <2>1, <2>2, RunKeeps DEF Running
    <3>3. \A k \in 1..8 : IsPast(k)' =>
            IsPast(k) \/ (k = run.at /\ Left(contracts', Ids, wasm, code, k))
      <4> SUFFICES ASSUME NEW k \in 1..8, IsPast(k)', ~IsPast(k)
                   PROVE  k = run.at /\ Left(contracts', Ids, wasm, code, k)
        OBVIOUS
      <4>1. k = run.at /\ k > 3
        BY <2>2 DEF IsPast
      <4>2. CASE k \in {4, 5}
        BY <4>1, <4>2 DEF Left
      <4>3. CASE k \in {6, 7, 8}
        BY <1>14, <2>3, <4>1, <4>3, DeploySettles
      <4> QED
        BY <4>1, <4>2, <4>3
    <3>4. Steps'
      BY <1>2, <2>1, <2>3, <3>1, <3>3, PastNext
    <3>5. Funded'
      <4>1. IsPast(8)' => run.at = 8
        BY <2>2, <3>1 DEF IsPast
      <4> QED
        BY <1>14, <2>3, <3>1, <3>2, <4>1, DeploySettles
    <3>6. Sent'
      BY <2>2 DEF Sending
    <3> QED
      BY <1>3, <3>4, <3>5, <3>6
  <2> QED
    BY <1>4, <2>2, <2>3
<1>15. CASE Record
  <2>1. /\ Running /\ code' = code /\ contracts' = contracts /\ Here.do = "deploy" /\ InScript
        /\ run.doing = "record"
    BY <1>1, <1>15 DEF Record, Goes
  <2>2. run'.script = run.script /\ run'.at = run.at /\ run'.doing = "write"
    BY <1>15, <2>1, RunAfter
  <2>3. Ids' = Ids /\ wasm' = wasm
    BY <1>15, RecordLeaves DEF Ids
  <2>4. CASE run.script = "deploy"
    <3>1. run.at \in 1..3
      BY <2>1, <2>4, DeployHere
    <3>2. \A k \in 1..8 : IsPast(k)' => IsPast(k)
      BY <2>2, <3>1 DEF IsPast
    <3>3. Steps'
      BY <1>2, <2>1, <2>3, <2>4, <3>2
    <3>4. Funded' /\ Sent'
      BY <2>2, <3>1 DEF IsPast, Sending
    <3> QED
      BY <1>3, <3>3, <3>4
  <2> QED
    BY <1>4, <2>2, <2>4
<1>16. CASE Write
  <2>1. /\ Running /\ code' = code /\ contracts' = contracts /\ InScript
        /\ run.doing = "write"
    BY <1>1, <1>16 DEF Write, Goes
  <2>2. run'.script = run.script /\ run'.at = run.at + 1 /\ run'.doing = "look"
        /\ run'.overtaken = run.overtaken
    BY <1>16, <2>1, RunAfter, RunKeeps
  <2>3. CASE run.script = "deploy"
    <3>1. run.at \in 1..8
      BY <2>1, <2>3, DeployHere
    <3>2. Sent'
      BY <2>2 DEF Sending
    <3>3. CASE run.at > 3
      <4>1. Here.do # "deploy"
        BY <2>1, <2>3, <3>1, <3>3, DeployHere
      <4>2. Ids' = Ids /\ wasm' = wasm
        BY <1>16, <4>1, WriteLeaves DEF Ids
      <4>3. \A k \in 1..8 : IsPast(k)' => IsPast(k)
        BY <2>1, <2>2, <3>1, <3>3 DEF IsPast
      <4>4. Steps'
        BY <1>2, <2>1, <2>3, <4>2, <4>3
      <4>5. Funded'
        BY <1>2, <2>1, <2>2, <2>3, <4>2, <4>3
      <4> QED
        BY <1>3, <3>2, <4>4, <4>5
    <3>4. CASE run.at \in 1..3
      <4> DEFINE name == Here.name
      <4>1. Here.do = "deploy"
        BY <2>1, <2>3, <3>4, DeployHere
      <4>2. /\ name \in Names /\ run.got \in 1..n
            /\ Ids'  = [Ids EXCEPT ![name] = run.got]
            /\ wasm' = [wasm EXCEPT ![name] = code[Kind(name)]]
        BY <1>16, <4>1, WriteLeaves DEF Ids
      <4>3. /\ run.at = 1 => name = Usdc
            /\ run.at = 2 => name = Token(Demo)
            /\ run.at = 3 => name = DemoPool
        BY <2>1, <2>3, DeployHere
      <4> HIDE DEF name
      <4>4. \A a \in Names : a # name => Ids'[a] = Ids[a] /\ wasm'[a] = wasm[a]
        BY <1>1, <4>2
      <4>5. Ids'[name] # NoId /\ wasm'[name] = code[Kind(name)]
        BY <1>1, <4>2 DEF NoId
      <4>6. /\ Kind(Usdc) = "token" /\ Kind(Token(Demo)) = "token"
            /\ Usdc # Token(Demo) /\ Usdc # DemoPool /\ Token(Demo) # DemoPool
        BY NamesDiffer DEF DemoPool
      <4>7. \A k \in 1..8 : IsPast(k)' => k <= run.at /\ (k < run.at => IsPast(k))
        BY <2>2, <3>1 DEF IsPast
      <4>8. Steps'
        <5> SUFFICES ASSUME NEW k \in 1..8, IsPast(k)'
                     PROVE  Left(contracts', Ids', wasm', code', k)
          OBVIOUS
        <5>1. k <= run.at /\ (k < run.at => Left(contracts, Ids, wasm, code, k))
          BY <1>2, <2>3, <4>7
        <5>2. k \in {1, 2, 3}
          BY <3>4, <5>1
        <5>3. CASE k = run.at
          BY <2>1, <4>3, <4>5, <4>6, <5>2, <5>3 DEF Left
        <5>4. CASE k < run.at
          BY <1>1, <2>1, <3>4, <4>3, <4>4, <4>6, <5>1, <5>2, <5>4 DEF Left
        <5> QED
          BY <3>4, <5>1, <5>3, <5>4
      <4>9. Funded'
        BY <3>4, <4>7
      <4> QED
        BY <1>3, <3>2, <4>8, <4>9
    <3> QED
      BY <3>1, <3>3, <3>4
  <2> QED
    BY <1>4, <2>2, <2>3
<1>17. ASSUME NEW op \in late, LateSettles(op)
       PROVE  DeployDone'
  <2>1. registry' = registry /\ code' = code
    BY <1>17 DEF LateSettles
  <2>2. CASE Running
    <3>1. /\ run'.script = run.script /\ run'.at = run.at /\ run'.op = run.op
          /\ run'.doing = run.doing /\ run'.overtaken
      BY <1>17, <2>2, RunAfter, RunKeeps
    <3>2. Ids' = Ids /\ wasm' = wasm /\ Here' = Here
      BY <2>1, <3>1, HereStays DEF Ids
    <3>3. \A k \in 1..8 : IsPast(k)' => IsPast(k)
      BY <3>1 DEF IsPast
    <3>4. CASE run.script = "deploy"
      <4>1. Steps'
        BY <1>2, <2>1, <3>2, <3>3, <3>4, PastNext
      <4>2. Funded'
        BY <3>1
      <4>3. Sent'
        BY <1>2, <3>1, <3>2, <3>4 DEF Sending, Running
      <4> QED
        BY <1>3, <4>1, <4>2, <4>3
    <3> QED
      BY <1>4, <3>1, <3>4
  <2>3. CASE ~Running
    BY <1>4, <1>17, <2>3 DEF LateSettles, Running
  <2> QED
    BY <2>2, <2>3
<1> QED
  BY <1>4, <1>5, <1>7, <1>8, <1>9, <1>10, <1>11, <1>12, <1>13, <1>14, <1>15, <1>16, <1>17
  DEF Next, Scripts

\* To begin with nothing is registered, and nobody runs.
LEMMA DeploymentInit == Init => Kept /\ Balances /\ DeployDone
<1> SUFFICES ASSUME Init PROVE Kept /\ Balances /\ DeployDone
  OBVIOUS
<1>1. /\ run.script = "none" /\ ~Running /\ late = {} /\ contracts = << >>
      /\ \A a \in Names : Ids[a] = NoId
  BY DEF Init, Running, Ids
<1>2. Sends = {}
  BY <1>1 DEF Sends, Sending
<1>3. Fitting(contracts, Ids, registry.wasm, code, Sends)
  <2>1. NamedOnce(Ids) /\ VersionsFit(contracts, Ids, registry.wasm, code)
    BY <1>1 DEF NamedOnce, VersionsFit
  <2>2. PoolFits(contracts, Ids, code["token"])
    BY <1>1, NamesAreNames DEF PoolFits, DemoPool
  <2> QED
    BY <1>2, <2>1, <2>2 DEF Fitting
<1>4. Held /\ Replacing
  BY <1>1 DEF Held, Replacing, Sending
<1>5. Balances
  BY <1>1, <1>2 DEF Balances
<1>6. DeployDone
  BY <1>1 DEF DeployDone
<1> QED
  BY <1>3, <1>4, <1>5, <1>6 DEF Kept

\* deploy.ts passes where it has done its eight steps.
LEMMA PassesAtTheEnd ==
  ASSUME Typed, [Next]_vars, run.script = "deploy", run' = Ended("passed")
  PROVE  run.at = 9
<1>1. Running /\ run'.script = "none" /\ run'.outcome = "passed"
  BY DEF Running, Ended
<1>2. Pass
  <2>1. ~UNCHANGED vars
    BY <1>1 DEF vars, Running
  <2>2. \A script \in Scripts : ~Start(script)
    BY <1>1 DEF Start
  <2>3. ~PassOver /\ ~Decide /\ ~Settle /\ ~Record /\ ~Write
    BY <1>1, RunAfter DEF Running
  <2>4. ~Generate
    <3>1. ~(Running /\ InScript /\ Here.do = "identity")
      BY DeployHere, DeployScriptIs
    <3> QED
      BY <3>1 DEF Generate, Looking, InScript
  <2>5. ~Fail /\ ~Interrupt
    BY <1>1 DEF Fail, Interrupt, Ended
  <2>6. \A op \in late : ~LateSettles(op) /\ ~LateIsDropped(op)
    BY <1>1, RunAfter DEF Running, LateIsDropped
  <2>7. \A kind \in {"token", "pool"} : ~Rebuild(kind)
    BY <1>1 DEF Rebuild
  <2> QED
    BY <2>1, <2>2, <2>3, <2>4, <2>5, <2>6, <2>7 DEF Next, Scripts
<1>3. run.at = Len(DeployScript) + 1
  <2>1. StepsOf(run.script) = DeployScript
    BY DEF StepsOf
  <2>2. run.at = Len(StepsOf(run.script)) + 1
    BY <1>2 DEF Pass
  <2> QED
    BY <2>1, <2>2, Zenon
<1>4. Len(DeployScript) = 8
  BY DeployScriptIs
<1> QED
  BY <1>3, <1>4

\* Then the demo pool works.
LEMMA DoneIsEnough ==
  ASSUME Typed, Kept, Balances, DeployDone, [Next]_vars,
         run.script = "deploy", run' = Ended("passed"), ~run.overtaken
  PROVE  /\ At(Pool(Demo)).admin = TestIssuer
         /\ At(Token(Demo)).admin = Contract(IdOf(Pool(Demo)))
         /\ At(Usdc).balance[Investor(Demo)] >= Target[Demo]
         /\ \/ Mixed
            \/ /\ At(Pool(Demo)).usdc = IdOf(Usdc)
               /\ At(Pool(Demo)).token = IdOf(Token(Demo))
<1> DEFINE v == code["token"]
           pool == contracts[Ids[DemoPool]]
<1>1. \A name : IdOf(name) = Ids[name] /\ At(name) = contracts[Ids[name]]
  BY DEF IdOf, At, Ids
<1>2. \A k \in 1..8 : IsPast(k)
  BY PassesAtTheEnd DEF IsPast
<1>3. /\ \A k \in 1..8 : Left(contracts, Ids, registry.wasm, code, k)
      /\ Minted(contracts, Ids)
  BY <1>2 DEF DeployDone
<1>4. Ids[DemoPool] # NoId /\ pool.admin # Nobody
  BY <1>3 DEF Left
<1>5. pool.admin = TestIssuer /\ TokensFit(contracts, Ids, v, pool.usdc, pool.token)
  BY <1>4 DEF Kept, Fitting, PoolFits
<1>6. contracts[Ids[Token(Demo)]].admin = Contract(Ids[DemoPool])
  BY <1>3 DEF Left
<1>7. Mixed \/ (pool.usdc = Ids[Usdc] /\ pool.token = Ids[Token(Demo)])
  <2>1. CASE contracts[pool.token].version < v
    <3> DEFINE x == contracts[pool.token].version
    <3>1. x \in Nat /\ v \in Nat
      BY <1>5 DEF TokensFit, Typed
    <3>2. x # v
      <4>1. x < v
        BY <2>1
      <4> HIDE DEF x, v
      <4> QED
        BY <3>1, <4>1
    <3>3. At(Pool(Demo)) = pool
      BY <1>1 DEF DemoPool
    <3> HIDE DEF pool
    <3> QED
      BY <3>2, <3>3 DEF Mixed
  <2>2. CASE ~(contracts[pool.token].version < v)
    BY <1>5, <2>2 DEF TokensFit
  <2> QED
    BY <2>1, <2>2
<1> QED
  BY <1>1, <1>3, <1>5, <1>6, <1>7 DEF Minted, DemoPool

(***************************************************************************)
(* When deploy.ts passes its pool is the issuer's, mints its own token, and *)
(* has its tokens and a funded investor, whatever was interrupted before   *)
(* and whatever still settles, unless that settles while it runs.          *)
(***************************************************************************)
THEOREM PassedDeploymentsWork == Spec => PassedDeploymentWorks
<1> DEFINE Inv == Typed /\ Kept /\ Balances /\ DeployDone
           Passed == run.script = "deploy" /\ run' = Ended("passed") /\ ~run.overtaken =>
                       /\ At(Pool(Demo)).admin = TestIssuer
                       /\ At(Token(Demo)).admin = Contract(IdOf(Pool(Demo)))
                       /\ At(Usdc).balance[Investor(Demo)] >= Target[Demo]
                       /\ \/ Mixed
                          \/ /\ At(Pool(Demo)).usdc = IdOf(Usdc)
                             /\ At(Pool(Demo)).token = IdOf(Token(Demo))
<1>1. Init => Inv
  BY TypedInit, DeploymentInit
<1>2. Inv /\ [Next]_vars => Inv'
  BY TypedNext, KeptNext, BalancesNext, DeployDoneNext
<1>3. Inv /\ [Next]_vars => [Passed]_vars
  BY DoneIsEnough
<1>4. PassedDeploymentWorks <=> [][Passed]_vars
  BY PTL DEF PassedDeploymentWorks
<1> QED
  BY <1>1, <1>2, <1>3, <1>4, PTL DEF Spec
=============================================================================
