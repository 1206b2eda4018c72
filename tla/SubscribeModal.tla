--------------------------- MODULE SubscribeModal ---------------------------
(***************************************************************************)
(* The investor's dialog (web/components/invest/subscribe-modal.tsx) with  *)
(* the proof console and the accreditation panel inside it.  Answers of    *)
(* the accreditation service, of the prover and of the network, and the    *)
(* text of a file, arrive whenever they are ready, on whatever tab the     *)
(* investor is by then; all but the prover's even when the dialog is       *)
(* closed.                                                                 *)
(*                                                                         *)
(* The proof console lives as long as its tab is shown and its amount      *)
(* stays; with it goes its worker, and every answer it waited for.         *)
(***************************************************************************)
EXTENDS Wallet

CONSTANTS
  Amounts,          \* amounts the investor may enter
  DefaultAmount,    \* the smaller of the pool's cap and the preferred amount
  PoolCap,          \* the pool's public cap per investor
  Cap,              \* the cap in each identity's leaf
  Generated,        \* identities generated on this device, last one first
  NoProof,          \* null
  NoResult          \* null

VARIABLES
  modal,            \* the dialog's state
  prover,           \* the proof console: its output, worker and running proofs
  accreditation     \* the service's file, and the requests under way

modalVars == <<modal, prover, accreditation>>

Fresh == [out |-> FALSE, busy |-> FALSE, runs |-> {}]

ModalInit ==
  /\ modal = [open   |-> FALSE,
              timer  |-> FALSE,        \* the reset that follows closing
              tab    |-> "accredit",
              pkg    |-> NoPackage,
              amount |-> DefaultAmount,
              handle |-> NoProof,
              result |-> NoResult,
              reading |-> {}]          \* packages whose file is being read
  /\ prover = Fresh
  /\ accreditation = [filed |-> << >>, requests |-> {}]

Submitting == call["subscribe"] # Idle

Form(m) == m.open /\ m.result = NoResult

CapExceeded(m) == m.amount > Cap[m.pkg.identity] \/ m.amount > PoolCap

\* Whether the proof console is on the page.
Mounted(m) ==
  /\ Form(m)
  /\ m.tab = "prove"
  /\ m.pkg # NoPackage
  /\ m.amount > 0
  /\ ~CapExceeded(m)

ProverKeptByTab(next) ==
  IF Mounted(modal) /\ Mounted(next) THEN prover ELSE Fresh

\* key={amountBaseUnits}
ProverAfter(next) ==
  IF Mounted(modal) /\ Mounted(next) /\ next.amount = modal.amount
  THEN prover ELSE Fresh

\* Whether the accreditation panel is.
PanelMounted(m) == Form(m) /\ m.tab = "accredit"

\* A panel that comes back is a new one; requests of the old one go on.
AccreditationAfter(next) ==
  IF PanelMounted(modal) /\ PanelMounted(next) THEN accreditation
  ELSE [accreditation EXCEPT !.requests = {[r EXCEPT !.shown = FALSE] : r \in @}]

Becomes(next) ==
  /\ modal' = next
  /\ prover' = ProverAfter(next)
  /\ accreditation' = AccreditationAfter(next)

\* Opening shows the default amount again; nothing else is reset here.
OpenModal ==
  /\ ~modal.open
  /\ Spend("open")
  /\ Becomes([modal EXCEPT !.open = TRUE, !.amount = DefaultAmount])
  /\ UNCHANGED <<walletVars, chain, call>>

CloseModal ==
  /\ modal.open
  /\ Becomes([modal EXCEPT !.open = FALSE, !.timer = TRUE])
  /\ UNCHANGED <<walletVars, callVars>>

\* The button of the success panel closes without a reset.
Done ==
  /\ modal.open
  /\ modal.result # NoResult
  /\ Becomes([modal EXCEPT !.open = FALSE])
  /\ UNCHANGED <<walletVars, callVars>>

AfterReset ==
  [modal EXCEPT !.timer = FALSE, !.tab = "accredit", !.pkg = NoPackage,
                !.amount = DefaultAmount, !.handle = NoProof,
                !.result = NoResult]

Reset ==
  /\ modal.timer
  /\ Becomes(AfterReset)
  /\ UNCHANGED <<walletVars, callVars>>

SelectTab(tab) ==
  /\ Form(modal)
  /\ tab # modal.tab
  /\ tab = "prove" => modal.pkg # NoPackage
  /\ tab = "subscribe" => modal.handle # NoProof
  /\ Becomes([modal EXCEPT !.tab = tab])
  /\ UNCHANGED <<walletVars, callVars>>

AfterAmountKeepingProof(amount) == [modal EXCEPT !.amount = amount]

AfterAmount(amount) == [modal EXCEPT !.amount = amount, !.handle = NoProof]

EnterAmount(amount) ==
  /\ Form(modal)
  /\ modal.tab = "prove"
  /\ modal.pkg # NoPackage
  /\ amount # modal.amount
  /\ Spend("edit")
  /\ Becomes(AfterAmount(amount))
  /\ UNCHANGED <<walletVars, chain, call>>

-----------------------------------------------------------------------------
(* Packages: from the accreditation service, or from a file. *)

\* run, up to the request: one identity per click, and one click per panel.
RequestAccreditation ==
  /\ PanelMounted(modal)
  /\ \A r \in accreditation.requests : ~r.shown
  /\ Spend("accredit")
  /\ accreditation' = [accreditation EXCEPT !.requests =
       @ \cup {[identity |-> Generated[budget["accredit"]], pkg |-> NoPackage,
                shown |-> TRUE]}]
  /\ UNCHANGED <<modal, prover, walletVars, chain, call>>

\* The service serves one request at a time: it adds the leaf to its file,
\* commits the file's leaves, and answers with the leaf's path.  It refuses
\* when the file is full (services/api/accreditation.ts:51), see
\* AccreditationFails.
AccreditationCommitted(r) ==
  LET leaves == Append(accreditation.filed, r.identity)
      pkg    == [identity |-> r.identity, tree |-> Padded(leaves),
                 index |-> Len(accreditation.filed), epoch |-> Epoch + 1,
                 amount |-> NoAmount]
  IN  /\ r \in accreditation.requests
      /\ r.pkg = NoPackage
      /\ Len(accreditation.filed) < Slots
      /\ ServiceCommits(leaves)
      /\ accreditation' = [filed |-> leaves,
                           requests |-> (accreditation.requests \ {r})
                                          \cup {[r EXCEPT !.pkg = pkg]}]
      /\ UNCHANGED <<modal, prover, walletVars, call, budget>>

Without(r) == [accreditation EXCEPT !.requests = @ \ {r}]

\* The panel hands its package over even if it is no longer on the page.
OnAccredited(r) ==
  /\ r \in accreditation.requests
  /\ r.pkg # NoPackage
  /\ LET next == [modal EXCEPT !.pkg = r.pkg, !.handle = NoProof, !.tab = "prove"]
     IN  modal' = next /\ prover' = ProverAfter(next)
  /\ accreditation' = [accreditation EXCEPT !.requests =
                          {[s EXCEPT !.shown = FALSE] : s \in @ \ {r}}]
  /\ UNCHANGED <<walletVars, callVars>>

\* The button is back.
AccreditationFails(r) ==
  /\ r \in accreditation.requests
  /\ accreditation' = Without(r)
  /\ UNCHANGED <<modal, prover, walletVars, callVars>>

\* onImport.  The proof at hand stays, whatever it was a proof of.
WithPackage(pkg) ==
  [modal EXCEPT !.pkg = pkg,
                !.amount = IF pkg.amount = NoAmount THEN @ ELSE pkg.amount,
                !.tab = "prove"]

\* A pasted package is loaded at once.
PastePackage(pkg) ==
  /\ PanelMounted(modal)
  /\ Becomes(WithPackage(pkg))
  /\ Spend("import")
  /\ UNCHANGED <<walletVars, chain, call>>

\* The panel waits for the text of a file; a file that is chosen again before
\* it was read counts once.
ChooseFile(pkg) ==
  /\ PanelMounted(modal)
  /\ Becomes([modal EXCEPT !.reading = @ \cup {pkg}])
  /\ Spend("import")
  /\ UNCHANGED <<walletVars, chain, call>>

\* The package is loaded wherever the investor is by now.
FileArrives(pkg) ==
  /\ pkg \in modal.reading
  /\ Becomes([WithPackage(pkg) EXCEPT !.reading = @ \ {pkg}])
  /\ UNCHANGED <<walletVars, callVars>>

\* The file cannot be read.
FileFails(pkg) ==
  /\ pkg \in modal.reading
  /\ Becomes([modal EXCEPT !.reading = @ \ {pkg}])
  /\ UNCHANGED <<walletVars, callVars>>

-----------------------------------------------------------------------------
(* The proof console. *)

\* What the circuit asks of the private inputs in a package.
Provable(pkg, amount) ==
  /\ VerifyPath(pkg.identity, PathFor(pkg.tree, pkg.index)) = Root(pkg.tree)
  /\ amount <= Cap[pkg.identity]

\* The inputs of a run are those of its click; no two clicks have one id.
NewRun(prover_, step) ==
  [id |-> budget["prove"], prover |-> prover_, step |-> step,
   pkg |-> modal.pkg, amount |-> modal.amount]

\* The console offers its two ways to prove.
CanProve == Mounted(modal) /\ ~prover.out /\ ~prover.busy

\* The console is not busy while the inputs are assembled: either way to prove
\* may be started again.
RunInBrowser ==
  /\ CanProve
  /\ prover' = [prover EXCEPT !.runs = @ \cup {NewRun("browser", "assembling")}]
  /\ Spend("prove")
  /\ UNCHANGED <<modal, accreditation, walletVars, chain, call>>

Generate(run) ==
  /\ run \in prover.runs
  /\ run.step = "assembling"
  /\ prover' = [prover EXCEPT !.busy = TRUE,
                 !.runs = (@ \ {run}) \cup {[run EXCEPT !.step = "proving"]}]
  /\ UNCHANGED <<modal, accreditation, walletVars, callVars>>

\* The fallback never makes the console busy.
RunFallback ==
  /\ CanProve
  /\ prover' = [prover EXCEPT !.runs = @ \cup {NewRun("fallback", "proving")}]
  /\ Spend("prove")
  /\ UNCHANGED <<modal, accreditation, walletVars, chain, call>>

\* The end of any proof in the worker, even beside another, ends the waiting.
BusyAfter(run) ==
  prover.busy /\ ~(run.prover = "browser" /\ run.step = "proving")

\* The worker's witness, or the service's: both hold only if the circuit does.
ProvedInWorker(run)  == run.prover = "browser" /\ Provable(run.pkg, run.amount)
ProvedByService(run) == run.prover = "fallback" /\ Provable(run.pkg, run.amount)

\* onResult: only a proof that verifies locally moves on to the last tab.
ProofArrives(run, verified) ==
  LET next == [modal EXCEPT
                 !.handle = [pkg |-> run.pkg, amount |-> run.amount,
                             verified |-> verified],
                 !.tab = IF verified THEN "subscribe" ELSE @]
  IN  /\ run \in prover.runs
      /\ run.step = "proving"
      /\ ProvedInWorker(run) \/ ProvedByService(run)
      /\ modal' = next
      /\ prover' = IF verified THEN Fresh
                   ELSE [out |-> TRUE, busy |-> BusyAfter(run),
                         runs |-> prover.runs \ {run}]
      /\ UNCHANGED <<accreditation, walletVars, callVars>>

\* No witness, a request that is lost, an artifact that does not load.
ProofFails(run) ==
  /\ run \in prover.runs
  /\ prover' = [prover EXCEPT !.busy = BusyAfter(run), !.runs = @ \ {run}]
  /\ UNCHANGED <<modal, accreditation, walletVars, callVars>>

GenerateAgain ==
  /\ prover.out
  /\ prover' = [prover EXCEPT !.out = FALSE, !.busy = FALSE]
  /\ UNCHANGED <<modal, accreditation, walletVars, callVars>>

-----------------------------------------------------------------------------
(* Sign and submit. *)

\* The last tab; a balance below the amount also keeps its button disabled.
CanSubmit ==
  /\ Form(modal)
  /\ modal.tab = "subscribe"
  /\ modal.handle # NoProof
  /\ ~Submitting
  /\ wallet.address # NoAddress

OnSubmit ==
  /\ CanSubmit
  /\ Start("subscribe", wallet.address,
           [kind |-> "subscribe", proof |-> modal.handle, amount |-> modal.amount])
  /\ UNCHANGED <<chain, modalVars, walletVars>>

\* Both ends of onSubmit, whether the dialog is still open or not.
SubmitReturns ==
  /\ Returns("subscribe")
  /\ EndPolling("subscribe")
  /\ Becomes([modal EXCEPT !.result = call["subscribe"].tx])
  /\ UNCHANGED walletVars

SubmitThrows ==
  /\ \/ Throws("subscribe") /\ EndPolling("subscribe")
     \/ EndByRejection("subscribe")
  /\ UNCHANGED <<modalVars, walletVars>>

ModalNext ==
  \/ OpenModal \/ CloseModal \/ Done \/ Reset
  \/ \E tab \in {"accredit", "prove", "subscribe"} : SelectTab(tab)
  \/ \E amount \in Amounts : EnterAmount(amount)
  \/ RequestAccreditation
  \/ \E r \in accreditation.requests : OnAccredited(r) \/ AccreditationFails(r)
  \/ \E pkg \in modal.reading : FileArrives(pkg) \/ FileFails(pkg)
  \/ RunInBrowser \/ RunFallback \/ GenerateAgain
  \/ \E run \in prover.runs :
        \/ \E verified \in BOOLEAN : ProofArrives(run, verified)
        \/ Generate(run) \/ ProofFails(run)
  \/ OnSubmit \/ SubmitReturns \/ SubmitThrows
  \/ SignXdr("subscribe") /\ UNCHANGED modalVars
  \/ WalletNext /\ UNCHANGED modalVars
=============================================================================
