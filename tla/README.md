# Verification of the bookkeeping program

TLA+ modules, TLC configurations and TLAPS proofs for *Knjigovodstvo online*, a
multi-tenant bookkeeping program for accounting agencies (Next.js server actions,
Prisma, PostgreSQL). Paths such as `src/lib/settlements.ts` are relative to the
repository's root. Names in the modules are the program's own Serbian names where it
has them: *nalog* journal, *stavka* journal line, *zatvaranje* settlement, *prenos*
carry-over, *zakljucena* closed (a year), *brava* lock, *zahtjev* request.

All the program's state lives in PostgreSQL. There is no process with a memory of its
own: a *server action* is a request that reads and writes tables, often several times,
and any number of them run at once, in any number of server processes. What can go
wrong is therefore between requests: a row read outside a transaction, or without a
lock, and used after somebody else changed it. That is what the models are about.

## 1. Inventory

| Part | State | Operations | What makes it correct |
|---|---|---|---|
| Journals (`agencija/nalozi/actions.ts`) | `nalozi`, `stavke_naloga` | create, update draft lines, post, reopen, delete | only a balanced draft of an open year is posted; a posted journal leaves the books through a draft only |
| Business years (`agencija/actions.ts`) | `poslovne_godine.zakljucena` | close, open | nothing changes in a closed year |
| Settlement (`lib/settlements.ts`, `lib/settlement-plan.ts`) | `zatvaranja_stavki` | preview, settle (manual, selected, exact, oldest first), cancel one edge or all of a card | an edge ties two posted lines of one card; a line is never settled beyond its amount; what the user confirms is what the user saw |
| Opening balances (`nalozi/pocetno-stanje/actions.ts`, `lib/opening-import.ts`) | an opening journal, `prenosi_otvorenih_stavki` | generate from the previous year, import, enter by hand, carry detail | one opening balance a year; carried lines stay posted; open items add up to balances |
| VAT periods (`lib/pdv-period-flow.ts`) | `pdv_periodi`, `pdv_prijave`, `pdv_verzije`, closing journal | calculate (*refresh*), correct by hand (*save*), post, lock, reopen | a month is locked only in agreement with the ledger, and stays as it was archived until it is reopened |
| Purchase and sales books (`agencija/racuni/actions.ts`, `lib/invoice-book-posting.ts`, `lib/kuf-entry-deletion.ts`) | `kuf_entries`, `kif_entries` and their books | enter, change, delete, post a book into a journal | an entry and its journal agree; a book has one journal |
| Bank statements (`lib/bank-statement-*.ts`, `lib/bank-settlements.ts`) | `bank_statements`, lines, allocations, their journal | import, map, edit by hand, post, reopen, delete | a posted statement, its journal and its settlements agree; an invoice's payment status follows them |
| Statement automation (`lib/bank-automation.ts`, `lib/mail-import-completion.ts`) | `mail_izvod_obrade`, a run per day | import a message attachment by attachment, post what is mapped | nothing imported twice, nothing lost; what a user took back is left alone |
| SEP automation (`lib/sep-automation.ts`, `lib/invoice-import-service.ts`) | `sep_auto_obrade`, settings, the sales book | the nightly pass, retry, import, post | every fiscal invoice once in the book and once in a journal, whatever stops |
| Outgoing invoices (`lib/outgoing-invoice-*.ts`, `robno/izlazne-fakture/actions.ts`) | invoices, fiscal links, stock movements, journals | draft, fiscalize at an external service, complete, annul | one confirmed fiscal document per invoice; nothing is booked that is not confirmed |
| Point of sale (`lib/pos-*.ts`) | receipts, shifts, takings batches | sell, retry, annul, close the day's takings | the same, for receipts; the takings take what was sold |
| Inventory (`lib/inventory*.ts`, `agencija/robno/*`) | stock, item cards, seven kinds of documents | draft, post, return to draft, delete, count | the stock list agrees with the item cards, a return fits its calculation, a posted count leaves what was counted |
| Fixed assets (`agencija/osnovna-sredstva/*`, `lib/fixed-assets-*.ts`) | the register: assets, estimates, usage; depreciation batches and the periods they cover | enter, estimate, use, activate, sell; calculate, post, reopen, delete a batch | posted depreciation has no hole, rests on what the register says and ends at the sale |
| Payroll, travel orders | calculations | calculate, post | arithmetic |
| Users, portals, audit, contracts, reports, interface | mostly forms and views | | access checks, append-only log |

The parts meet in the journals: every other part posts by inserting a journal, and
returns to draft by reopening or deleting it. Journals meet settlement through two
database triggers (`prisma/migrations/20261102120000_zatvaranje_stavki`), which refuse
to change or delete what an active edge or a carry record names. Settlement and opening
balances meet through `prenosi_otvorenih_stavki`. Books and VAT periods meet journals
through `journal_id` and through triggers of their own (`20261007120000_pdv_period_lock`),
which take the year's row before every change of a protected row and refuse a locked
month or a closed year. Statements meet settlement by making edges when they are posted;
sales and SEP meet the books of sales; sales meet stock. All meet business years, and
most writes take the company's row first, which puts them in a queue.

What is hard here, in the order of how much it is worth to model:

1. **Reads outside the transaction.** Most journal actions decide on rows that were read
   through the pooled client before their transaction; only posting reads them again.
2. **Lock orders.** The company's row, the year's row, journals' rows and one advisory
   lock are taken in different orders by different actions; foreign keys share rows too.
3. **Triggers as the last line of defence** between journal actions (which take no lock
   on the company) and settlement (which does).
4. **Time that is not linear.** Edges have an effective date and a cancellation date;
   the ledger can be looked at as of any date, the capacity check looks at now.
5. **Stale pages.** A proposal or a list of edges is shown, and confirmed later.
6. **External services.** A call to the fiscal service may be lost, refused, or done
   without its answer arriving; the answer may come after somebody else has retried.
7. **Snapshots older than locks.** A Serializable transaction whose first statement waits
   for a row reads, when it gets it, the database as it was before the wait. It fails only
   if it writes a row that has changed; what was inserted beside it stays invisible.
8. **Processes that stop** between two of the commits of a long pass, or lose the
   connection that holds their lock and go on.
9. **Refusals that commit**: returning `{ok: false}` from inside a transaction.

`PROJECT.json` lists every part with its status and every hazard with its line.

## 2. Modules

```
Baza <- Nalozi <- Zatvaranja <- Knjiga <- KnjigaInv <- MCKnjiga   (TLC)
                  ^                  <- KnjigaProofs (TLAPS; also of PlanPetlja, Zbirovi)
                  |
            Plan -+- OtvoreneStavke (abstract; Knjiga refines it)
            Plan <- PlanPetlja <- MCPlan (TLC)
Pdv <- MCPdv (TLC)
    <- PdvProofs (TLAPS; also of Zbirovi, as RobnoProofs)
Sep <- MCSep (TLC)
    <- SepProofs (TLAPS; also of Zbirovi)
Fiskal <- Kasa, Faktura <- Prodaja <- MCProdaja (TLC)
                                   <- ProdajaProofs (TLAPS)
Izvodi <- Banka <- MCBanka (TLC)
                <- BankaProofs (TLAPS; also of Zbirovi)
Robno <- MCRobno (TLC)
      <- RobnoProofs (TLAPS)
Osnovna <- MCOsnovna (TLC)
        <- OsnovnaProofs (TLAPS)
```

* **Baza**: the tables, the row and advisory locks, the triggers, fresh ids. A table is
  a function from ids to rows (`nalozi`, `stavke`), a set of rows (`zatvaranja`) or a set
  of pairs (`prenosi`). A line has one signed amount (`duguje - potrazuje`, in cents, the
  unit the code computes in) and a *kartica*, the pair of account and partner. `brave` maps every
  lockable row to its holder. `zahtjevi[r]` is what a running server action knows: its
  step `pc` and the values it has read, with `ceka`, the rows its next statement locks.
* **Nalozi**: one action per step of each journal action. A step is a stretch of code
  between two points at which other requests can act: the reads before the transaction,
  each statement that takes a lock, and the commit. What a transaction writes becomes
  visible at its commit, so tables change in the last step only. A request that must be
  refused goes back to rest (`Odustani`), as an exception rolls a transaction back.
* **Zatvaranja**: the ledger that settlement computes, as of a date; settling,
  cancelling, generating and carrying opening balances.
* **Plan**, **PlanPetlja**: the two algorithms that propose settlements. `Plan` defines
  their results as sets; `PlanPetlja` runs the program's nested loops over mutable
  copies, one pair at a time, to show that the two agree. The arrays the loops go over are
  the sets of items not yet visited: a filtered array keeps the order of the sort, which is
  total and compares nothing that the loops change, so each round takes the oldest.
* **Knjiga**: the composition: any number of requests run any of the actions, years are
  closed and opened, the deadlock detector aborts a request that waits in a circle.
  It states the properties.
* **OtvoreneStavke**: what the ledger promises to somebody who knows nothing of
  requests and locks: atomic settling, cancelling, carrying, and posting that leaves
  named lines alone. `Knjiga!IspunjavaObecanje` is the refinement: posted lines, active
  edges and carried lines of `Knjiga` behave as `OtvoreneStavke`.
* **KnjigaInv**: the inductive invariant. **KnjigaProofs**: the proofs of the invariants,
  about steps, of the refinement, that no line is settled beyond its amount, that the
  loops of `PlanPetlja` return the plan, and that the ledger's plans pass its own check.
* **Zbirovi**: facts about sums over finite sets, with their proofs; no part of the model.
* **Pdv**: purchase entries, their journals, VAT returns and periods, beside the modules
  above and not on top of them: the journals it knows are those of books and returns,
  with their VAT lines only, and the locks it needs are others. Every protected write
  takes the year's row first, in a trigger if not in the action, so a request that starts
  with that row and relies on nothing read earlier begins at the moment it gets it
  (`Prvi`); a request that does read earlier has that reading as a step of its own
  (`UpdateKufEntry`, `ReopenJournal`, `DeleteJournal`). `ceka` is the order in which it
  then locks rows. Two requests are not simply "read, lock, read again", and have what
  PostgreSQL does written out. `DeleteKufEntry` is Serializable: all it reads is as of its
  first statement, which waits for the year; a row it writes that has changed since makes
  it fail (`zastario`). `DeleteJournalEntries` is an UPDATE that finds its rows when it
  starts, and waits, in a trigger, afterwards. The amounts are those of the deductible
  VAT; an entry's hash is the entry itself; of archived versions the one of the lock in
  force is kept, since no action reads the others.

* **Sep**: `dan` the day, `podesavanje` the company's settings, `obrade` the job of each
  day (PENDING, RUNNING, DONE, REVIEW), `kif` the sales book by invoice, `nalog` the
  journal of a kind of book, `brava` the global advisory lock, `radnik[p]` what a server
  process knows. Each commit of the pass (`runDueSepAutomation`: plan the day, take a job,
  import one invoice, post the book, end the job) is a step; `Kvar` breaks the
  connection of the lock at any of them, and the process stops or goes on without it. The user types, deletes,
  reopens, unposts, closes the year, changes the settings and asks for a retry.
* **Fiskal**, **Kasa**, **Faktura**, **Prodaja**: `dok` is an invoice and its full storno
  with local status, link to the service's document, attempts and lease; `servis` the
  service's documents by idempotency key; `promet` and `nalog` count what was moved and
  booked for each. `Fiskal` has the service's calls, each of which may be lost before or
  after it is done; `Kasa` the point of sale (sale, both retries, storno, takings,
  transfer journal); `Faktura` the office (draft, claim under a lease of two minutes,
  confirmation, completion, storno); `Prodaja` composes them over five channels, one of
  which is chosen at the start. The service is external: the same key always returns the
  same document, and nothing else is assumed of it, not even that it refuses a second storno.
* **Izvodi**, **Banka**: `izvod` statements, `nalog` the journal of each, `veza` the
  edges their posting makes, `ostalo` what others settled of the same invoice, `placanje`
  the invoice's payment status. A posting is two steps, waiting and writing; in between
  every commit by others marks it `staro`, for its snapshot is from before. `Banka` adds
  messages and their attachments (`red`), the company's lease (`zakup`) and the daily
  process, which can stop or lose its lease (`Stani`, `IstekniZakup`) at every step.
* **Robno**: `dok` documents with lines, `stanje` the stock list, `kartica` the item
  cards. Postings that are Serializable and lock the stock are one step. The posting of a
  calculation is READ COMMITTED and reads stock rows without a lock, so it is several, and
  a draft is edited in two, the check and the write. Three history variables record where
  the code departs from its promise, so that the properties can say that it departs
  nowhere else: `presjek` stock overwritten with an older reading, `kasno` a draft's edit
  that lands on a posted document, `polovicno` a refusal that committed earlier lines.
* **Osnovna**: `sredstvo` the register (an asset's state, first period, estimates, usage
  and sale), `obracun` the batches with what they were calculated from (`osnov`) and
  whether their hash still fits (`svjez`), `pokrice` the periods a posted batch covers,
  `izvor` the source journals. Writers of the register are READ COMMITTED and hold the
  rows of their years (`Zapocni`, `Upisi`); batches are Serializable and wait for one of
  those rows, with the register as it was when they began (`Cekaj`, `KnjiziStaro`); the
  history variable `presjek` names the batches posted that way from an outdated register.
  Activation and sale lock the company first, which the foreign keys of the other writers
  share, so one of two that meet is aborted and they are single steps.
* **PdvProofs**, **RobnoProofs**, **OsnovnaProofs**, **ProdajaProofs**, **SepProofs**,
  **BankaProofs**: inductive invariants of `Pdv`, `Robno`, `Osnovna`, `Prodaja`, `Sep` and
  `Banka` and their proofs.

How steps correspond to code, by example: `postJournal` is `PostJournalRead` (lines
682-721, no lock, nothing decided for good), `PostJournalLockYear` (`FOR UPDATE` on the
year), `PostJournalCheck` (the journal's row is locked and every precondition read again)
and `PostJournalCommit`. `deleteJournal` is `DeleteJournalCheck` (reads, refuses) and
`DeleteJournalWrite` (the transaction, whose trigger is all that can still refuse).
`PROJECT.json` maps every definition to its lines.

Actions that lock and finish under the company's lock without touching what others
write (`CancelSettlement`) are one step; the comment there says why.

## 3. Runs

Two concurrent requests or processes everywhere: each hazard the runs are about is a
matter of two. Ids are few, but reused only when nothing mentions them, as UUIDs are.
`Akcije` selects the server actions of an instance where there are many, so that each run
asks one question.

| Run | Instance | Shows |
|---|---|---|
| `zatvaranja` | an invoice and a payment, two dates, up to three edges, all settlement modes, posting and reopening | edges are always correct and never exceed their line, though made, cancelled and made again in parts; settling refines its abstract specification; a confirmed proposal is the one shown; "cancel all" cancels the edges shown |
| `nalozi` | all journal actions, both kinds of opening entry, a manual settlement, a year that closes and opens | posting commits only what it checked; one opening balance a year; settled lines do not move; types |
| `prenos` | two years, generation and carrying against posting, reopening and settlement, under fairness | carried lines stay posted and earlier; every begun request ends, in whatever order they take their locks |
| `petlja` | every list of four items of two partners, two dates, amounts up to two | the loops compute `Plan`'s definition |
| `pdv` | one month, two entries, two journals, all actions on them, a year that closes and opens | a month that is being locked agrees with the ledger; what is in a locked month is what its lock archived; one journal per book, no closing journal without its return; a closed year does not change |
| `sep` | two processes, two invoices, two nights, two kinds of book, one failure, any one operation of the user or a reopened journal and what needs one (`Tokovi`), under fairness | nothing is imported or posted twice unless the user typed it; nothing unfinished is forgotten; rows have the kind that is set; only the automation's own rows are posted; DONE means in the book and posted; every waiting or abandoned job is taken up and ended |
| `prodaja` | five channels, two requests, three attempts, three lost calls or failed transactions | one confirmed document for a document, with its content; nothing confirmed is taken back, nothing unconfirmed is booked; stock and journals follow the document |
| `banka` | two statements attached to one message and uploaded by hand, an invoice of 2 and payments of 2 and 1, one other payment, one stop | statement, journal, edges and payment status agree; a message is finished only with all its attachments; the automation leaves alone what a user reopened; statements of a closed year do not move |
| `robno` | two warehouses, two items, three documents of six (calculation, transfer, count, two returns, sale), negative stock allowed or not | stock, card and documents agree but for the three recorded departures; returns fit their calculation; a posted count leaves what was counted, a completed one what was there; a closed year has no new purchases |
| `osnovna` | a machine depreciated by usage and a vehicle in use, two periods, batches of the first, of the second and of both, two writes of estimates or usage, a year that closes and opens | posted depreciation has no hole and no overlap; it rests on what the register shows, but for batches posted from an older one; a sold asset is depreciated to the day before; source journals of confirmed changes stay posted |

The bounds: `MaxVeza` bounds rows ever written to `zatvaranja_stavki` (a request that
would write beyond it gives up, as after an error); dates are numbered, `Perioda` of
them in a year, and two suffice to have a cutoff before, between and after
edges; amounts of one and two cents make partial and full settlements. In `pdv` a new
entry's VAT is 1 and a correction, of an entry or of a return, makes it 0, which is enough
for the books, the ledger and the return to disagree in every way; one month suffices
because nothing relates two months of one book but the year; two journals are a book's
and a return's, or two of one kind where a property forbids that. In `sep` invoices are of
the first and of the last day of a month and the nights are the second and the third day,
so that one is imported for the current month and one after it has ended; a second failure
adds only another restart from the same committed states. Its safety properties also
hold for any two operations (1.3 million states, the processes and kinds taken as
symmetric), which is too large for liveness. In `prodaja` three attempts are the original,
one that is thought dead and one that overtakes it, `MaxPrometa` is one more than a document
may have. In `banka` only statement 1 is opened by users (`Dirani`); the second makes a
message with an attachment still to come. In `robno` one unit suffices, since a lost update
loses a whole posting; three documents are one more than any hazard needs. In `osnovna` usage is entered or not,
since an amount matters only by its change, and a third period would add a batch that
waits for the second as that one waits for the first.
`petlja`, `sep`, `prodaja` and `n_dvostruko` set `CHECK_DEADLOCK FALSE`:
loops end, the days and the user's operations are bounded, a sale is finished; in every
other run the system never stops.

**Fairness** (`Pravicnost`): strong fairness of every step of a request that the server
has begun. The server runs what it has begun; PostgreSQL queues waiters first come first
served, so a lock that is free again and again is granted (that is what makes it strong);
and the deadlock detector is one of the steps. Users are not fair: nothing is assumed of
beginning a request or of confirming a page. In `Sep` every step of a server process is
weakly fair, the start of a pass included, since the timer fires every minute; failures
and the user's operations are not, and the days are bounded.

### Disagreements between code and documentation

Two runs violate a sentence of the repository's documents (quoted in `PROJECT.json`
under `findings`):

| Run | What happens |
|---|---|
| `n_dvostruko` | the answer to a receipt's fiscalization is lost; the agency's retry asks for a new document under a new key (`pos/actions.ts:189`) and both are confirmed |
| `n_presjek` | a posting of statements waits for the company's row with a snapshot older than the settlement that held it, and settles the same open item again, unless it is an entry of a book, whose row both write (`bank-statement-service.ts:3558`) |

The following have no run. Where a definition is named, it is stated in its module and can
be put into a configuration to see the trace; `docs` is what the repository says.

| Definition | What happens |
|---|---|
| `Knjiga!ProknjizenJeBalansiran` | `updateDraftJournalLines` reads the status before its transaction, so a draft's lines are rewritten after it was posted (`nalozi/actions.ts:608`). `zadaci/03_Nalozi_za_Knjizenje.md:1172`: "Proknjižen nalog mora imati jednako duguje i potražuje." |
| | `reopenJournal` reads whether the year is closed before its transaction (`nalozi/actions.ts:857`), so a journal returns to draft in a year that closed meanwhile. `zadaci/03_Nalozi_za_Knjizenje.md:1183`: "Zaključana poslovna godina blokira izmjene naloga." |
| | Carrying detail after a settlement of the opening line opens again what was settled (`settlements.ts:102`), although `CURRENT_STATE.md:123` excludes double charges. |
| `Pdv!ZakljucanoJeArhivirano` | An entry is deleted from a VAT month that has just been locked: the Serializable deletion waited for the year's row and reads what was before (`kuf-entry-deletion.ts:30`). `docs/accounting/pdv.md:167`: "DB okidači štite knjige, račune, poreske stavke, prijavu i povezane naloge" |
| `Pdv!RacunImaNalog` | An entry is posted into a journal while its deletion waits in a trigger, and stays posted without one (`nalozi/actions.ts:974`). |
| `Sep!JednomUKnjigama` | `deleteKifEntry` deletes by id a row posted since it looked; the next pass imports and posts the invoice again (`racuni/actions.ts:4941`). `SESSION_LOG.md:554` promises protection from double posting. |
| `Prodaja!SvakiPrometImaNalog` | `finalizeOutgoingInvoice` refuses from inside its transaction, after stock was moved (`robno/izlazne-fakture/actions.ts:419`); the next call moves it again. |
| `Osnovna!NijeRetroaktivno` | A batch that waits for the year's row while usage or an estimate is saved is posted from the register as it was, for the hash is computed from the same old rows (`obracuni/actions.ts:126`). `CURRENT_STATE.md:1034` says that posted usage and parameters are not changed retroactively. |
| `Prodaja!PazarSaOriginalom` | The takings take a negative correction but not its original, whose status is no longer Fiscalized (`pos-batches.ts:57`). |

Met on the way, and not counted above:

* Settlement: the capacity check adds only edges that are active now, so an edge cancelled
  as of a late date and a new one of an earlier date together exceed the line as of the
  dates between (`settlements.ts:42`). `deleteJournal` deletes a journal posted since it looked.
* Sales: a server that stops during a sale leaves the receipt FiscalizationPending for ever
  (retries take failed ones), and LOCAL_RECONCILIATION_REQUIRED has no way back at the
  point of sale; the storno of a sale whose movement failed returns stock that never left; a
  late failure of a sale's stock writes Fiscalized over StornoCreated; the transfer journal
  may be posted with cost zero when the movement is missing; two sales can both pass the
  check of the stock before either moves it.
* Banka: a statement made by hand that settles an invoice of a partner who is not on any
  of its bank lines leaves that invoice's payment status as it was
  (`bank-settlements.ts:85`; `StatusPlacanja` speaks of the other invoices);
  `deleteBankStatement` deletes a statement posted since it looked and leaves its journal;
  a lease lost after the transaction's thirty minutes makes two AUTO_BANK_RUN entries.
* Osnovna: `createFixedAsset` does not look for a confirmed tax calculation, as activation
  and sale do, so an opening asset can be added to a year whose tax depreciation is confirmed.
* Robno: besides the three departures that its history variables name, transfers,
  write-offs and counts look at the year only before their transaction;
  `postInventoryCount` decides by what surpluses and shortages cost and not by quantities
  (`popis/actions.ts:337`), so a count whose differences all cost nothing (goods of no book
  value, less than half a cent) gets the status COMPLETED, "Zaključen bez razlike", and the
  warehouse does not hold what was counted, though `CURRENT_STATE.md:1758` says this of a
  count without differences. Costs are not modelled, so `ProknjiziPopis` lets any count be
  completed (`Zakljuci`), and `PopisUskladjuje` promises what was counted of a posted count
  only, and of a completed one that the warehouse stays as in its snapshot;
  a document posted by halves cannot be posted again, because its movements' key is unique,
  and removing and adding its line moves the goods twice.

## 4. Proofs

`KnjigaProofs` proves, for any number of requests, journals, lines, cards and years and any
input, from the named assumptions `BazaPretpostavke`, `NaloziPretpostavke` and
`KnjigaPretpostavke` (ids are positive numbers, a year has a date, nobody is not a
request: no more than that):

* `Induktivna`: `Spec => []IInv`
* `TipoviOK`, `VezeOstajuIspravne`, `PrenosiOstajuIspravni`, `NajviseJednoPocetno`: the
  type invariant and three of the safety invariants that the runs check.

None of the three is inductive by itself. That an edge inserted by `SettleCommit` is
correct depends on what an earlier step checked and on nobody having undone it since, and that
depends on locks. `IInv` adds, per request, what its locks let it rely on: what its
next statement will lock (`CekaOK`), that the preconditions of a posting stay true
(`KnjizenjeOK`), that the advisory lock keeps the year without an opening balance
(`PocetnoOK`), that loaded lines are still in their journals or gone (`SlikaOK`), that
checked lines are locked and unchanged (`ZakljucaneOK`), and what the pending edges and
carries still satisfy (`ZatvaranjeOK`, `PrenosOK`).

The proof has one lemma per action. Most share their shape: lemma `Okvir` says that a
request which is not acting keeps its part of the invariant as long as no row it holds
is touched, `Kraj` and `OdustajanjeOK` deal with requests that end, `NastavakOK` with
steps that change no table, `UpisOK` with inserted drafts.

From `Induktivna` it proves what a step may not do: `SamoIspravnoSeKnjizi`,
`ZasticenoMiruje`, `PrikazanoSePonistava`, `PotvrdjujeSePredlog`, and that `Knjiga`
implements `OtvoreneStavke` (`KnjigaIspunjavaObecanje`). Only commits change a table
(`OstaloNeMijenja`, `Upisi`), so each result is about the eleven commits. `KorakStiti` shows that
the lines that edges and carries name stay as they are, in posted journals of the same
date: a draft that a stale request rewrites or deletes has no such line, or the trigger
refuses. `UpisJeKorak` maps each commit to one of the four steps of `OtvoreneStavke` or to
a stutter. A proposal needs an invariant of its own, `Predlozi`: what a page shows was
computed from items whose lines are still as they were, or gone. Since ids are never
used again, lines with the same fingerprint as those (`IstiOtisakIsteStavke`) are the same items,
and the plan, a function of them, is the same plan.

It also proves `NemaPrekoracenja`: the edges in force of a line never add up to more
than its amount. `IInv` knows already that at the commit of a settlement its new edges fit
beside those in force (`ZatvaranjeOK`), since the lines' journals and the company's row are
locked since the second reading. What is left are sums. The library adds with a function
that is recursive over the subsets of a set, and the induction theorems are out of the
provers' reach; `Zbirovi` argues instead with a least subset that violates the claim, which
exists because inclusion among finite sets is well founded: the recursive function exists
(`PostojiZbir`), every order of summation gives the same (`ZbirBezElementa`), sums of
naturals over a union and over a part are bounded (`ZbirUnije`, `ZbirDijela`). For that the
amounts must be natural and the sets finite, an invariant of its own (`Cijelo`): edges take
their amounts from plans, plans from remaining amounts, those from lines and edges, and
the lines of an opening journal from balances. It needs `KonacnoStavki` (finitely many
identifiers) and `NaloziPretpostavke` (users enter whole cents).

About the plans it proves, for any finite set of items with distinct ids and whole amounts
(`StavkePlana`; for the loops, `PlanPetljaPretpostavke`: the caller passes finitely many):

* `VracaPlan`: what the loops of `oldestSettlementPlan` return is `PlanPoStarosti`. The loops
  know only what remains of their copies; the definition lays a card's debits and
  credits end to end and takes the overlaps. The invariant that joins them, `PetljaIInv`,
  says that between two rounds there is for every card an amount *P* such that what remains
  of each of its items is what of it lies beyond *P*, the pairs pushed are the overlaps
  up to *P* (`ParoviDo`), *P* is an end of a debit or of a credit (`NaGranici`), and the
  items no longer to be visited end at *P* or before, or their other side is used up (`Posjecene`,
  `Tekuca`). A round moves the *P* of one card to the nearer of two ends (`JednaZaDrugom`: the
  items of a side follow one another without a gap), so the new pair is the next overlap. It
  is an induction over steps, not over the items, so it needs no recursion.
* `PlanRasporedjuje`: the plan gives no item more than remains of it, and leaves no debit
  and credit of one card both open; `TacniPlanPoJednom`: `exactSettlementPlan` pairs
  items whose whole amounts cancel, each at most once.
* `PredlogProlaziProvjeru`: `writeSettlementPair` checks a pair twice, against the items the
  ledger loaded and again once the rows are locked. The first check never refuses what the
  two plans made of the ledger's items. That a pair fits its items and has their card is
  about the plans (`PlanPoStarostiStaje`, `PlanTacnoStaje`); that it is dated no earlier than
  they are is about the ledger (`KnjigaDoDatuma`): it asks for journals up to a date, but a carried line
  comes with the opening journal that names it, and is earlier than that only because
  posted journals are dated in their year, an invariant that postings keep
  (`KnjizeniUGodini`).

`RobnoProofs` proves, for any warehouses, items, documents, quantities and requests, from
`RobnoPretpostavke` (each document has a place and a kind, quantities are positive):

* `RobnoInduktivna`: `Spec => []RobnoInv`
* `RobnoTipoviOK`, `LagerUvijekPratiPromet`, `PopisUvijekUskladjuje`,
  `GodinaStitiNabavku`: the types, the agreement of stock and card, what a posted and a
  completed count leave, and the closed year.

`RobnoInv` is `RobnoTipovi`, `LagerPratiPromet` and `KnjizenjeDrziGodinu`. The agreement
of stock and card is about the card's last balance, so a step must show that the balance it
appends is the stock it writes; the closed year is safe because a calculation's posting
holds the year from its check to its commit (`KnjizenjeDrziGodinu`), whichever stale
reading it has of everything else. The lemmas go from an item's card (`ZapisSabira`,
`PomjeriCuva`) to documents and to the steps of the posting.

Two more invariants are about sums, over the returns of a calculation and over the movements
of a document; with `Zbirovi`, and `KonacnoDokumenata` (a document has a UUID), they are
proved too, each from a strengthening of its own on top of `RobnoInv`:

* `VraceniNikadNePrelaze`: `PovratiSlazu` adds that a calculation's quantities are never
  negative. Most steps concern one document that is no return (`NijePovrat`): the returns
  stay, and unless it is edited late their calculation keeps its lines or had none.
  `PovratSeKnjizi` adds one return to the sum (`JosJedanPovrat`) that it has just read.
* `KretanjeUvijekPrati`: `KretanjaSlazu` adds that a calculation is posted by one request at a
  time and stays a draft until its commit (`KnjizenjeDrziNacrt`, from the year's and the
  calculation's rows), and that it has at most one movement of an item, where it was received
  (`JedanUlaz`), so that its deletion, which takes back the quantity of one movement, takes
  back all of it (`BrisanjeKretanje`).

`OsnovnaProofs` proves, for any assets, periods, years, batches and requests, from
`OsnovnaPretpostavke` (there is a period, a period has a year, a batch begins no later than
it ends), all four properties of the run `osnovna`: `PokriceUvijekBezRupa`,
`ProknjizenoVaziUvijek`, `ProdatoOstajeAmortizovano`, `IzvorUvijekProknjizen`. They need one
another: a batch that goes past a sale cannot be posted because what it covers would overlap
what a sold asset has covered already, and a reopening leaves no hole because a batch covers
a stretch (`ObracuniUredni`) up to its last period (`PokricaUredna`). `OsnovnaInv` adds that
fresh calculations are what the register gives now, and what a request that waits may rely
on (`PosaoUredan`): that whoever posted, reopened, activated or sold since has ended it, and
that a snapshot not marked `staro` is of now. The lemmas go by what a step changes: the
register (`RegistarSeMijenja`), one batch (`NoviObracun`, `KnjizenjeCuva`, `VracanjeCuva`),
or requests alone (`PosaoOstaje`).

`ProdajaProofs` proves, for any requests, attempts, failures and channels, from
`FiskalPretpostavke` (attempts are counted, a channel has its three attributes), all four
properties of the run `prodaja`: `UvijekJedanRacun`, `UvijekSamoPotvrdjeno`,
`PotvrdjenoUvijekOstaje`, `KnjigeUvijekPrateDokument`. `ProdajaInv` says, beside the types:

* `DokumentiOK`: a link leads to a document of the service that was made for this one, nothing is
  known before the claim, the content is frozen by it, what is finished rests on a
  confirmation, and a storno is of a confirmed invoice;
* `PosloviOK`: what a request in progress knows still holds, and at the point of sale at
  most one request writes to a pending document (`JedanPise`);
* `StornoAgencije`: the confirmed documents of the agency's storno are what its request or
  the storno itself links to, which is why a repeated request makes no second one;
* `KnjigeOK`: stock and journals agree with the documents.

The lemmas go by kind of step: the service or a request alone (`SamoServis`,
`RadnikNapreduje`), the claim (`Zahvat`), the confirmation (`Potvrda`), the failure
(`Neuspjeh`), the books (`Knjizenje`), drafts and links; requests that do not act are kept
by `PosaoOstaje`. Each step also shows `DokumentiNaprijed`, that documents only move
forward, which is the action property.

`PdvProofs` proves, for any months, entries, journals, amounts and requests, from
`PdvPretpostavke` (NULL and nobody are not ids, users enter natural amounts) and
`KonacnoRacuna` (an entry has a UUID), all four properties of the run `pdv`:
`ArhivaUvijekObuhvata`, `UvijekJedanNalog`, `ZakljucavaSeUsaglaseno` and
`ZakljucenaUvijekMiruje`, beside the types (`PdvUvijekTipovi`). `PdvInv` is

* `TabeleOK`, what the tables promise one another: an entry's journal, while it exists, is
  of the entry's book and month (it may be gone, see `RacunImaNalog` above); a month's book
  has one journal; a return and its closing journal name each other, and such a journal is
  one line of an amount other than zero; a locked month is covered by its archive;
* `ZahtjevOK`, what a request knows: by its step, which rows it has yet to lock, and, while it
  holds the year's row (`KnjiziKnjigu`, `MijenjaPdv`), that what it has read is still so. A
  deletion (`BriseRacun`) holds nothing of the kind, but while its snapshot is not old the
  year is open and its journal is that of a book.

Every write needs the year's row (`PisacImaGodinu`), so a request that relies on more than its
own rows is not there when somebody else writes (`OkvirUpisa`, `UpisOstalima`), and
nothing that it relies on changes while it is (`OkvirTabela`). That the amount is not zero is
needed for `ZakljucavaUsaglaseno`: locking demands a posted journal only where there is VAT
(`KontroleUsaglase`). The sums are functions of the tables they read (`ZbirU`, `PrometU`), so
that they are the same when the tables are.

`SepProofs` proves, for any processes, days, invoices, kinds of books and failures, from
`SepPretpostavke` and `KonacnoVrsta` (a company has finitely many kinds of books), all that
the run `sep` checks but its liveness: `UvijekJednomAkoNijeSporno`,
`NezavrsenoSeUvijekPrati`, `VrstaSeUvijekPoklapa`, `GotovJeUvijekUvezen` and
`UvijekSamoSvojeKnjizi`, beside the types (`SepUvijekTipovi`). `SepInv` is

* the books: one row for an invoice and a source (`Kljucevi`), one row for an invoice that
  is not in `sporni` (`JedanRed`), which stands in the journal of its kind once it is posted
  and in no other (`UKnjigama`);
* the queue: a row that waits for posting is of the kind that is set (`Vrste`) and has a job
  (`Prate`); a job that is DONE has everything in its file finished (`Gotovi`);
* what a process knows (`RadnikOK`): while its permission is valid, that the kind it has read
  is the one that is set; what of its file is still to be imported; while it holds the lock, that
  the list it posts from has every row that waits; and that a job which met no error has
  nothing left when it ends;
* what the user's request may rely on (`KorisnikOK`).

A process that lost the lock still posts what it has listed, so that a process is alone is
not the argument. It is that no step makes a finished invoice unfinished unless the user
touches it (`Prelaz`), and that only the process which holds the lock, its permission still
valid, adds rows that wait (`BezNovih` for all others): what a process knows about what is
finished stays true whatever the others do. That an invoice stands in the ledger as often as its rows
are posted is a sum over kinds of books, for which the proof uses `Zbirovi`.

`BankaProofs` proves, for any statements, messages, amounts, requests and failures, from
`IzvodiPretpostavke` and `BankaPretpostavke` (statements are finitely many and have positive
ids, amounts are natural, a message brings statements), all that the run `banka` checks:
`UvijekPratiIzvod`, `UvijekTacnoPlacanje`, `UvijekUvezenaObradjena`, `UvijekNeVraca` and
`UvijekMirujuZakljuceni`, beside the types (`UvijekTipovi`). `BankaInv` is

* `NaloziOK`, that statement and journal agree, which is the property itself;
* `PlacanjeOK`: what other payments and the statements that name the invoice's partner
  settle (`Vidljivo`) never exceeds it, and while no other statement settles, the status is
  that of the sum of all (`Sve`). The two are kept apart because a posting by a statement that
  does not name the partner adds to the second and marks nobody;
* `PorukeOK`: what is recorded as imported is there, and a message that does not count as
  failed has all its attachments recorded or none. Several processes may work on one
  message, so a process knows only that the message counts as failed or is complete by
  another's work, and that what it has left behind is recorded (`Prilaze`), that the
  statement it is about to record is there (`Uvezeno`), and that none of it is lost when
  others go on or a statement is deleted (`Napreduju`);
* `Snimak`: a posting that is not marked `staro` is in an open year, and what it has read of
  the invoice is at least `Vidljivo` and at most `Sve`. With only named statements the two
  are one (`SveJeVidljivo`), so the status it writes is exact.

A write says which rows it covers (`Upisano`); requests that rely on one of them are marked,
the others keep what they know (`Pisanje`). The two action properties follow from one lemma
about what a step may do to a statement (`KorakSmije`): leave or delete it, change it in an
open year without posting it, or post it as a request that had it, a user's if it has a journal.

Only model-checked: liveness (`ZahtjevZavrsava`, `ObradaSeZavrsava`, under fairness) and the
absence of deadlock, which are beyond the prover. Every other property that a passing run
checks is a theorem.

## 5. Not modelled

Access rights and validation of forms (a refused request is no step); currencies,
texts, numbering and the audit log (written by the actions, read by none of them); in
`Knjiga`, journals that belong to statements, payroll, fixed assets and travel orders, which the
journal actions refuse or delegate; bank allocations from before the settlement tables;
the parts listed as `not_modelled` in `PROJECT.json`, each with its reason. Per component:

* `Sep`: several companies and their order, the time limits of a pass, certificates.
* `Prodaja`: advances, invoices that are not fiscalized in SUMMA, registers, quantities
  and prices; a shortage, a locked VAT month and a conflict are one local failure that may
  happen or not; what a draft says is frozen once it has been claimed.
* `Banka`: batches of several statements, explicit and old allocations, parsers, learned
  rules, the statuses that differ only in wording, the gate that waits for SEP. A locked
  VAT month and a closed year are one variable.
* `Robno`: values and prices, and with them price adjustments; headers, several lines
  of one item, returns without a calculation, movement dates, journals and KUF entries.
* `Osnovna`: amounts and the rules of depreciation, categories, accounts, land, tax
  depreciation, writes refused under their locks; the years are one in the run.

## 6. Plan

1. Account replacement as a further action of `Knjiga` (a module `Zamjena`):
   `applyAccountReplacement` is Serializable and waits for the company's row, so a settlement
   that held that row inserts an edge which the old snapshot, and the trigger that runs in
   it, do not see, and the account of a settled line changes.
2. Tax depreciation, a chain of years carried under the company's lock, beside `Osnovna`.
3. Payroll's posting and travel orders as further writers of journals.
