# Merxio: models, checks and proofs

TLA+ models of the Merxio backend (FastAPI handlers over an async SQLAlchemy
session and PostgreSQL), TLC configurations that check them on small instances,
and TLAPS proofs of their main theorems.  Paths are relative to the repository
root; line numbers are those of the modelled commit.

## 1. Inventory

| Component | State | Operations | Correct when |
|---|---|---|---|
| Authentication (`app/services/auth.py`, `app/repositories/users.py`, `app/security/`, `app/dependencies/auth.py`) | tables `users`, `refresh_tokens`; the wall clock; signed access tokens held by clients | register, login, refresh, logout, bearer check (`/auth/me` and every protected route) | one account per mailbox; account and first token stored together; a refresh token is spent once; revoked, expired and deactivated stay shut out; what a client was given is stored |
| Addresses (`app/services/user.py`, `app/repositories/address.py`) | table `addresses` | list, create, replace, delete | one default per user and type; only the owner writes; a replace stores its payload; deleted stays deleted |
| Profile (`app/services/user.py:27`, `app/repositories/user.py`) | names in `users` | update (`PATCH /users/me`) | an update stores and answers the names of one payload; it touches nothing but the names |
| Categories (`app/services/catalog.py`, `app/repositories/category.py`) | table `categories` | list, create, update | slugs unique; parents exist; the hierarchy has no circle |
| Products (`app/services/catalog.py`, `app/repositories/product.py`) | tables `products`, `product_images` | list, get, create, update | slug and SKU unique; only the seller updates; active category; exactly the images of the last payload; an update that committed is answered; a page fits its total; a walk over the pages is complete |
| Roles and permissions (`app/models/role*.py`, `permission.py`, `app/dependencies/auth.py:35`) | four tables no code writes | `require_permission`, used by no router yet | the join gives exactly the permissions of the user's roles, as they are during the request |
| Sessions and errors (`app/database/session.py`, `app/core/exceptions.py`) | one session, hence one transaction, per request | open, roll back, map exceptions | no request leaves half its writes |
| Migrations (`migrations/env.py`, `migrations/versions/`) | the tables themselves and `alembic_version` | upgrade and downgrade between any two versions | the committed tables are those the models declare, up to the stamped version; a command takes effect whole, from the version it has read, or not at all; one that runs alone never fails |
| Health, settings, logging, factory, worker | none at run time | | start-up only |

How they interact.  A router resolves `get_db_session`; FastAPI caches the
dependency, so the bearer check and the service of one request share one
session and one transaction.  Services call repositories, repositories flush,
services commit.  Components meet in the database only: there is no cache, no
queue and no background task (Redis and RabbitMQ are configured and unused).
An `AppException` becomes a 4xx; every other exception (a unique violation, a
stale row, a deadlock) becomes a 500; both close the session, which rolls back.

What is hard.  Handlers are coroutines, and any number of processes run them:
between two awaits on the database anything may commit.  The database runs at
READ COMMITTED, its default: a check made by one statement says nothing to the
next.  No handler locks a row before it decides.  A flush writes only the
columns that differ from the image the session has loaded, so what a request
writes depends on how old its image is.  The hazards are listed, each at its
line, in `PROJECT.json`.

## 2. Modules

| Module | What it is |
|---|---|
| `AuthService` | authentication: each handler in steps that end at a database await |
| `TokenLedger` | the abstract promise of the token table: issue, rotate, retire; `AuthService` implements it |
| `AuthServiceProofs` | the inductive invariant and the safety theorems |
| `AuthHistoryProofs` | what the past decides: revocation, deactivation, single use, and the refinement of the ledger |
| `AddressBook` | addresses: the bulk UPDATE row by row, stale images, locks, deadlocks |
| `AddressBookProofs` | its inductive invariant, ownership and side effects, and what holds in turn |
| `UserAccess` | what happens behind the bearer check: profile updates and required permissions, beside operators |
| `UserAccessProofs` | its inductive invariant; fresh permissions, standing deactivations, true answers |
| `Categories` | categories: parent, slug, the checks before the flush, three kinds of lock |
| `CategoriesProofs` | its inductive invariant, unique slugs, stored parents, and what holds in turn |
| `Catalog` | what the catalog promises to its readers: whole products that come and change one at a time; `Products` implements it, `Listing` reads it |
| `Products` | products and their images, two unique keys, the category's `is_active`, the answer |
| `ProductsProofs` | its inductive invariant, unique keys, ownership, what holds in turn, and the refinement of `Catalog` |
| `Listing` | `GET /products` page by page and `GET /products/{id}`, statement by statement, over `Catalog` |
| `ListingProofs` | its inductive invariant: pages, totals, walks and images, for any catalog |
| `Schema` | the tables the models declare |
| `Migrations` | the three Alembic revisions, their commands and their transactions, compared with `Schema` |
| `Deployments` | the abstract promise of the version: commands take effect whole and one after another; `Migrations` implements it |
| `MigrationsProofs` | the plan each command follows, no drift from the models, no failures alone, and the refinement of `Deployments` |
| `MCAuthService`, `MCAddressBook`, `MCUserAccess`, `MCCategories`, `MCProducts`, `MCListing`, `MCMigrations` | constants and symmetry for TLC |

The modules of requests are built alike.  `pc[r]` is the stage of request `r`;
every action is one step between two awaits (or up to the next lock the
database has to take), named after the repository call or the service step it
stands for.  Committed rows live in `users`, `tokens`, `rows`, `categories`,
`products` and `images`; what a transaction has flushed lives in `newUser`,
`newToken`, `edit`, `draft` and `dropped` until `Commit` merges it or `RollBack`
drops it.  Row locks and waits for unique keys are guards (`RowLocked`,
`KeyContested`, `LockedFor`, `Free`).  `loaded` (and `shown`, for images) is the
ORM image; `RevokedRow` and `Flushed` are the flush that compares with it.
`Abort` is a crash, a disconnect or a lost database connection before the
commit, the end "lost" one after it.  Ids and tokens are random and never
repeat, so a row is named by the request that makes it.  Only the server makes
them: what a client names in a path or as a parent is the id of a row that is
stored when its request arrives, or one that no row has (`Starts`).

`alone` is a history variable: TRUE until a request arrives (or, in `Products`,
a category changes; in `UserAccess`, an operator acts) while another request is
under way.  No code reads it.  It
states what holds *as long as requests take turns*, in the same run that
explores every overlap, and it is how `TokenLedger` tells the two promises of
the token table apart: `exclusive` while `alone`.

`AuthService` and PostgreSQL: the INSERT of an account waits for an uncommitted
rival of its key and then fails with an IntegrityError if the rival committed
(`InsertUser`); the UPDATE of a token waits for its row lock and applies to the
row committed last, without repeating the check (`UpdateToken`).  Clearing
`is_active` is not in the code; `Deactivate` is an operator's statement.

`AddressBook` and SQLAlchemy: `unset_default_for_type` takes the rows it will
visit from the snapshot of its start (`BeginUnset`), locks them one by one in
any order and looks again at each (`UnsetRow`), and then the session changes
the loaded address in memory if it matched (`Synchronised`).  A flush that
finds no row, or a refresh of a vanished one, fails the request; a DELETE that
finds none does not.

`Categories` and `Products` split the flush at the points where PostgreSQL may
wait: the row (`LockRow`), an entry of a unique index (`EnterSlug`, `EnterKey`),
the foreign key (`CheckParent`, and the image rows in `ReplaceImages`).  An
UPDATE that changes a key locks its row against foreign key checks, any other
does not (`LocksKey`, `Shares`).  Both check first and write later, and nothing
translates the IntegrityError of a check that has gone stale: the end "error"
is that 500.  `Products` sees of `update_category` only the commit of another
`is_active` (`SetActive`).  Its `Answer` fails after an update that wrote a
column, whose `updated_at` has expired in the session (`UpdatedAtExpired`, the end
"unanswered").

`UserAccess` joins three parts that share one session: the user which
`get_current_user` has loaded is the image the profile update compares with, and
`require_permission` reads the join after it.  Operators change `is_active`,
roles and permissions at any time.  `held` and `lacked` remember whether, since
it arrived, a request's user has had the permission, and has not.

`Catalog` and its readers: `Products` says how requests write products, `Catalog`
only what a reader of the tables sees of it, one commit at a time.  `Listing`
takes the writes from `Catalog` (`Shop!Write`) and adds `created_at` and the
reader: the page, its images (`selectinload`) and the total are statements of
their own, each over what is committed when it begins, and the database may order
products that tie in the sorted column anew each time.  One client, who turns
the pages up to the total it was last told, stands for all, since reading
changes nothing.

`Migrations` runs the operations of the revisions one by one in the transaction
of a command, which sees its own changes (`View`), holds the tables it has
touched, stamps the version after each revision and commits all at once.  The
stamp must match one row of `alembic_version`; with the table locks it is all
that orders two deployments.  It is enough: `Deployments` describes commands that
read the version, and take effect in one step if it is still the same.  `Schema` is written from the models, the
operations from the revisions.

## 3. Runs and bounds

| Run | Instance | Shows |
|---|---|---|
| `auth_concurrent` | 3 requests, 2 spellings of an address, clock 0..2, refresh tokens live 2 ticks | types, unique accounts, atomic registration, durable answers, and that what was revoked, expired or deactivated before a request arrived is not honoured |
| `auth_rotation` | 3 requests, 1 address, no time, weak fairness | the columns of a rotation stay linked and consistent; the tables refine the ledger, exclusive as long as requests take turns; in turn each token is spent once; every request ends |
| `auth_replay` | 3 requests | **violation** of `SingleUse` |
| `address_concurrent` | 2 requests, 2 users, 2 stored addresses, 2 types, weak fairness | ownership, no resurrection, the side effect on other addresses; in turn, one default per type and exact payloads, from every legal book; deadlocks and locks strand nobody |
| `address_two_defaults` | 2 requests, 1 user | **violation** of `OneDefault` |
| `category_requests` | 2 requests, 1 stored category, 2 slugs, weak fairness | unique slugs, stored parents, every request ends; in turn, conflicts are refused and payloads stored |
| `category_circle` | 2 requests, 2 stored categories, 2 slugs | **violation** of `AcyclicInTurn` |
| `product_concurrent` | 2 requests, 2 sellers, 1 stored product, 2 slugs, 2 SKUs, 1 picture | unique keys, only the seller writes; in turn, conflicts are refused, payloads and images stored; the tables refine `Catalog`, which in turn admits creates under active categories only |
| `product_unanswered` | 2 requests, 1 seller | **violation** of `UpdatesAreAnswered` |
| `catalog_pages` | 3 products, 2 categories, pages of 1, 2 writes, a query with each filter and with three sorts | pages fit their totals, walks are complete where the order is, images are never older than their products |
| `user_access` | 2 requests, 2 users, 2 names, 1 role, 1 permission | no update undoes a deactivation or answers a row it did not store; permissions are judged as they are |
| `migrations` | 3 deployments, all 4 versions | the committed tables are the models' up to the stamped version, whatever overlaps or crashes; commands refine `Deployments`; a command that runs alone does not fail |

Why these bounds are enough for the interesting cases.  A token race needs one
request to create the token and two to fight for it.  An expiry needs a clock
that outlives the token (`MaxNow >= RefreshTTL`).  An address deadlock needs two
requests and two rows; the stored addresses have every type, default and owner
the rule allows.  A category deadlock needs a child and a parent: a create has
entered the slug that an update of its stored parent, whose row is locked
against the foreign key check, is about to take.  The race for a slug or SKU
needs two writers; a key that is given up needs a stored row.  A picture is
named by the request that stored it, so one URL is enough to tell old images
from new.  A lost update of a name needs two updates with two names, an undone
deactivation one update and an operator.  A walk that a write upsets needs a
product before the page, one on it and one after it, and a page of one product;
the second write (`MaxWrites`) lets one come between any two statements after
another has come before.  Two deployments can pass each other in opposite
directions, the third meets what they leave.  Each request arrives at most
once, so the number of requests bounds the depth of every run; only the clock
(`MaxNow`), the images of a payload (`MaxImages`) and the writes a reader meets
(`MaxWrites`) have bounds of their own.  Deployments of `Migrations` come and go
for ever.

Symmetry is used over names the modules treat alike, and only in runs without
liveness.  `address_concurrent` has liveness and no symmetry; instead its
specification (`NamedFairSpec` in `MCAddressBook`) keeps, of the stored books
that differ only in the names of users, types and addresses, those in which the
first of each name belongs to the first address.

Fairness.  `FairSpec` (and `NamedFairSpec`) is weak fairness of each request's
own steps: the event loop resumes a coroutine whose statement was answered, and
PostgreSQL answers every statement, by its deadlock detector if need be.
Arrivals, crashes, deactivation and the clock are not fair.  A request that waits
needs no strong fairness: what it waits for has finitely many holders, each of
which ends and does not come back.  `Products` states no liveness: the victims of
its deadlocks are part of `Abort`, which is not fair.  In `UserAccess` a request
waits for one row at most, and readers and deployments are not obliged to go on.

## 4. What the violations show

- `auth_replay`: two refreshes that load one token before either commits both
  answer 200: two live tokens from one.  `tests/unit/test_auth_service.py:164`
  says a replay becomes invalid.  It does once the first refresh has committed
  (`RevokedNotHonoured`) and as long as requests take turns (`SingleUseInTurn`).
- `address_two_defaults`: two overlapping creates with `is_default` do not see
  each other's row, and both keep their default (`README.md:201`).
- `category_circle`: of two stored categories A and B, an update puts A below B
  and is answered; then another update puts B below A.  The check refuses only a
  category that is its own parent.  `AcyclicInTurn` is violated while `alone`:
  no overlap is needed.  With two stored categories and two slugs no create can
  succeed, so the trace is these two updates.
- `product_unanswered`: an update that changes a column of the product refreshes
  the images only, so the answer reads `updated_at`, which the flush expired:
  the update is committed and answered 500.  No overlap is needed.

A category that is deactivated between `_validate_product` and the commit is no
violation of a documented promise: `Catalog` demands an active category as long as
writers take turns, and `Products` meets that.

`StoresPayload` is stated in turn in all three modules because it fails under
overlap: two replaces of an address, a category or a product can store some
columns of one payload and some of the other, and two updates of a product
leave the union of their images.

## 5. Proofs

`AuthServiceProofs` proves, for every set of requests and spellings and all
lifetimes, that `Spec` implies `TypeOK`, `OneAccountPerEmail`, `AllOrNothing`,
`AnswerIsDurable` and `RotationsConsistent`.  None of these is inductive: what a
commit stores was decided several steps earlier.  `IInv` adds what each stage knows (`Flow`), that a presented token is stored and its image
names the same owner (`Presented`), which account the request acts for
(`Resolved`), that rows appear at the commit and not before (`Written`), what is
staged at which stage (`StagedUser`, `StagedToken`, `StagedEdit`), and that two
requests never hold edits of one row or rows of one unique key (`Exclusion`).
There is one lemma per action; only `Commit` changes the tables, and its lemma
first states what the tables hold afterwards.

`AuthHistoryProofs` proves `RevokedNotHonoured`, `DeactivatedShutOut`,
`SingleUseInTurn` and the refinement `RefinesLedger`.  Its invariant `HInv` has
four parts: `Remembers` (what was settled when a request arrived is still so,
and the images it has loaded since show it), `Minted` (a token a refresh has
minted left the presented one revoked), and, while `alone`, `Fresh` (an image
is never stale, and the check it passed would pass again) and `OneAtATime`.
The argument rests on `Evolves`: every step only adds rows, revokes tokens,
deactivates accounts and lets time pass, so what a request remembers survives
the steps of all others (`StillRemembers`).  For the refinement each commit maps
to `Issue`, `Rotate` or `Retire`, the step that ends `alone` to `Share`, and any
other step to a stutter.

`AddressBookProofs` proves `TypeOK`, `OnlyOwnerWrites`, `OnlyCreateAdds` and
`OthersOnlyLoseDefault` for every overlap, and `OneDefaultInTurn` and
`StoresPayload`.  `BInv` says that a request only locks and writes stored rows of
its own user, that a row has one holder, that whatever a bulk UPDATE has written
is its committed row without `is_default` (`Unset`), and that an address it has
listed or loaded is stored or gone for good (`Known`): this is what makes one
check of the owner, made on an older row, enough.  `CommitRows` then says all
that a commit can do to a row, and the three action properties follow.  `InTurn`
adds, while `alone`, that the image in memory is what the session would read
(`UpToDate`, where the synchronised bulk UPDATE matters) and that every other
default is still listed or already unset (`Cleared`).

`UserAccessProofs` proves `TypeOK`, `PermissionsAreFresh`, `DeactivationStands` and
`AnswersTheRow`.  `UInv` adds that what a transaction has written differs from the
committed row in the names only (`Drafted`), so that a commit cannot undo a
deactivation it has not seen, that a row has one writer (`Exclusive`), and that the
histories keep up with the join (`Remembers`).

`CategoriesProofs` and `ProductsProofs` prove every property their runs check but
liveness, and share an argument.  A request that has entered a key in a unique
index and not committed *claims* it.  `CInv` and `PInv` say that no two requests
claim one key, that nobody else has stored a claimed key (`~Taken`), and that a row
has one writer (`Apart`); then a commit keeps the keys unique although
`slug_exists` looked at the table long before.  `PerRequest` says what each stage
knows: the loaded target is stored and, in `Products`, belongs to the request's
seller (`Found`), a validated parent is stored and not the category itself
(`Validated`), a draft is the committed row with the flushed columns (`Drafted`).
`CommitStep` states all that a commit stores.  While requests take turns,
`UpToDate` adds that the image is the row, that a slug or SKU that was looked up is
still free (so no constraint fails after the checks), and that the loaded images
are all there are.  `CatalogRefinement` maps a commit to `Create` or `Update`, an
overlapping arrival to `Share`, `SetActive` to itself and every other step to a
stutter; that images are named by the request whose commit brings them
(`Provenance`) makes the images of an update new.

`ListingProofs` proves `TypeOK`, `PageFitsTotal`, `WalkIsComplete` and
`NoDeletedImages`, for any catalog, queries and limit.  The argument counts: the
*rank* of a product is the number of selected products that sort before it, and
`OrderRanks` shows that where nothing ties the statement puts rank `k` at place
`k + 1`, whichever of its allowed orders the database takes, so a page shows the
ranks from `offset` up to `offset + Limit`.  `Covers` says that of the products the
walk began with, those whose rank is below what it has turned over have been
shown.  A create only raises ranks, so while products are only added none slips
below unseen; an update may lower one, and nothing is claimed then.  `Counts` says
that while nothing is written the pages are slices of one order, so that each
product is shown once.  `Fits` and `Younger` are what the page knows before its
count and its images are read.  `ReadsCatalog` proves that the catalog it reads is
a `Catalog`, the one `Products` is proved to implement.

`MigrationsProofs` proves, for any number of deployments, `CommittedIsTheModels`,
`MigrationsDoNotFail` and the refinement `RefinesDeployments`.  First, facts about
the scripts: `Builds` says that an upgrade creates each table of its revision once
and after those it refers to, equal to the model but for the indexes, and each index
of the model once and after its table; `Unbuilds` says the converse of a downgrade.
`Rising(v, k, n)` and `Falling(v, k, n)` are what table `n` is after `k - 1`
operations, had they run on the models at the version before: `RisingNext`,
`FallingNext` and `PlanEnds` show that each operation leads from one to the next and
the last one to the next version, `UpgradeWorks` and `DowngradeWorks` that on such a
database every operation applies and none is refused.  Then the invariant `MInv`,
about what others do meanwhile.  Before its first stamp a command knows only that
the tables it holds are as planned and were committed as the version it started
from has them (`Holds`); the rest may have moved on.  An operation that applies
nevertheless tells: a table it did not hold cannot have moved, or a name it needs
would be missing or taken (`LocksWhatStands`).  A stamp that matches says that the
committed version is the one the command started from (`StampStands`; for version 0,
whose stamp is an INSERT, because it holds `users`), so its whole view is as planned
(`ViewIsPlan`), and stays so (`Owns`), for no other command can stamp, hence commit,
before it ends (`Apart`).  In the refinement the plan of a command starts at the
version it is at until it stamps and at the committed one from then on; that the two
agree at the first stamp is `StampStands` again.

Assumptions: lower-casing is idempotent, lifetimes, `MaxImages` and `MaxWrites` are
natural numbers and the pages' limit a positive one, there are finitely many product ids (UUIDs), bodies
and times are what the columns hold, requests and stored rows have different names, and
`None` (and `Gone`) is none of the values it stands beside.

Model-checked only: liveness (`EveryRequestSettles` in three runs), which is outside
the prover's reach, and the four violations of section 4.

## 6. Not modelled

- Password hashing and JWT encoding: a login may always be refused; an access token
  is its owner and its expiry.
- `list_categories`, `list_addresses` and `GET /users/me` beyond the bearer check:
  one or two SELECTs whose answer no decision rests on.
- What a route does behind `require_permission`: no route uses it yet.
- Health (one `SELECT 1` behind a `try`), settings, logging, the application factory
  and the worker stub: no state at run time.  The pool is unbounded.
- Types, lengths and defaults of columns, and Alembic's offline mode, which prints
  SQL and runs none.
- The pair of `price` and `compare_at_price`: `body` in `Products` stands for both
  columns at once (listed as a hazard).
- Users, tokens, categories and products are never deleted, as in the code.

## 7. Plan

1. `AuthService`, `TokenLedger`, `AddressBook`, `Categories`, `Products`, `Catalog`,
   `Listing`, `UserAccess`, `Schema`, `Migrations` and `Deployments`, and the proofs of
   section 5, which cover every safety property the passing runs check: done.
2. `price` and `compare_at_price` as two columns of `Products`, with the CHECK that
   refuses a pair nobody asked for.
