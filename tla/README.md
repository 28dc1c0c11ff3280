# Verification of inso-dumper

TLA+ models of inso-dumper, the command line program that archives a parent's
announcements, galleries, conversations and settlements from the Inso platform.
TLC checks the models on small instances, TLAPS proves the most important
properties for every value of the constants.  `PROJECT.json` lists the runs,
the properties with a mutant each, the lines every definition stands for, the
disagreements found, the hazards, and the theorems.

    tlc -config messages_safety.cfg MCMessagesSync.tla      # a run
    tlapm MessagesSyncProofs.tla                            # the proofs of a module

## 1. The system

The user runs one command at a time, though nothing enforces it.  `sync` loads the
saved session, resolves the child, and runs the categories one after the other.
A category walks a list of the platform page by page, compares each item with
its manifest (a sqlite table) and with the disk, fetches what is missing, writes
files, and records the item.  An error anywhere ends the command with the disk
as it is; the next run starts from there.  So the state that matters is the
disk, and the hard part is that a run can end between any two writes while the
platform keeps changing.
The offline commands verify, materialize and index walk the same tree.

| component | code (`src/src/inso_dumper/`) | state | what makes it correct |
|---|---|---|---|
| conversations sync | `dump/sync.py` `run_messages`, `dump/messages.py` | rows (directory, last_update, count), directories with conversation.json, messages.json, attachment links | rows never ahead of the disk; histories without holes; a skipped conversation is up to date; one directory each; interrupted runs are recovered |
| posts sync | `run`, `dump/writer.py`, `dump/layout.py` | rows (directory), directories with three files and media links, the shared store `_common/` | a recorded or skipped post is complete; no post damages another; no orphans |
| settlements sync | `run_settlements`, `dump/settlements.py` | rows (bill, download stamp), settlement.json, invoice.pdf | a stamp is backed by the invoice; history is not erased |
| documents sync | `run_documents`, `http/drive.py` | none: gated off in the code | it is skipped without failing the sync |
| manifest | `dump/manifest.py` | the sqlite tables, their schema version | one durable step per upsert or clear |
| file writer | `_write_bytes`, `save_session` | a file and its .tmp | replaced as a whole, whatever fails |
| session | `session/store.py`, `http/session_expiry.py` | session.json | a missing, broken or valid file is told apart |
| media store and links | `dump/writer.py` `write_deduped_media`, `link_media_to_post` | `_common/` by hash and kind, the media files of each post | a link never precedes its blob; a blob is what its name says; media are numbered as post.json lists them |
| login | `http/login.py`, `http/auth.py` | cookies gathered along redirects | the latest cookie wins; the login ends |
| HTML pages | `http/children_shell.py`, `http/settlements.py`, `http/redirects.py` | the redirect chain | an expired session is reported as such; the chain ends |
| HTTP client | `http/client.py` | the time of the last request, a lock | the configured rate |
| timeline walk | `http/timeline.py` | page number, retries | every post there at the start is yielded; the walk ends |
| conversation and message walks | `http/messages.py` | seen ids, loadOlder; offset | every quiet conversation is listed; the pages add up to a history without gaps; the walks end |
| HTML parsers | `http/settlements.py`, `http/children.py` | the open elements, the card or anchor in hand | a page that changed is refused, or costs what changed, and never mixes up two months or children |
| command line | `cli.py` | plan, totals, exit code | exit code 0 means complete; the advice given leads to a complete sync |
| verify, materialize, index | `dump/audit.py`, `dump/indexing.py` | none of their own: they walk the tree, also while a sync writes it | a clean report is true; nothing a tool writes makes a recorded post incomplete; a user who acts on reports ends with a sound dump |
| payload models, configuration, paths, logging | the rest | none | not modelled |

The components share the disk (sync and later syncs, and the offline commands, which may run beside a sync), the session
file (login and sync) and the rate limiter (every shell through one client).
Calls go downwards only: cli, then sync, then the http shells and the writers.

What is hard in this code: runs abandoned between two durable writes; an answer
of the platform that ages while it is being used (the `last_update` of a list
page, the links of the settlements page); pages that shift during a walk;
directories assigned by name and looked up by name; redirect chains that end at
their bound; sessions dropped between two requests; one parser object for all
cards of a page; a power cut between a rename and its directory; a store that goes
bad under links that are already there.  The list of hazards, each
at its line, with the properties that cover it, is in `PROJECT.json`.

## 2. The modules

| module | models | used by |
|---|---|---|
| `DumpLedger` | what every category promises: claimed <= stored <= published | implemented by `MessagesSync` and `PostsSync` (`Ledger == INSTANCE DumpLedger WITH ...`, property `ImplementsLedger`); invoices whose link is replaced or removed are no such ledger |
| `MessagesSync` | `run_messages` | `MCMessagesSync` (constants for TLC), `MessagesSyncProofs` |
| `PostsSync` | `run`, `resolve_post_dir`, `write_post` | `MCPostsSync`, `PostsSyncProofs` |
| `SettlementsSync` | `run_settlements` | `SettlementsSyncProofs` |
| `AtomicFile` | `save_session`, `_write_bytes` | `RecordedFile`, `AtomicFileProofs` |
| `RecordedFile` | a file and the manifest row that claims it | extends `AtomicFile` |
| `DumpTree` | `_common/`, the media files of the posts, and the sync as far as it writes them | `DumpTools` |
| `DumpTools` | `verify_dump`, `materialize_dump`, `write_index`, and the user who acts on reports | extends `DumpTree`; `MCDumpTools`, `DumpToolsProofs` |
| `TimelineWalk` | `list_posts` | extended by `HttpLayer` |
| `RateLimiter` | `_throttle`, `request` | extended by `HttpLayer` |
| `ListWalk`, `HistoryWalk` | `list_conversations`, `fetch_messages` | instances of `HttpLayer` |
| `SettlementsPage`, `ChildrenMenu` | `_SettlementsParser` and `months`, `_SwitcherParser` and `parse_children_list` | instances of `HttpLayer` |
| `HttpLayer` | the six machines above, one in each behaviour | `HttpLayerProofs` |
| `LoginFlow` | `login`, `parse_login_response` | instance of `WebSession` |
| `RedirectChain` | `list_children`, `_get_following_redirects` | instance of `WebSession` |
| `WebSession` | a login and the command after it, with the session it obtained | composes the two above; `WebSessionProofs` |
| `SyncCommand` | the sync and login commands | `SyncCommandProofs` |

**The sync modules.**  The program counter `pc` of the one process names the
next durable step; loop variables of the code are its job (`job`, `post`,
`month`).  Each durable write - a directory, a file replaced by rename, a
symlink, a sqlite commit - is one action.  Computation and requests in between
belong to the action before or after them, except where time passing matters:
`FetchPage` and `ListPage` are actions because messages may be written between
two of them.  `Interrupt` may happen before any action and stands for Ctrl-C, a
crash, a transport error, a drifted payload and an `OSError`: each of them
leaves the disk as it is and forgets the process.  Slugs and suffixes are
concatenated in the code, so the name `walk-1` may be the first suffix of one post
and the own slug of another; the modules have `Suffixed[s, n]` for that, a constant
of which the proofs of `MessagesSync` assume nothing and those of `PostsSync` only
that the names tried for one post differ (`NamesAssumption`).  (`WritePostFails` is the
exception: there the code cleans up.)  A row is `None` or a record of the columns
that are read back.  Time stamps of the manifest (`first_seen_at`,
`last_seen_at`), excerpts and payloads are left out.

- `MessagesSync`: `hist[c]` is the length of a conversation's history and
  `<<c, i>>` its i-th message; `now` counts seconds, and `MinGap = 0` lets two
  messages share one.  A directory name is the date, the recipient and a suffix,
  so two conversations of one recipient collide.  `owner[d]` is the id in
  conversation.json, `file[d]` the messages in messages.json, `links[d]` the
  messages whose attachments are linked.  Every message is taken to have an
  attachment, which makes the step of linking observable; a link an earlier run left
  is removed (`UnlinkAttachments`) before the new one is made.  `BeginTail` and
  `BeginFull` are the two branches of the loop; the tail path checks the length
  (`TailFits`) and either appends or ends the run (`RefuseTail`).
- `PostsSync`: announcements and galleries are dumped into one directory and one
  manifest, so one set of posts stands for both.  Removing a partial dump
  (`RemoveEntry`, `RemoveDirectory`) goes entry by entry.  A medium is its
  content; `_common/` is a set of contents.
- `SettlementsSync`: the shown links are the page's, and age while the months
  are handled.  `known` is the local `recorded`; `replaced` is a history variable
  (months whose link the platform ever replaced or removed).

**The dump and its tools.**  `DumpTree` is `PostsSync` seen from the other side:
the names of directories are left out (a post has one), the content of files is
what matters.  A blob of the store is absent, good or, after disk damage, bad; a
media file is a link into the store or a copy that is good, bad or cut short
(`"torn"`); `symlinks` says whether the file system has links.  Where it has none the
code copies a blob straight onto the final name, so the copy has a beginning
(`BeginCopy`) and an end (`EndCopy`), and a run that ends in between leaves it torn.  The
store has kinds, so bytes that come as a photo and as a video are stored twice.
`DumpTools` runs one offline command at a time, step by step, beside the sync and
with nothing that keeps them apart, as in the code.  materialize reads what a link
leads to (`ReadLink`), makes a `.tmp` beside it (`OpenCopy`) and renames it
(`ReplaceLink`), and the sync may remove the directory, make it anew and link in
between.  `Damage`, deletions and interruptions are bounded together by
`MaxMishaps`.  The docs leave what to do about a report to the user
(`audit.py:14`); `DeleteReported` and `ForceReported` are the reactions that work.
History variables: `harms` (what ever happened to the store), `damaged` (a damage
that overtakes a verify), `hollow` (recorded posts whose directory only looks
like a dump, see the conditions below).

**A file.**  `AtomicFile` names an inode after its creator and keeps, per inode,
what is cached and what survives a power cut; the directory is not fsynced, so a
power cut may undo the last rename.  Calls overlap freely; `alone[w]` remembers
whether another was under way during w.  `RecordedFile` adds the row that sqlite
commits durably after the file.

**The walks and the parsers.**  `TimelineWalk` has the platform's feed, newest
first, and its queue of posts that were written and are not served yet; `atStart`
is a history variable: what was written before the walk began.  `ListWalk` and
`HistoryWalk` give the platform each of the behaviours the code is written for,
since `docs/api-notes.md` leaves open which one is real: a list that goes on
behind the oldest entry served, or at a place, or ignores `loadOlder`; an index
that is exact, clamped or ignored.  `HistoryWalk` also does what `run_messages`
makes of the pages, because "boundary overlap is harmless" is a claim about both.
`ListWalk` says of the list which places are still to be served (`Rest`) and which
are on the page (`PagePlaces`); the ids of a page are a set, since the order on a
page makes no difference to the walk.
`SettlementsPage` and `ChildrenMenu` feed their parser, tag by tag, with the page
the template renders: the piece at `place` of the template of month `month`, or
piece `step` of anchor `at`.  `Drift` changes the next piece before it is read: an
element loses what the parser knows it by, a text is empty or cannot be parsed;
at most `MaxDrifts` pieces change.  Each text remembers which month or anchor it
belongs to, so that "mixed up" is a comparison.
`RateLimiter` lets a caller go when the lock is released (`Release`) and sends its
request later (`Dispatch`), as httpx may wait for a connection in between.

**Sessions.**  `LoginFlow` and `RedirectChain` let the server answer as it likes;
a cookie is numbered in the order of issue, so "latest" is a comparison.
`WebSession` runs one after the other: the page is asked for with the cookie the
login chose, and the platform accepts only the one it issued last.  `SyncCommand`
has sessions numbered as issued, of which the platform may drop any, but not the
last one (`MaxSessions`).  A request is refused because the session was dropped
(`RejectRequest`) or, with a valid one, because what is in front of the platform takes
the client for a robot (`BlockRequest`); the timeline cannot tell the two apart.

## 3. The runs

| run | what it shows | bounds |
|---|---|---|
| `messages_safety` | histories are prefixes, rows are backed, stamps cover, nothing is lost, `EveryPhaseIsSound` (the inductive part of the proofs), one directory each and no refused run unless interrupted, `ImplementsLedger` | 2 conversations of one recipient (exchangeable: symmetry), 2 days, 4 messages, at most 3 to a conversation, 2 interruptions, `--force` |
| `messages_live` | undisturbed runs complete the archive; forced runs repair it after an interruption and a deletion, but for conversations whose rows name one directory | 2 conversations of one recipient, one day, 2 messages each, 1 interruption, 1 deleted directory |
| `messages_wedge` | violation: re-runs refused after an interrupted append | 1 conversation, 1 interruption |
| `posts_sync` | recorded posts are complete, what is skipped is complete, no orphaned suffixes, `ImplementsLedger`, and runs complete the archive | 2 posts with one slug and a shared photo, 1 whose own slug is their first suffixed name; 2 interruptions or deletions, `--force` |
| `settlements_sync` | stamps are backed, downloads not forgotten unless forced, later runs repair, forced runs replace old invoices | 2 months, 2 bills, 3 changes of links, 1 interruption, 1 deletion, `--force` |
| `http_layer` | the three walks miss nothing they owe and end; a changed page is refused or costs what changed; at most two callers are let go within a gap | 4 posts, pages of 2, 3 retries; up to 6 conversations, 4 of them written to meanwhile, pages of 2; 7 messages, pages of 2; 2 cards; 2 children, 3 anchors; 2 changed pieces; 2 callers, gap 3, 14 ticks |
| `recorded_file` | the file is whole and a saved one is there unless calls overlapped; what a row claims survives | 3 calls, 2 chunks, 2 power cuts |
| `web_session` | no cookie is lost; the session of a login is the latest, an end of session is reported as such; login and command end | 5 redirects, as in the code |
| `web_stale_cookie` | violation: an older cookie wins on the longest chain | 5 redirects |
| `command` | exit code 0 means complete; 4 means that a login is needed or a timeline request was refused; who follows the advice gets a complete sync, unless session.json does not parse | all categories, 3 sessions, 2 failures or refusals that are not about the session |
| `dump_tools` | only real damage is ever seen, but for copies cut short in unfinished posts; a recorded post stays whole, a clean report is true, acting on reports heals the dump | a post with a video and a photo of the same bytes, 3 mishaps, with and without symlinks |
| `dump_copies` | violation: verify calls clean a dump with a bad copy | the same post, 1 mishap |

A `violation` run is a disagreement between the code and what its docs, comments
or tests say; `PROJECT.json` quotes the lines.

**Conditions in the properties.**  Several properties hold only of undisturbed
runs, short chains or untouched directories.  Each condition is there because
the code does not keep the plain form: with the condition dropped, or the
constant named set otherwise, TLC finds a counterexample.

| property, condition | what happens otherwise |
|---|---|
| `OneDirectoryEach`, no interruption | a forced run deletes the row first (`sync.py:329`) and keeps the directory name in memory; after an interruption a new name is derived, and the conversation has two directories |
| `RefusedOnlyIfInterrupted` | `messages_wedge` |
| `StampCoversHistory`, `MinGap = 1` | `last_update` has whole seconds: a second message of the same second is not noticed (`sync.py:319`) |
| `HistoriesArePrefixes`, `MaxDeletions = 0` (two conversations of one recipient) | the tail path trusts the recorded name: after a deletion another conversation may own it, and a tail is appended to a file of the same length (`messages.py:152`) |
| `ForcedRunsRepair`, no two rows naming one directory (`SharesDirectory`) | A's directory is deleted, B is given its name, and from then on forced runs keep the recorded name of both (`sync.py:352`, `messages.py:86`): each overwrites the other's dump for ever.  Only a run that is interrupted after it has cleared one of the rows, or clearing it by hand, parts them |
| `ArchiveCompletes` of messages, no deletion | only `last_update` is compared, so an unchanged conversation whose directory is gone is skipped (`sync.py:317`); `ForcedRunsRepair` is what remains |
| `RecordedIsComplete`, `NoOrphanedNames`, no deletion | a row outlives the directory it names; the next dump of another post may take the name |
| `NoOrphanedNames`, no interruption | a directory left without a post.json counts as somebody else's, and the post moves on to `-1` (`writer.py:210`) |
| `SkippedIsComplete`, `ArchiveCompletes` of posts: nothing deleted, or nothing interrupted and no other post can be given the name, with or without a suffix (`IsSafe`) | a post whose directory was deleted is dumped again with its row in place: interrupted, the partial dump is skipped; and if another post took the name meanwhile, its directory passes for the dump of both (`sync.py:134`) |
| `StampsAreBacked`, link not replaced | the row takes the new bill and keeps the stamp (`sync.py:524`, by intention); `ForcedRunsRefresh` says when the invoice follows |
| `HistoryIsNotErased`, month not forced | a forced month without a link loses its stamp (`sync.py:471`) |
| `AtMostTwoPerGap`, two rather than one | the time remembered is the one before the sleep, so after a sleep two callers are let go one after the other at once (`client.py:138`), where the docs promise one per gap.  The property is about leaving the limiter: requests let go may wait for a connection and reach the wire together, and no property forbids it |
| `QuietAreListed`, `loadOlder` honoured, and not overtaken by a whole page | every page after the first is the same request; a page of known ids ends the walk early (`messages.py:131`) |
| `HistoryHasNoGap`, a clamping platform not overtaken | a repeated page is counted twice, the next index lies past the end, and a message that arrives then is skipped (`messages.py:195`) |
| `HistoryHasNoGap`, no further than the first page where the platform ignores the index (`Reach`) | every request gets the first page; the second answer has no news and ends the walk well, so the history is cut short without a word (`messages.py:184-200`), and the row claims no more than that |
| `WalkCoversItsStart`, a feed that only grows | a post that is removed, archived or no longer sticky during a walk shifts the pages towards the front, and the walk may miss the post that moved onto a page it has already read (`timeline.py:159`) |
| `MonthsAreAsShown`, a card without its label after months that lost their cards (`Reaches`) | a label is kept until a card takes it or another label replaces it (`settlements.py:174`), so the month's amounts are filed under an earlier month; the months in between may have lost their labels too |
| `MonthsAreAsShown`, a card whose marker is gone | it is passed over in silence, although `settlements.py:306` says "never a partial dump"; a page without any card at all is read as empty |
| `FileIsWhole`, `SavedIsThere`, no overlapping calls | two processes share one `.tmp`, and the renamed file mixes both (`store.py:40`) |
| `ClaimSurvives`, or whole in the `.tmp` | the directory is not fsynced, so a power cut may put the content back into the `.tmp` (`writer.py:50`); the next write of that file empties it |
| `FreshSessionIsAccepted`, short chain | `web_stale_cookie` |
| `LoginRedirectIsExpiry`, short chain | a login redirect as the last response allowed is `redirect_loop`, exit code 5 (`children_shell.py:81`) |
| `LoginIsNeeded`, or a timeline request was refused | `timeline.py:114` and `:137` report any 401 or 403 as an expired session: a 403 of the bot management, with a valid session, gives exit code 4 and the advice to log in, where `docs/api-notes.md:92` has exit code 5 cover it.  For every other request the code keeps the plain form |
| `FollowingAdviceSuffices`, `--category all` | the messages report a rejected session as an HTTP error (`messages.py:110`), without the advice to log in |
| `FollowingAdviceSuffices`, not while `session.json` does not parse | the command ends with a configuration error, exit code 2, and no advice (`store.py:85-91`); `session_expiry.py:24-26` says a login does not fix it, although `save_session` would overwrite the file.  Until the user does that unasked, every command that needs the session fails |
| `SuccessIsComplete`, the documents excepted | they are skipped with a warning (`cli.py:459`): `--category documents` alone exits with 0 and has dumped nothing, where the docstring of `run_documents` has exit code 2 |
| `OnlyHarmIsSeen`, copies cut short only in unfinished posts | without symbolic links `shutil.copy2` writes straight onto the final name (`writer.py:306`): an interruption or a full disk leaves a truncated media file, until the post is dumped again.  `verify` looks at no copy, so it does not report it |
| `RecordedIsWhole`, not `hollow` | index brings back a directory that the user deletes between its scan and its write (`indexing.py:393`), and a run that ends while it fills a lost directory anew leaves the beginnings of one; with its row in place either counts as a dump (`sync.py:134`) |
| `CleanIsSound`, links only | `dump_copies` |
| `DumpHeals`, the user forces what dangles | a bad blob ends every run that needs it (`writer.py:266`), and once it is deleted the post's links dangle while its row says it is dumped |

One more that no property needs: a timeline page that stays unsettled ends the
walk with an error, while `api-notes.md:222` has it taken as settled.

**Why the bounds are enough.**  Items meet only through names and through the
store, so two conversations (or two posts) of one name show every collision, and
a third of that name adds only a higher suffix; `MaxSuffix` is above the number of directories
the interruptions and collisions can produce, so a resolution never fails for
want of a name.  A history of two or three messages has a first dump, a tail, and
a message that arrives during either.  Two interruptions allow one while the
damage of another is repaired.  The number of runs is not bounded.  The limits of
redirects are those of the code, because the hazard is at the limit.  The third post
of `posts_sync` has a slug that is a suffixed name of the first two, so a name can be
claimed from either side.  That a suffixed name of one conversation is the own name
of another recipient's is covered by the proofs only, which hold for any `Suffixed`;
the exemption of `ForcedRunsRepair` speaks of directories, not of recipients.  The clock of
`MessagesSync` has a tick for each of the four messages, so that messages of two
conversations interleave, a conversation can be updated twice, and the date prefix
can differ.  Six conversations on pages of two are three pages, so that activity
can hit a first, a middle and a last one, and four moved ones overtake a page.
Seven messages are three pages and a short one.  Two cards (three anchors) show
what one leaves to the next, and two changed pieces one on either side of the
border.  In `dump_tools` one post of two media that share their bytes has a blob
that is found and one that is stored, two kinds, and links that dangle for
different reasons; three mishaps are a damage, an interruption and a deletion.
The tools treat posts apart from each other; an instance with two posts that share
a photo and two mishaps has been checked for the invariants, too, and is too large
for a run with `DumpHeals`.

**Deadlock** is checked wherever the program can always go on (a new run).  It is
off for `HttpLayer`, where the clock of the rate limiter is bounded and a parser
comes to its end, and for `RecordedFile`, whose calls are bounded.

**Fairness.**  A started run goes on until it ends or is abandoned (`WF` on
`Process`: requests time out after `request_timeout_seconds`, so no step blocks
for ever), and the user starts runs again and again (`WF` on `StartRun`).  There
is no fairness on the platform, on people, on `Interrupt` or on deletions; all
of these are bounded, which is the "eventually" of "once people stop writing".
`ForcedRunsRepair` and `ForcedRunsRefresh` have their fairness as a hypothesis:
if the user forces everything again and again, then ...; a plain run in between
is allowed and, on a wedged conversation, refused.  In `PostsSync` a walk has
finitely many pages, so posts that are yielded twice do not keep it from its end
for ever (`SF` on the steps towards it).  `SyncCommand` has `SF` on a sync of
`--category all` (the user runs other categories in between) and on a login by a
user who has been told to log in: the advice comes again and again, not
continuously.  Only exit code 4 is followed by a login there (`LoginAsTold`), since only
it comes with that advice.  `HttpLayer` has `WF` on the requests of each walk, and none on the
platform.  In `DumpTools` processes go on (`WF` on `Sync` and `ToolStep`), and the
user runs verify again and again, deletes what it reports and forces what dangles,
each before asking for another report (`SF`, since syncs and other commands come
in between).

## 4. The proofs

Each `...Proofs` module extends its component, and its proofs are checked for
every value of the constants that satisfies the module's assumptions.  Except in
`AtomicFileProofs`, whose properties need no types, the type invariant is part of
what is proved, which the runs therefore do not repeat.  Every safety property of
the runs that pass is a theorem.

**`MessagesSyncProofs`.**  None of the properties is inductive: what a row claims
depends on what the process that wrote it had fetched, linked and been told.
The invariant is built in layers.

- `CountInv` (`TypeOK` and `CountsFit`) says that a job has fetched exactly the
  messages from where it started to its offset; it holds whatever is deleted.
- `DiskInv` adds `HistoriesArePrefixes`, `RowsAreBacked` and `JobIsSound`, which
  says, phase by phase, what is already in the target directory; it needs
  `MaxDeletions = 0`, because the code trusts recorded directory names.
- `StampInv` adds `StampsAreSound` and `StampCoversHistory`; it needs `MinGap = 1`
  as well.  (Section 3 says what happens without either.)
- `TargetIsChosen` and `UninterruptedIsSound` add what an interruption spoils:
  every directory of a conversation is named by its row or by the process that
  forgot the row, and a conversation has the messages its row counts.
  `OneDirectoryEach` and `RefusedOnlyIfInterrupted` follow; for the first the
  heart is that a conversation without a record has no directory, so the one it
  is given is its only one.

Each layer has one lemma per action.  `NothingIsEverLost` is an action property
from the second layer.  `RunImplementsLedger` is the refinement: with published =
the histories, stored = what lies in the directories, claimed = what rows count,
every action is a step of `DumpLedger` or leaves all three alone; that claims stay
within the store is `RowsAreBacked`.  All conjuncts are invariants of
`messages_safety` (`EveryPhaseIsSound` is the conjunction of those that are not
properties of their own).

**`PostsSyncProofs`.**  `RecordedIsComplete` needs to know what the process has in
hand: `JobShape` (which variables are set in which phase), `TargetShape` (what is
in the directory in each phase: empty after `MakeDirectory`, the media up to
`done` linked and stored while they are fetched) and, as long as no directory
was deleted, `TargetIsFree`, the heart: the post in hand has no row, and no row
names the directory it is written to.  It holds because a forced post loses its
row first, an unforced one is taken only without a dump, and a name is taken only
if it is free or its post.json names the post.  `SkippedIsComplete` has two
reasons, as its condition has: nothing deleted, or nothing interrupted and no
other post that can be given the name, by its own slug or by a suffix.  `NoOrphanedNames` carries on, per post, that the names
before its own are somebody else's, which an uninterrupted run keeps so.
`RunImplementsLedger` is proved without any condition: the mapping counts
a post with a row as stored once the user has deleted something.

**`SettlementsSyncProofs`.**  `LinksAgree` ties the links the page showed to those
the platform has now, through `replaced`; `PhaseIsSound` says what the month in
hand has on disk in each phase.  `HistoryStays` is an action property over the
same invariant.

**`AtomicFileProofs`.**  A call that is alone and under way has the `.tmp` for
itself and has written what it has counted (`AloneIsSound`), the two names never
lead to one inode (`NamesApart`), and what the target leads to after a call that
was alone was fsynced as a whole (`SavedIsSafe`; `FilesAreSettled` while no two
calls have overlapped).  `ClaimAlwaysSurvives` (`RecordedFile`) follows what the
last rename moved: a power cut can only put the same inode back under the `.tmp`,
and its content was synced before the rename.

**`HttpLayerProofs`** (from `PagesAssumption`: pages have entries, and the
settlements page a bounded number of months; and `NoneAssumption`: `None` is no
value).

- The limiter: `RememberedIsRecent`, the remembered time was read under the lock
  after the caller before had been let go.
- The timeline: `OwedIsAhead`, a shift moves what is owed to later places, never to
  earlier ones, and a first page is read only once the queue is empty.
- A history: `HistoryInv`.  The count recorded is the length on disk, and what the
  walk has fetched follows it without a gap; an exact platform serves on from the
  offset, a clamping one serves the last page again, one that ignores the index its
  first page, and the code takes the walk's end only from a page without news.
- The list: `ListInv`.  Under a cursor, what is owed is in the tail; by place, it is
  behind the places served, and what was yielded is within `shifts` places of them,
  so a page of known ids means the end as long as fewer than a page were shifted.
  `PageFrom` and `FrontOfList` say what a page and a move to the front do to places.
- The menu: `MenuInv` says, for each piece of an anchor, which texts the parser can
  have by then (`AnchorIsOwn`, `SpanIsOwn`, `SpansAreOwn`) and that it has them all
  if nothing of the anchor was lost (`IntactIsTaken`).
- The settlements page: `PageInv`.  The place in a month's template fixes the open
  div elements, and which contexts can be open and since which depth
  (`ContextsAreNested`): whatever the parser did not recognise, it is level with the
  template again at the end of each element.  So what is in hand is of the month
  being read (`TextsAreOwn`, `CellsAreOwn`, `CardIsOwn`), but for the pending label,
  of which is known which cards and labels it must have passed (`Carried`).
  `MonthIsAsShown` is the other half: as long as no piece of the month changed, the
  card is exactly what the template has shown so far (`SoFar`).  The proof has a
  lemma for each kind of piece.  The first statement of `MonthsAreNotMixed` did not
  survive it: it allowed a label to pass one card only, which the bounds of the run
  then could not tell from the truth; `Reaches` says how far a label really goes,
  and TLC agreed with 2 cards and 3 changes, 3 and 2, and 3 cards with 8 changes of
  labels, cards and items alone, before it was proved.

**`DumpToolsProofs`.**  `StoreInv`: a blob about to be linked is there (nobody
deletes under a running sync) and a copy is of what was there, whatever comes in
between.  `VerifyInv`: unless a damage overtakes it, verify has seen whatever is
wrong but for what it has still to look at; a sync under it only adds what is good.
`WholeInv`: the post in hand has the media files of the items done so far, the
number of each kind is that of its last file (`PostIsPart`), so a new file never
replaces one (`NumberIsNew`).  materialize may rename its copy over whatever has the
name by then, so the invariant is about names: whatever is on a media file's name, or
will be put there, is of the item of that name (`FilesAreItems`, `CopyIsItem`), and a
name has one item (`OneItemOfEachName`, from the injective numbering
`NamesDiffer`).  `TornIsInHand`: a torn file of the post in hand is the one being
copied, so a post that gets its row has none; every other torn file is in a post
without a row, or a hollow one, whose directory is removed before it is dumped.

**`WebSessionProofs`.**  `LoginIsSound` relates the cookies gathered in the loop to
those issued: below the limit the first to be found is the latest.  `PageIsSound`
does the same for the chain of the page, which starts with the session the login
left behind.  The two machines run one after the other, so a step of one leaves
the other's part unchanged.

**`SyncCommandProofs`.**  `Progress`: a command has a summary of every category it
is through with but the documents, and no request of it is refused before it ends.
An exit code names the kind of the failure (`CodesAre`), so exit code 4 comes from a
missing session, a dropped one, or a refusal of the timeline.

Only model-checked: liveness, since the prover has no fairness.

## 5. Abstractions to know

- `MessagesSync` takes the platform to keep messages in place (a removed one stays
  and is flagged), to serve a history oldest first from `startingIndex`, and to
  serve over a walk of the list every conversation that was there when it began.
  The first two are how `messages.json` is extended by index in the code;
  `ListWalk` and `HistoryWalk` say of which platforms the rest is true.
- Conversations without messages are not listed in `MessagesSync`.
- The order of attachments within a message does not matter to any property; one
  message's attachments are unlinked in one step and linked in another.
- In the sync modules a symlink and the copy made where symlinks are refused are
  the same link, and the store is never damaged; `DumpTree` tells them apart.  A copy
  that an interruption cuts short is, in `PostsSync`, a link not made: the dump it is
  part of is unfinished in the model as well.
- File systems either have symbolic links or do not; an `OSError` that makes one link
  of many a copy is left out.
- Copies get no fsync, neither `shutil.copy2` (`writer.py:306`) nor anything after it:
  a power cut that empties one after the post's row is not modelled.
- `AtomicFile.PowerCut` keeps the `.tmp`'s own directory entry, although the directory
  is never fsynced; common file systems do, POSIX does not promise it.
- A `.tmp` that an interrupted materialize leaves beside a link is forgotten: no
  command looks at it in a post's directory, and in a conversation's attachments the
  index, which is not modelled for them, would list it (`indexing.py:276-288`).
- `DumpTree` gives a post one directory.  A directory without post.json, which
  `resolve_post_dir` would leave behind under its name, is taken over there.
- The user deletes nothing from the store while a sync is running.
- A session file that is not UTF-8 ends `SyncCommand`'s loading in a traceback
  (`store.py:79-81` catches `OSError` only) and is left out.
- The timeline's feed only grows while it is walked (see `WalkCoversItsStart` above).
- In `SettlementsPage` a text parses as a month, an amount or a date or does not;
  the counts of a charge and the summary row of the table are left out.
- `SyncCommand` composes the categories by what they return, not by their states.

## 6. Not modelled, and what could follow

- Payload models (`models/timeline.py`, `messages.py`, `drive.py`, `children.py`):
  pydantic validates a payload as a whole; one that does not fit is the failed
  request of the walks.
- Configuration, paths, logging: read once, no behaviour.
- The manifest's opening and version gate: its schema is created with
  `IF NOT EXISTS` in one process, so a crash in between changes nothing.
- Two syncs of one child at once (`sync.py:113`): each would need a copy of every
  variable of a run, and the product is beyond TLC at the bounds the other
  properties need.  The hazard is listed without a property.
- The index's sections of conversations and settlements, and all rendering: no
  command reads them back.
- `walk_drive`: nothing calls it while `_DOCUMENTS_VERIFIED` is False.

Next: `HistoriesArePrefixes` with deletions but without name collisions; a
composition of `SyncCommand` with the categories' promises.
