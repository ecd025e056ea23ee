# Verification of Winterface

Winterface is a Freenet plugin that serves a web interface to a node from an
embedded Jetty server.  This directory holds TLA+ models of the parts of the
plugin, and of the scripts it serves, whose correctness depends on ordering,
concurrency or case analysis, the TLC configurations that check them on small instances, and TLAPS proofs of the
results that hold for every instance.  Paths below are relative to
`src/src/main/java/freenet/winterface/` unless they start with `src/` or with
`js/`, which is `src/src/main/resources/static/js/`.

## 1. Inventory

| Component | State | Operations | Interaction and what is hard |
|---|---|---|---|
| Plugin life cycle: `core/WinterfacePlugin.java`, `core/ServerManager.java`, `web/Plugins.java`, `freenet/PluginFreenetInterface.java` | `serverManager`, `server`, static thread name; in the node: plugin list, plugin threads; in the machine: listening addresses | `runPlugin`, `startServer`, `terminate`, `reload`, POST on the plugins page | The plugin thread blocks in `server.join()`. Each reload POST starts a thread of its own, the node's `killPlugin` comes at any time, and both stop the same server. Starts fail when an address is taken. |
| Configuration: `core/Configuration.java` | seven options | setters called by the node's configuration page, `initialize` | Server, filter and redirect string keep snapshots of options that change later. |
| IP filter: `core/IPFilter.java`, `core/IPUtils.java` | the allowed hosts as read at server start | `init`, `doFilter` | A blocked request is answered by error dispatch, which re-enters the servlets without the filter. |
| Routing and pages: `core/Routes.java`, `web/Root.java`, `web/InvalidKey.java`, `core/VelocityBase.java`, `web/Dashboard.java`, `web/VelocityTest.java` | the route table; one servlet object per page, shared by all requests | `getMatchFor`, `doGet`, `doPost`, redirects | Redirect chains through filter, error page and keys; whether a browser ever gets an answer. |
| Freesite fetching: `freenet/InteractiveHLSCFreenetURIFetcher.java`, used by `web/Root.java` | one bucket per result | `filteredFetchURI` | A Jetty thread waits for the network without a timeout; a bounded pool of such threads. |
| Request queue view: `core/QueueHelper.java` | lists per request class, MIME maps, sizes, priorities | constructor, `get`, `getList`, `getMap` | Overlapping bit flags, a classification with many exits, bidirectional maps that reject duplicates. |
| Request progress: `core/RequestProgress.java`, `core/RequestStatusUtil.java`, `core/RequestsUtil.java` | none | arithmetic on block counts | Division by zero, default compression states. |
| Bookmarks: `web/Bookmarks.java`, `freenet/BookmarkFreenetInterface.java` | the node's bookmark tree | edit, add, move, delete, re-add defaults | Items are named by paths that other requests make stale; store is not called by every edit. |
| Alerts: `web/Alerts.java`, `freenet/UserAlertManagerInterface.java` | the node's alert list | list, dismiss, highest class | The list is read twice while the node changes it. |
| Node interface: `freenet/NodeFreenetInterface.java` | none | version check, connection counts, getters | Opennet switched off between two reads; component-wise version comparison. |
| Darknet references: `core/PeerUtil.java` | none | split a reference list, add peers | Boundary handling of the `End` line. |
| Strings and constants: `core/I18n.java`, `core/Escaper.java`, `freenet/WinterfaceConstants.java` | string tables; a static map filled by every servlet | lookup | The static map is written and read without a lock. |
| In-place editing: `js/bootstrap-editable.js` (X-editable 1.4.5: `EditableForm`, `Popup`, `Inline`, `Editable`) | per element: value, options, container, form with its input and its flag `isSaving`, `delayedHide` | click, show, hide, submit, cancel, set a value, disable, enable, destroy; the answers of servers | Clicks elsewhere, scripts, animations and late answers meet a form that is saving; several elements close each other. |
| List inputs: the same file (`List`, `Select`) | per input: source, its list; in the document: a cache of lists with queues of callbacks | render a form, show a value as text, change the source | Inputs share one load; answers come late, with no list or not at all; the empty text. |
| Date picker and range: the same file (bootstrap-datepicker, `Date`) | date, view, what is painted, the input's text; the dates of a range | keys, clicks in three views, typing, limits, scripts | The ends of months and years, limits, a calendar painted before its date went away. |
| Other inputs: the same file | none | conversions of values | not modelled |
| Slider: `js/bootstrap-slider.js` | handles, values, tooltip | mouse, `setValue` | Two handles that meet, rounding at the limits. |
| Templates, page script: `src/src/main/resources/templates/`, `js/freenet-base.js`, minified jQuery and Bootstrap | none | Velocity markup; the script copies a menu once | not modelled |

X-editable, its date picker and the slider are other projects' code that this
repository keeps, changes nowhere visibly and serves under `/static/js`; no
template includes them yet (`index.vm` loads jQuery, Bootstrap and
`freenet-base.js`).  They are modelled because they are most of the code
that runs concurrently with users and servers here, and because pages that will
edit options and bookmarks in place would rest on them.

What makes each correct: at most one interface serves and a reload brings one
back (life cycle); a host outside the allowed list gets no page, and everyone
else's navigation ends with an answer (filter, routing); a request is counted
once and in the class the documentation of its flag names (queue view); an edit
touches the bookmark its page showed, and is stored (bookmarks); no page fails
because the node changed between two reads (alerts, connections); what a page
shows of a value is what was accepted last, and no form hangs or closes while it
saves (in-place editing); whoever needs a list gets it, whole and from the
source it has (list inputs); what is clicked, typed and shown is one date
(pickers); handles and values keep their limits (slider).

## 2. Plan

The order follows what hurts most when it goes wrong and is hardest to test:
first the threads that stop and replace the server, then what every request
goes through, then the views of the node's data, then pure arithmetic.

| # | Module | Uses or composes | Abstract specification | Checked by | Proved in | State |
|---|---|---|---|---|---|---|
| 1 | `Lifecycle` | node, Jetty and ports as environment | `WebService`: one interface at a time | `MCLifecycle`, 3 runs | `LifecycleProofs` | done |
| 2 | `QueueHelper` | node's statuses as environment | `DocumentedClass`, a reference classification | `MCQueueHelper`, 1 run | `QueueHelperProofs` | done |
| 3 | `Frontend` | configuration of hosts, filter, routes, Root, fetching; browsers and Jetty's pool as environment | `Gateway`: who may see which page | `MCFrontend`, 3 runs | `FrontendProofs` | done |
| 4 | `Bookmarks` | node's bookmark manager as environment | - | `MCBookmarks`, 1 run | `BookmarksProofs` | done |
| 5 | `Editable` | elements, containers and forms; users, scripts and servers as environment | `InPlaceEdit`: a value changes by what was accepted | `MCEditable`, 2 runs | `EditableProofs` | done |
| 6 | `ListSource` | inputs, elements and the document's cache; servers as environment | `TextsFor`, a reference reading of an answer | `MCListSource`, 1 run | `ListSourceProofs` | done |
| 7 | `Calendar`, `Datepicker` | `Datepicker` extends `Calendar` | `MonthsLater`, a reference move by months | `MCPickers`, 1 run | `PickersProofs` | done |
| 8 | `DateRange` | pickers, by their dates | - | `MCPickers` | `PickersProofs` | done |
| 9 | `Slider` | mouse and scripts as environment | - | `MCPickers` | `SliderProofs` | done |
| 10 | `Pickers` | composes 7, 8 and 9 on a page | - | `MCPickers` | `PickersProofs` | done |

Left for later: the browser whose page polls after a reload
(`plugins.vm`) as an actor of `Lifecycle`; the other options of `Configuration`
against the snapshots that server and redirect string keep; alerts and opennet
read twice while the node changes them; version comparison and progress
arithmetic as operators against reference definitions.

Every module is written so that it can be proved about: parameters are
CONSTANTs with named assumptions, one action stands for one step of a handler
between two points where another thread may come in, and there is no RECURSIVE
operator in a module with theorems or below one; recursion is by recursive
functions and folds.

## 3. Module `Lifecycle`

**What it models.** An instance is one `WinterfacePlugin` object.  The node
loads every instance with a class loader of its own, so the static fields are
per instance, and all instances compete for the same addresses.

| Variable | Code |
|---|---|
| `thread[i]` | the point `runPlugin` and `ServerManager.startServer` have reached |
| `server[i]` | `ServerManager.server`: `null`, or the state Jetty keeps of it |
| `opened[i]`, `bindFailed` | the connectors tried by `server.start()`, and whether one failed |
| `owner[h]` | who listens on an address of `bindTo` (the machine) |
| `listed` | the plugins the node lists (`PluginManager`) |
| `interrupted` | the plugin threads `killPlugin` has interrupted |
| `pc[a]`, `target[a]`, `found` | the point a reload thread or an unload has reached, its instance, whether `getPluginSpecification` returned one |
| `loads`, `early` | a bound's counter; a history variable |

The actions of the plugin thread (`RunPlugin`, `NewServer`, `BeginStart`,
`OpenConnector`, `StartReturns`, `StartThrows`, `JoinReturns`) are the pieces
of `runPlugin` and `startServer` between which another thread can come in.
`server.start()` is split per connector because a second instance may take an
address in between; a failed `start()` leaves the connectors that opened open,
as Jetty does, and `startServer` only logs the exception.  A reload is
`PostReload` (the thread `Plugins.doPost` starts), `LookupSpecification`,
`terminate()`, then `LoadReplacement`, `LoadFails` or `NullSpecification`
(`startPluginAuto` with a file name, without success, with `null`), then
`FindOldPlugin` and `killPlugin`, which calls `terminate()` again.
`terminate()` is shared by reloads and unloads: `TerminateNothing`,
`ServerStop`, `StopIdle`, `ServerJoin`.  `Server.stop()` waits while a `start()`
is under way, because Jetty holds its lifecycle lock in both; `join()` waits
for the thread pool, which runs from `start()` to `stop()`.

**`WebService`** is what that amounts to for a browser: instances come up one
at a time, each at most once.  The refinement maps `server` to three phases.

| Run | Shows |
|---|---|
| `lifecycle_safety` | Two reload threads, an unload and two loads by a user, three instances, two addresses, loads that may fail. At most one server serves; a reload loads its replacement only when the old server has let go of every address; a server outlives its plugin thread only when it was terminated before its start; a reload that loads nothing came second to a reload or unload of the same instance; `WebService` is implemented. |
| `lifecycle_live` | With one address: a reload leads to another instance that serves; a reload thread always ends, and an unload ends unless it came before the start (`ThreadsEnd`). |
| `lifecycle_two_hosts` (violated) | With two addresses, two POSTs in a row can leave nothing serving: the two replacements take one address each, both starts fail, and the connectors that opened stay open. `plugins.vm:3` tells the user that the interface will come back. |

`OrphanOnlyIfEarly` names the exception it allows: an instance unloaded before
`server.start()` starts all the same, and serves without being listed.  Its
reload finds no specification, stops the server, and `startPluginAuto(null)`
throws: nothing serves again (`core/WinterfacePlugin.java:159`).

**Bounds.** Three instances are one that serves and one replacement for each of
two reloads, or two loads by a user and a replacement; the properties relate
two instances at most.  Two reloads and one unload give every pair of
concurrent terminations.  Two addresses are needed for a start that fails
halfway; one is kept for liveness, because with two the property is false (the
run above).  Where liveness is checked symmetry is unsound, and the constraint
`InOrder` names the instances in the order of their creation instead: which
unborn instance stands for the next object makes no difference, so it removes
only renamed behaviours.

**Fairness.** Weak fairness of each plugin thread, each reload thread and each
termination: started threads run, `sleep` ends, `stop()` returns.  `killPlugin`
waits at most 60 s for the plugin thread, so its steps end as well.  Users owe
nothing.  That a load succeeds is not fairness: `lifecycle_live` excludes
failing loads by a constant, since a reload cannot bring back a plugin whose
file is gone.  `ReloadRestores` is conditional on no unload being under way and
on the instance not having been terminated early, which `lifecycle_two_hosts`
and the orphans above show to be necessary.

**Proved** (`LifecycleProofs`, for any sets of instances, addresses, reloads and
unloads, any list of addresses with repetitions, from the named assumptions of
the module): `TypeCorrect`, `ServingExclusive`, `ReplacementAfterRelease`,
`OrphansAreEarly`, `ReloadsAreClaimed`, `ServiceImplemented`.  None of the
properties is inductive by itself.  `AtMostOneServing` needs `OwnerInv`: a
server none of whose connectors has failed owns every address it has tried, so
two that serve would own the same first address; and `OwnerInv` needs
`ThreadInv`, which ties where the thread is to what the server can be.
`OldPortsFreed` needs `ReloadInv` (after its own `terminate()` the server of a
reload's target is stopped, and stays so) and the second half of `OwnerInv`.
`OrphanOnlyIfEarly` needs what `killPlugin` guarantees before it interrupts
(`OrphanInv`), and `NoReloadLost` needs `ClaimInv`: an instance is stopped or
off the list only once some unload, or some reload with a specification, has
claimed it.  The theorem `ServiceImplemented` maps each step to a step of
`WebService` or a stutter under the same invariant.  Liveness is only
model-checked.

## 4. Module `QueueHelper`

**What it models.** The constructor of `QueueHelper`.  A queue
class is an `int` with two bits set; here it is the set of its bits, so
`(base & target) == target` is inclusion, a request for several classes is a
union, and the meta flag `DL` is contained in every class of its family.
`entries` stands for all the lists and MIME maps (one triple
of class, MIME type and request per element), `queueSize`,
`lowestQueuedPriority` and the two sizes are the fields, `todo` is what the
loop has left of the request array.  The loop's three checks are
`DownloadSucceeded`, `DownloadFailed`, `DownloadRunning`, `UploadSucceeded`,
`UploadFailed`, `UploadRunning` and `Skip`, each with the additions to lists,
sizes and priority that its branch makes.  `checkIfUploadDesired` and
`checkIfUploadDirDesired` are the same code for two kinds of request.

The status objects belong to the node.  `hasSucceeded()` and `hasFinished()`
are two calls, so a request can finish in between: `NotSucceeded` is the state
between the two, and `NodeFinishes` the node's update.  What else the branches
read is read once.  The order of the request array is any.

| Run | Shows |
|---|---|
| `queue_filing` | Two requests of every status, asked for under every combination of two classes and the families' meta flags, which the node finishes meanwhile. No request is filed twice (two equal values would make `ImmutableBiMap.copyOf` throw); a caller who asks for failed downloads, among others, gets every request that was left alone exactly where its flag says, completed downloads to disk excepted; no unfinished request in the result is below the lowest priority. |

`FiledAsDocumented` leaves out two cases, in which the code does not what the
comments on its flags say: a completed download to disk is filed as one to temp
space, because both branches on `toTempSpace()` add to the same list
(`QueueHelper.java:218`); and who asks for uncompleted but not for failed
downloads gets failed ones as uncompleted, because the condition joins
`hasFinished()` and `isDesired(DL_F)` (`:220`).  The getters only merge what the
constructor filed and are not modelled; one of them, `get(DL_F_U_MIME)`, reads
the map of bad MIME types (`:531`).

Two more divergences between code and comment were met: the
lowest priority is taken from running requests of the asked family whether or
not their class is desired (code `:244`, comment `:560`, "lowest found queued
priority from all desired"), and the total sizes count them too (code `:287`,
comment `:264`, "size ... if desired, otherwise 0").

**Bounds.** Each property speaks of one request or compares two, hence two
requests.  Statuses: every kind, state, failure code and MIME type, two
priorities and the two sizes that matter (unknown, which the node gives as -1,
and known).

**Proved** (`QueueHelperProofs`, for any finite set of requests, any statuses
with integer sizes, any combinations of bits): `QueueTypes` (the sums stay
natural numbers because unknown sizes are left out), `QueueSizeIsCount` (the
size counts what is filed, which no run checks),
`ListsAreDisjoint`, `FiledWhereDocumented`, `LowestPriority`.  The invariant adds that what is
filed is not in `todo` any more (`FreshInv`, without which an addition could
be a repetition), that there are finitely many entries, that a request being
read has not succeeded unless the node finished it since (`ReadingInv`), and
`FiledAsDocumented` for the requests the loop has passed (`DocumentedInv`).
`LowestIsLowest` is inductive together with `IInv`: a request is listed as
unfinished in the step that takes its priority, and a priority never changes.

## 5. Module `Frontend`

**What it models.** A navigation is what a browser does for one click: a
request, and as long as the answers are redirects, a request for the new
address.  `phase[q]` is where the current request is: waiting for a thread,
in `IPFilter.doFilter`, in its servlet, in error dispatch, waiting for the
node in `filteredFetchURI`, copying a result, answered and on a kept-alive
connection.

| Variable | Code |
|---|---|
| `allowedHosts`, `filterHosts` | the option, and the copy `IPFilter.init` takes at a server start |
| `at`, `modal` | the request's path, and the key of the "Visit Freesite" dialog |
| `hops` | the redirects the browser has followed |
| `open`, `queue`, `old` | connections; those waiting for a thread of Jetty's pool; threads that outlived their server |
| `buckets` | results of fetches, which `Root` must free |
| `latest` | the newest edition of a key, at the node |

An address is its first segment, whether more follows, and an edition: that is
all that the servlet mapping (`Routes`), the white list and `Root` tell apart.
`FilterPasses` and `FilterBlocks` are `doFilter`; `ErrorDispatch` is the
configured 403 and 404 page `/error`, which has no servlet but `Root`, and to
which Jetty dispatches without the filter, with the request's method and
parameters: `Root` redirects a POST of the dialog to its key (`Root.java:34`)
and everything else to `/invalidkey`, and the request after the redirect is
filtered again.  The `Root...` actions are its `doGet`
and `doPost`; `FetchSucceeds`, `FetchFindsNewer`, `FetchFails` the outcomes of
a fetch and the branches on them; `CopyResult` the copying, whose failure is
caught before the bucket is freed.
`Restart` is a server stop and start: connections close, a thread waiting for
the node goes on without one.

**`Gateway`** states the promise: a page is shown for an address only if the
address leads to it (`Landing`), and, but for static files, only to hosts
allowed when the server started.  The refinement hides threads, redirects,
fetches and the queue.

| Run | Shows |
|---|---|
| `frontend_safety` | Two navigations of any hosts share one thread while the option changes, the server restarts and browsers go away. A blocked host has no page made and no key fetched by whatever redirects and error pages it gets there; a bucket is held exactly by the thread that will free it; no connection waits twice; no allowed host is sent in circles; `Gateway` is implemented. |
| `frontend_answers` | With one thread for two navigations to addresses of every kind, one perhaps of a blocked host that is redirected on and on, an allowed host gets an answer. |
| `frontend_loop` (violated) | A blocked host never sees the error page: `Root` answers `/error` with a redirect to `/invalidkey`, which is not on the white list and is blocked again, until the browser gives up. `IPFilter.java:37` says that the error page "should be accessible and not filtered". |

A divergence without a run: `IPUtils.isValid` accepts what the resolver can
find, host names included (code `:86`, comment `:73`, "valid IPv4 or IPv6"),
and such entries never match.  The model has them (`Names`), and the list that
holds nothing else lets nobody in.

**Bounds.** Two navigations and one thread are the smallest contention.
`MaxEdition` 1 gives a key one newer edition.  `MaxHops` 4 is above the longest
chain of an allowed host, `MaxEdition + 2`, which `OnlyBlockedLoop` checks, so
that a browser gives up only where it would go on for ever; browsers follow
about twenty.  One restart lets the list change once, from any of three lists to
any other; that `Gateway` is implemented for every address, list and number of
restarts is proved.

**Fairness.** Threads run (`Accept`, `Handle`), Jetty hands connections to
threads in the order of their arrival, and the node ends every fetch because
it limits retries.  A kept-alive connection holds its thread until the
connector's idle timeout (`IdleTimeout`, `ServerManager.java:74`).  Users,
publishers and the owner of the node owe nothing, and a user who closes a page
ends the obligation.

**Proved** (`FrontendProofs`, for any hosts, navigations, lists, number of
threads and restarts, newest edition and limit of redirects, from the named
assumptions of the module): `FrontendTypes`, `BlockedStayOutside`,
`EveryBucketFreed`, `ThreadsAreApart`, `RedirectsEnd`, `GatewayImplemented`.
A lemma, `HandlerForms`, sorts the handlers by how they end: with a redirect to
an address that `LeadsTo` names, with a page, or by going on; what follows
speaks of these three.  `OneThreadEach` and `BucketsFreed` need each other's
neighbourhood: the thread `Accept` starts must not be one that holds a bucket,
which is so because a waiting connection is in phase `sent`, and a thread that
outlived its server is fetching or copying and nothing else (`OldInv`).
`BlockedGetsNothing` needs to know what a blocked host can be at: only keys are
fetched (`FetchInv`), an open navigation is at some request (`OpenInv`), and
what is answered by the error page is blocked or a missing file (`ErrorInv`).
That a blocked POST goes on to the key of its dialog changes nothing here: the
key's request meets the filter before it can be fetched.
`OnlyBlockedLoop` needs a count per kind of address (`HopsLeft`): at a key with
edition e no more than e + 1 redirects have been followed, at anything else
that is redirected no more than one, and each redirect keeps that true
(`RedirectCloser`).  The refinement needs `LandingInv`: an open navigation is
at the address asked for or one it may land on, or it is a blocked host's at
the error page, which gets no answer there.  `AllowedGetsAnswer`, which needs
fairness, is only model-checked.

## 6. Module `Bookmarks`

**What it models.** `web/Bookmarks.java` answers a request in a thread of the
web server; it names a bookmark by the path its page showed and calls the
node's bookmark manager (`BookmarkFreenetInterface`).  `memory` is what the
manager has, `disk` what it has stored; `request`, `pc`, `found` and `renamed`
are a request, the point it has reached, and the bookmarks it looked up and
renamed.  One action is one call to the manager, because other threads come in
between: `AddDefaults` is `reAddDefaultBookmarks`, whose button comes first in a
POST that then goes on with its action (`:69`); `EditLookup`, `EditRename` (or `EditFails`) and `EditUpdate` are
`editBookmark`, which looks the same path up twice; `Add`, `Delete` and `Move`
are the other edits, `Store` is `storeBookmarks` with the
redirect, `Refuse` the error page for a key that cannot be read, `GetUnread`
the path that `doGet` cannot decode and goes on with.  `Crash` restarts the node
with what is on the disk.  The manager is outside the repository and modelled
from its use (external in the map); categories count as bookmarks without
contents.

| Run | Shows |
|---|---|
| `bookmarks` | Three requests of every kind for two bookmarks, with or without the button of the defaults, from pages made before any of them, and a crash. Who is sent back to the editor has the change of the action on the disk; who sees an error page has changed nothing by it (`AnswersTrue`). An edit changes the contents of the bookmark it renames, and that is the one its page showed, unless another request came between the two look-ups or took the path (`EditsWhatWasShown`). |

`AnswersTrue` names what it allows: re-added defaults are stored only by what is
stored after them, so a POST that does nothing else sends its user back to the
editor without them on the disk (`:69`); and a POST that re-adds them and then
cannot read a key or a path shows the error page after memory has changed.
`EditsWhatWasShown` excuses edits that another request raced and paths that
another took: there the code edits what is at the path now, or two bookmarks in
one edit.

**Bounds.** Two requests race, the third has stored or taken a path before; two
bookmarks are one that is edited and one whose path is taken.

**Proved** (`BookmarksProofs`, for any requests, bookmarks, paths and crashes):
`TypeCorrect`, `AnswersAreTrue`, `ShownIsEdited`.  The invariant adds that a request which has
not renamed has changed nothing (`Early`), that what was looked up is still at
the path unless another request changed something since (`StillFound`), and
that every path in memory and on the disk is one of the beginning or one that a
request has given (`PathsKnown`), for the disk because a crash brings it back.
`TypeCorrect` has in it that the order holds no bookmark twice, in memory or on
the disk: a bookmark is taken out at its position and put back at another, and
lemmas about these two operations show that what is left stays without
repetitions if the list was, as the initial list is assumed to be.

## 7. Module `Editable`

**What it models.** JavaScript runs one event at a time, so an action is an
event with every handler it reaches; what interleaves is users, scripts of the
page, animations and answers.

| Variable | Code |
|---|---|
| `value`, `disabled` | `Editable.value`, `options.disabled` |
| `view`, `delayedHide` | the container: closed, open, fading out, destroyed; `Popup.delayedHide` |
| `shows`, `stage`, `formValue`, `isSaving` | the newest form: its number, what it shows, `EditableForm.value`, `EditableForm.isSaving` |
| `typed`, `touched`, `loaded`, `older` | the input and whether the user changed it; for a list whether it is there, and the value of an older form that waits for it |
| `requests`, `sends` | requests to servers; a bound's counter |
| `hasty`, `left` | history: forms submitted while they faded out; the browser left the page |

`Event(H, submit, new)` is what most events come to: the containers `H` hide,
the forms `submit` are submitted, and those of `new` open.  `Click`,
`ClickOutside`, `Escape`, `Cancel`, `Submit`, `Show`, `Hide` and `Disable` are
events with the sets that `Popup.closeOthers` and each element's option `onblur`
make of them.  `Show` is `show` and `toggle` with their parameter `closeAll`:
with `false` a script leaves the others open, which the history variable
`beside` tells until a click or the escape key, or a `show` that closes all.
`hide` puts off what is saving; `save`, `render`, `Refused`,
`Unchanged` and `Saved` are the handlers by these names or their branches.
`Accepted` and `NotAccepted` are an answer with the form's callbacks, the
container's and the element's `save`, and the hide that waited; `SourceReady`
and `SourceFails` are the load of a list that a form waits for, which
`ListSource` models in detail.  jQuery removes the handlers of a form that
another replaces, or that was inline and has faded out (`Heard`): its answer
reaches nobody.

**`InPlaceEdit`** states the promise for one element: its value changes only to
what was submitted and accepted, one submission at a time, or by a script; a
form that saves stays until its answer is there.  The refinement takes the
container's `open` for the abstract form and the newest form's request for the
submission.  `EditStep` lets the abstract `SetValue` stand only for a script's
`SetValue`, so that no answer can change the value on its own.  It is stated for elements that are `Calm`: a click outside does
not submit, and nobody submits a form on its way out.  Both are real
exceptions.  With `onblur` = `submit` a click outside submits a form that is
saving once more (`js/bootstrap-editable.js:1240`), and the first answer clears
the flag of both; a form submitted as it fades out may be answered after
another has replaced it, and then the server has the new value and the page the
old one.  No property covers these two; `PROJECT.json` lists them as hazards.

| Run | Shows |
|---|---|
| `editable_one` | One element with every combination of options, three values (one refused, one that the server may change), three shows and two requests. `isSaving` is true to what was sent (`SavingWaits`); a form has its element's value and shows it until the user types (`FormFollowsElement`); `InPlaceEdit` is implemented; a hide that was put off comes about and a loading image ends (`FormSettles`). |
| `editable_pair` | Two elements whose containers close each other while they save. A hide is put off only for a form whose answer will run it (`DelayedOnlySaving`); no two containers that a click elsewhere cancels are open, unless a script has shown one beside another since the last click or escape (`OneEditing`). |

**Bounds.** Three shows are a form that saves, one that replaces it, and one
after; two requests are the double submission.  Two elements suffice for
properties that relate two.

**Fairness.** Each request is answered or fails, and each list that is asked for
as well: browsers report a connection that breaks.  Users and scripts owe
nothing.

**Proved** (`EditableProofs`, for any elements, values, options and bounds):
`TypeCorrect`, `SavingFormWaits`, `DelayedHideHasAnswer`, `OneElementEdited`,
`FormHasElementsValue`, `EditsInPlace`.  The properties are inductive only
together and with `Staged`: which stages a form can be in while it has a
request, and that a form is loading only where values are sent and, while it
can be seen, after the user typed.  `EditsInPlace` uses the same invariant to
map each event to a step of `InPlaceEdit` or a stutter.  `FormSettles` needs
fairness and is only model-checked.

**Left out.** `savenochange`, `autosubmit`, `toggle` other than `click`,
highlighting and marks for unsaved values, live selectors, `success` callbacks
of values that are not sent, an element that is made editable again after
`destroy`, popovers that the script of Bootstrap moves.

## 8. Module `ListSource`

**What it models.** `List.onSourceReady` is called for a form (`Render`) and to
show the text of a value (`SetValue`).  A call finds the list at its input
(`AlreadyThere`), in the page (`FromPage`), in the document's cache
(`FromCache`), joins the queue of a load under way (`JoinQueue`), or asks the
server (`AskServer`); an answer (`Answered`, `Failed`) calls back the queue in
order and then the one that asked.  `makeArray` reads the forms of an answer
apart, `doPrepend` puts the option's item before each input's own copy (`Taken`: once,
but twice if another call of the input that asked the server is in the queue:
its callback takes the list and prepends, and then the input's own answer
prepends again, `js/bootstrap-editable.js:2562`), and `itemsByValue` finds a text, also in groups.  `cache` is `$(document).data` with
its queues, `sourceData` each input's list, `shown`, `isEmpty` and `disabled`
what the element says: `handleEmpty` has an element without a text say that it
is empty as long as it is enabled.  `waiting`, `overtaken`, `failed` and
`switched` are history.

| Run | Shows |
|---|---|
| `sources` | Two inputs, with their own lists, uncached or with a function as source, a url that may hold a list, no list or no answer, and a list in the page; three calls, one change. Every call waits in exactly one place (`NoCallLost`) and is called back (`CalledBack`); each input's list is its source's, has what is prepended once, or twice as `Taken` says, and exactly the texts of the answer (`ListsIntact`); an element shows its value when nothing is under way, is never blank while it is enabled, and says that it is empty while it is disabled only after a load failed (`ShowsValue`). |

The exceptions in `ShowsValue` and `ListsIntact` are what the code does: two
values set while a load is under way may be shown in the wrong order when the
first asked the server itself (`:2560`); the item prepended is there twice for
an input that asked the server while another of its calls waited in the queue
(`:2562`); a source that changes during a load
still gets the old list (`:2684`); and an element that says that it is empty
when its load fails is taken to have that as its text (`:1699`).

**Bounds.** Three calls are one that asks, one that joins and one after; one
change is a source that changes meanwhile, a value that goes, or a switch
between enabled and disabled, in each state of the load.  A list, a list with a
group and keys, and a string that is no list are the forms that `makeArray`
tells apart.

**Fairness.** Each request is answered or fails.

**Proved** (`ListSourceProofs`, for any inputs, sources, answers, values, texts
and number of calls, from the named assumptions of the module): `ListsTyped`,
`NoneIsLost`, `ListsStayIntact`, `ShowsItsValue`.  The invariant is

- `Places`, which is `NoCallLost` without counting: two requests that fill the
  cache have different urls, a url is loading exactly while there is one, and no
  call is in two requests, two positions of queues, or one of each.  That each
  call is in exactly one place, as `NoCallLost` counts it, follows because the
  requests and the positions of the queues are finitely many.
- `Origin`: every list in the cache is `makeArray` of an answer of its url, and
  every list of an input is such a list with its own item put before it.  What
  is prepended is put into a copy, so that the two stay apart; `ListsIntact`
  follows by what `itemsByValue` finds in a list made like this.
- `Expected`: as long as an input's source has not changed, its calls wait for
  that source; without this a list that arrives could be of another.
- `Says`: what a disabled and an enabled element says when it has no text.
- `WillShow`: unless two values were set at once outside one queue, what is shown
  of an element last is its value: either nothing is to be shown, or there is
  one call, or all are in one queue and the last of them has the value.  Here the
  order of a queue matters, and that an answer calls back the queue first.

Choosing the first item with a value (`itemsByValue`) and the last call of a
queue needs that a set of numbers has a least element, which is proved from the
library's theorem that `<` on the natural numbers is well-founded.  `CalledBack`
needs fairness and is only model-checked.

**Left out.** Groups in groups, the object form of a list (`{value: text}`,
which `makeArray` reads in the order of the browser), `prepend` that changes,
sources that are
functions of more than their url.

## 9. Modules `Calendar`, `Datepicker`, `DateRange` and `Pickers`

**What they model.** `Calendar` has a day as the number of days since the first
of year 1, what `Date` of the browser does with it, and the date picker's own
arithmetic: `moveMonth`, which steps back into a month that does not have the
date, `formatDate`, and `parseDate` of a date, of a relative text such as `+1m -1d`,
and of a text some of whose parts are no numbers, which keeps the present day's
(`:5605`).  `Datepicker` is a picker: of a text input, which keys and texts
reach, or in the page, as the form of an editable date has it.  `date`,
`viewDate`, `viewMode` and `limits` are the fields by these names, `text` and
`typed` the input, `shown` the month that the view of days was last painted
with, which is what a click goes by.  While there is no date, painting
makes the months anew and then fails at the date that is not there
(`js/bootstrap-editable.js:4899`), so that no month is disabled: `unmarked`
says that the last painting failed.  Each key, click and call is an action
with all that it updates and repaints, or does not: `Give` is `update` with a
date, `SetDate` is `setDate` and `setUTCDate`, which neither move the view nor
paint (`:4778`), `SetLimits` the start, the end and the disabled weekdays,
`SetRange` the painting that `setRange` does.  `DateRange` is a row of pickers, by
their dates alone: `dateUpdated` moves the others along, compared with the dates
that the range remembers (`dates`), of which typed dates are not told
(`untold`).  `Pickers` is a page with a picker, a range and a slider.

| Run | Shows |
|---|---|
| `pickers` | For six sets of options, any four events from dates at the ends of months and years; a range of three dates; sliders (below). The text is the date, and a text with year, month and date reads as the same on any day (`TextIsDate`); a click chooses an enabled day and a key one within limits (`ChosenAllowed`) and the day that the cell shows (`PickedIsShown`); months are moved to the same date or the last there is (`MovesWholeMonths`); a choice in a range moves only what it comes past (`MovesOnlyPast`). |

`ChosenAllowed` lets a month or a year that is chosen be its first day, which
may be before the start date (`:5131`).  It and `PickedIsShown` exclude what is
clicked after a painting that failed because the form's link had cleared the
date (`unmarked`): until the calendar is painted again, a click takes the day
from the old page and the month from the new, and a month past the limits can
be clicked (`:4899`).  A date given by `setDate` meanwhile does not end that.
`TextIsDate` says nothing of other days for texts that name no day by
themselves: relative ones, and those with parts that are no numbers or missing
altogether (`Junk`, `Blank`), are read against the present day, or not at all.

**Bounds.** Four events reach every view and come back; the dates are 29 and 31
of months around a leap year's February and a new year; `Cells` are those of
the month before, the month, and the month after; `Window`, ten years
to each side, cuts off a second turn of the view of years in one direction.

**Proved** (`PickersProofs`, for any options, limits, texts and given dates, any
bounds, and a range of any length): `TextStaysDate`, `ChoicesAllowed`,
`MovesByMonths`, `ClickPicksShown`, `OrderedDates`, and, for the page that
composes the three widgets, `PageTypeCorrect`, `PageMovesOnlyPast`,
`SliderInBounds`.  The assumptions are named in `Datepicker` and `Pickers`;
the one that restricts is that days are of the year 101 or later, because
`Date.UTC` takes years below 100 for years of the 20th century.

The argument begins with the calendar, in three layers of lemmas.

- A year has 365 days or 366 (`YearLength`), years and months do not overlap
  (`YearsGrow`, `MonthsGrow`), and every day has a year (`YearExists`, as a
  least number).  So the `CHOOSE`s of `YearOf` and `MonthOf` find the year and
  month that a day was made of (`RoundTrip`), and every day is made of some
  (`DayParts`).
- The months of all years form one row, in which a date of a month is an offset
  (`InRow`, `DayInRow`, `MonthFollows`).  What the setters of `Date` do is an
  addition in this row (`Setters`), and a date that a month does not have is one
  of the next month, which has 31 days and is of the same year (`Overflow`).
- Hence stepping back ends on the last date of the month (`ResetIs`), moving by
  any number of months is `MonthsLater` (`MonthMoves`), `parseDate` yields the
  same day whatever the present day is if the text has a year, a month and a date
  (`ParsedIs`), and undoes `formatDate`
  (`Rewritten`).

The inductive invariant of the picker then adds `Painted` to the properties: an
input always has a date, and unless the last painting failed, the month painted
is that of the view.  Without it `PickedIsShown` and the
part of `ChosenAllowed` about months are not inductive, since a click goes by
what was painted.  `RangeOrdered` is inductive with types; that the dates stay
in order is that `Along` takes everything between the date and the first that
need not move.  On the page each step is one of a widget and leaves the
variables of the others alone, so the invariants are kept together.

What `relativeDate`, a fold over the parts of a text, computes is only
model-checked; the proofs use no more than that it is read as one date.

**Left out.** A picker with a button, `beforeShowDay`, which days `setRange`
marks, `remove`, week numbers, names of months, formats without year, month or date.

## 10. Module `Slider`

**What it models.** `mousedown`, `mousemove`, `mouseup`, the tooltip and
`setValue`, with one handle or two.  Places are kept in percent by the code and
exactly here, so that rounding of percentages is left out and rounding to steps
is not.  Touch events, which have the same handlers,
and the options of the tooltip are left out.  The run `pickers` checks it with a step that divides the range and one
that does not, the mouse up to a unit outside the track: handles stay on the
track and values in their limits, but for half a step past a maximum that the
step does not reach (`InBounds`; `js/bootstrap-slider.js:306`).

**Proved** (`SliderProofs`, for any scales with a positive step): `ValuesInBounds`,
`MovingOrders` (moving the mouse leaves two handles in order, wherever a script
put them; a press may cross them only from one place), `TooltipThere`.  The
invariant is that of `InBounds` for both values, whatever is dragged, and that a
rounded place stays on the track rests on a lemma about rounding.

`SliderInBounds` says the same of the slider on the page of `Pickers`, from the
lemmas about a step here.

The three widgets share nothing; `MCPickers` lets one of them move while the
others rest, so that one run checks all.

## 11. Limits

Only model-checked: every property about time to come (`ReloadRestores`,
`ThreadsEnd`, `AllowedGetsAnswer`, `FormSettles`, `CalledBack`), since the proof
system handles neither fairness nor ENABLED; the violated properties, which TLC
refutes.  What a recursive computation yields for every input (`relativeDate`,
a fold over the parts of a text) is out of the prover's reach, because its
induction theorems need an operator as a parameter.

Modelled from their use, not from their code, and marked external in the map:
the node's `PluginManager`, its request statuses, fetches and bookmark manager,
Jetty's lifecycle, connectors and thread pool, browsers with their `Date`, and
jQuery.

**Not modelled.** Request progress and status names (arithmetic on one status),
alerts and the node interface (getters), darknet references (parsing that
nothing calls), string tables and escaping, templates and `freenet-base.js`
(markup), the conversions of the other inputs, and of the configuration all
options but the allowed hosts.  Those of their hazards that would
need more than arithmetic are listed in `PROJECT.json` with the line where each
bites.  The inputs select2, wysihtml5
and combodate of X-editable drive libraries that the repository does not hold.

Wall-clock races are not modelled: a sleep or a timeout is a step that may come
at any time.

## 12. Running

Each `X.cfg` belongs to the MC module its name begins with, and `Pickers.cfg` to
`MCPickers`, `ListSource.cfg` to `MCListSource`:

    tlc -config LifecycleSafety.cfg MCLifecycle
    tlapm LifecycleProofs.tla

A run takes from seconds to about two minutes.  Deadlock is checked in
`Frontend`; elsewhere the system really may stop: all requests have been made
and all threads ended, the constructor has ended, the browser has left the
page, every call has been answered, or a bound on steps is reached.

## 13. Findings

Each is a run that TLC ends with a counterexample.

1. Two reloads in a row of an interface bound to two addresses can leave none
   (`lifecycle_two_hosts`; `web/Plugins.java:27`, `core/ServerManager.java:109`).
2. A blocked host is redirected in circles instead of seeing the error page
   (`frontend_loop`; `core/IPFilter.java:54`).

Also met, as exceptions that the properties name: an instance unloaded before
its server starts leaves a server that the node does not list (section 3);
completed downloads to disk, failed downloads listed as uncompleted and the
comments on priority and sizes in `QueueHelper` (section 4); re-added default
bookmarks that are not stored, or that an error page hides (section 6); answers that reach nobody and double
submissions (section 7); values shown in the wrong order, items prepended twice,
lists of an old source, the empty text taken for a value (section 8); a calendar that is not
repainted, a month's first day before the start date (section 9); a value past
the maximum (section 10).  And without a property: `get(DL_F_U_MIME)`
(`core/QueueHelper.java:531`), the comment on `IPUtils.isValid` (section 5), and
`ServerManager.java:66`, which promises "running instance" of a server where
`startServer` returns only after that server has stopped, or has failed to
start.
