------------------------------ MODULE Workspace ------------------------------
(***************************************************************************)
(* Accounts and what they own: signing in with GitHub, bearer tokens,       *)
(* projects and sessions.  A request is one step from one wait for the      *)
(* network to the next: the stores read and write their files synchronously.*)
(*                                                                          *)
(* Only a sign-in waits, twice, for GitHub, so sign-ins overlap.  A write   *)
(* truncates its file before it fills it: a process that dies in between    *)
(* leaves a file that no later call can read.                               *)
(***************************************************************************)
EXTENDS Integers, Sequences, FiniteSets, SequencesExt

CONSTANTS
  Accounts,     \* GitHub accounts
  Handles,      \* the logins they may have
  FirstLogins,  \* the ones they have at first
  Browsers,     \* the clients
  Home,         \* the name of the default project
  ProjectNames,        \* the names projects are given, Home included
  Nobody,       \* no account, no project
  MaxSignIns,   \* bound: callbacks of the sign-in
  MaxRenames,   \* bound: accounts that change their login
  MaxProjects,  \* bound: projects ever created
  MaxSessions,  \* bound: sessions
  MaxTears      \* bound: files torn by a crash

ASSUME WorkspaceAssumption ==
  /\ FirstLogins \in [Accounts -> Handles]
  /\ Home \in ProjectNames /\ Nobody \notin Accounts \cup Nat
  /\ \A x, y \in Accounts : FirstLogins[x] = FirstLogins[y] => x = y

Files == {"users", "tokens", "projects", "sessions"}

\* A user's id is its place in `users`, a token's its place in `tokens`.
VARIABLES
  handle,    \* the login of every account, at GitHub
  users,     \* users.json: account and login of every user
  tokens,    \* tokens.json: the user each token was issued to
  projects,  \* projects.json: the projects that are not removed, in order
  made,      \* projects ever created
  sessions,  \* sessions.json, in order
  torn,      \* the files that do not parse
  browser,   \* every client: how far its sign-in is, for which account, its token
  counts     \* callbacks and renames so far

stores == <<users, tokens, projects, made, sessions>>
workspaceVars == <<handle, stores, torn, browser, counts>>

-----------------------------------------------------------------------------
InFlight == {"exchanging", "fetching", "fetched"}

SignedOut == [stage |-> "out", account |-> Nobody, login |-> Nobody, token |-> 0]

SignedIn(b) == browser[b].stage = "in"

WorkspaceInit ==
  /\ handle = FirstLogins
  /\ users = <<>> /\ tokens = <<>> /\ projects = <<>> /\ sessions = <<>>
  /\ made = 0
  /\ torn = {}
  /\ browser = [b \in Browsers |-> SignedOut]
  /\ counts = [signIns |-> 0, renames |-> 0]

\* The process dies and is started again: callbacks under way are never answered.
Dropped ==
  [b \in Browsers |-> IF browser[b].stage \in InFlight
                      THEN [browser[b] EXCEPT !.stage = "dropped"] ELSE browser[b]]

\* It dies as it writes `file`.
Tears(file) ==
  /\ Cardinality(torn) < MaxTears
  /\ torn' = torn \cup {file}
  /\ browser' = Dropped

-----------------------------------------------------------------------------
(* Signing in. *)

RenameAccount(a, h) ==
  /\ counts.renames < MaxRenames
  /\ h \notin {handle[x] : x \in Accounts}
  /\ handle' = [handle EXCEPT ![a] = h]
  /\ counts' = [counts EXCEPT !.renames = @ + 1]
  /\ UNCHANGED <<stores, torn, browser>>

\* GET /auth/callback with the state that /auth/login has signed; any other state is
\* answered with an error.
Callback(b, a) ==
  /\ counts.signIns < MaxSignIns
  /\ browser[b].stage \notin InFlight
  /\ browser' = [browser EXCEPT ![b] = [SignedOut EXCEPT !.stage = "exchanging", !.account = a]]
  /\ counts' = [counts EXCEPT !.signIns = @ + 1]
  /\ UNCHANGED <<handle, stores, torn>>

\* GitHub exchanges the code.
Exchanged(b) ==
  /\ browser[b].stage = "exchanging"
  /\ browser' = [browser EXCEPT ![b].stage = "fetching"]
  /\ UNCHANGED <<handle, stores, torn, counts>>

\* GitHub answers with the account as it is at that moment.
Fetched(b) ==
  /\ browser[b].stage = "fetching"
  /\ browser' = [browser EXCEPT ![b].stage = "fetched",
                                ![b].login = handle[browser[b].account]]
  /\ UNCHANGED <<handle, stores, torn, counts>>

\* Mutant: no try around the exchange, so the browser waits for ever.
Unanswered(b) == [browser EXCEPT ![b].stage = "fetching", ![b].login = Nobody]

\* Whatever fails, the browser is sent back with an error.
AnsweredWithError(b) == [browser EXCEPT ![b] = [SignedOut EXCEPT !.stage = "error"]]

\* GitHub refuses the code or the access token, or cannot be reached.
GithubFails(b) ==
  /\ browser[b].stage \in {"exchanging", "fetching"}
  /\ browser' = AnsweredWithError(b)
  /\ UNCHANGED <<handle, stores, torn, counts>>

\* Mutant: users known by their login.
MatchByLogin(b) == SelectInSeq(users, LAMBDA u : u.login = browser[b].login)

\* upsertByGithub knows a user by the id of the account.
Match(b) == SelectInSeq(users, LAMBDA u : u.github = browser[b].account)

\* The answer arrives: the user is created or refreshed, a token issued, and the browser
\* sent back with it, all in one go; unless a file cannot be read, or the process dies
\* as it writes one.
UserArrives(b, cut) ==
  LET id == IF Match(b) = 0 THEN Len(users) + 1 ELSE Match(b)
      upserted == IF Match(b) = 0
                  THEN Append(users, [github |-> browser[b].account, login |-> browser[b].login])
                  ELSE [users EXCEPT ![id].login = browser[b].login]
  IN  /\ browser[b].stage = "fetched"
      /\ users' = IF "users" \in torn \cup {cut} THEN users ELSE upserted
      /\ IF "users" \in torn \/ (cut = "none" /\ "tokens" \in torn)
           THEN /\ cut = "none"
                /\ browser' = AnsweredWithError(b)
                /\ UNCHANGED <<tokens, torn>>
         ELSE IF cut # "none"
           THEN /\ cut = "tokens" => "tokens" \notin torn
                /\ Tears(cut)
                /\ UNCHANGED tokens
         ELSE /\ tokens' = Append(tokens, id)
              /\ browser' = [browser EXCEPT ![b].stage = "in", ![b].token = Len(tokens')]
              /\ UNCHANGED torn
      /\ UNCHANGED <<handle, projects, made, sessions, counts>>

-----------------------------------------------------------------------------
(* Projects and sessions, for a browser whose token resolves. *)

UserOf(b) == tokens[browser[b].token]

\* A request cannot read a file it needs: nothing catches that, and the process dies.
Unreadable(b, file) ==
  /\ SignedIn(b) /\ file \in torn
  /\ browser' = Dropped
  /\ UNCHANGED <<handle, stores, torn, counts>>

Project(owner, name) == [id |-> made + 1, owner |-> owner, name |-> name]

CreateProject(b, name) ==
  /\ SignedIn(b) /\ torn \cap {"tokens", "projects"} = {}
  /\ made < MaxProjects
  /\ made' = made + 1
  /\ projects' = Append(projects, Project(UserOf(b), name))
  /\ UNCHANGED <<handle, users, tokens, sessions, torn, browser, counts>>

\* PATCH and DELETE find the project by its id.  Sessions are left as they are.
RenameProject(b, i, name) ==
  /\ SignedIn(b) /\ torn \cap {"tokens", "projects"} = {}
  /\ projects' = [projects EXCEPT ![i].name = name]
  /\ UNCHANGED <<handle, users, tokens, made, sessions, torn, browser, counts>>

RemoveProject(b, i) ==
  /\ SignedIn(b) /\ torn \cap {"tokens", "projects"} = {}
  /\ projects' = RemoveAt(projects, i)
  /\ UNCHANGED <<handle, users, tokens, made, sessions, torn, browser, counts>>

HomeOf(owner) == SelectInSeq(projects, LAMBDA p : p.owner = owner /\ p.name = Home)

\* getOrCreateDefault: the owner's first project named Home, made if there is none.
EnsureHome(owner) ==
  IF HomeOf(owner) # 0 THEN UNCHANGED <<projects, made>>
  ELSE /\ made < MaxProjects
       /\ made' = made + 1
       /\ projects' = Append(projects, Project(owner, Home))

\* GET /projects
ListProjects(b) ==
  /\ SignedIn(b) /\ torn \cap {"tokens", "projects"} = {}
  /\ EnsureHome(UserOf(b))
  /\ UNCHANGED <<handle, users, tokens, sessions, torn, browser, counts>>

\* POST /sessions, into the project a client names or into the owner's home; `by` is a
\* history of whose browser asked.
CreateSession(b, project, cut) ==
  LET owner == UserOf(b)
      place == IF project # Nobody THEN project
               ELSE IF HomeOf(owner) = 0 THEN made + 1 ELSE projects[HomeOf(owner)].id
  IN  /\ SignedIn(b) /\ torn \cap {"tokens", "projects", "sessions"} = {}
      /\ Len(sessions) < MaxSessions
      /\ IF project # Nobody \/ cut = "projects" THEN UNCHANGED <<projects, made>>
         ELSE EnsureHome(owner)
      /\ IF cut # "none" THEN Tears(cut) /\ UNCHANGED sessions
         ELSE /\ sessions' = Append(sessions, [owner |-> owner, project |-> place,
                                               named |-> project # Nobody,
                                               by |-> browser[b].account])
              /\ UNCHANGED <<torn, browser>>
      /\ cut = "projects" => project = Nobody /\ HomeOf(owner) = 0
      /\ UNCHANGED <<handle, users, tokens, counts>>

WorkspaceNext ==
  \/ \E a \in Accounts, h \in Handles : RenameAccount(a, h)
  \/ \E b \in Browsers :
       \/ \E a \in Accounts : Callback(b, a)
       \/ Exchanged(b)
       \/ Fetched(b)
       \/ GithubFails(b)
       \/ \E cut \in {"none", "users", "tokens"} : UserArrives(b, cut)
       \/ \E file \in Files \ {"users"} : Unreadable(b, file)
       \/ \E name \in ProjectNames : CreateProject(b, name)
       \/ \E i \in DOMAIN projects, name \in ProjectNames : RenameProject(b, i, name)
       \/ \E i \in DOMAIN projects : RemoveProject(b, i)
       \/ ListProjects(b)
       \/ \E p \in {projects[i].id : i \in DOMAIN projects} \cup {Nobody},
             cut \in {"none", "projects", "sessions"} : CreateSession(b, p, cut)

WorkspaceSpec == WorkspaceInit /\ [][WorkspaceNext]_workspaceVars

\* GitHub answers or fails, and an answer that arrives is dealt with.
SignInFairness ==
  \A b \in Browsers :
    /\ WF_workspaceVars(Fetched(b))
    /\ WF_workspaceVars(Exchanged(b) \/ GithubFails(b))
    /\ WF_workspaceVars(UserArrives(b, "none"))

-----------------------------------------------------------------------------
\* Who signs in finds the workspace of its own account and all that was put there from
\* any browser: the token names the user of that account, every session made under the
\* account is the user's, and the ones that named no project lie in one of the user's,
\* unless it was removed.  Neither a login that passes from one account to another nor
\* an old answer that comes late changes that.
WorkspaceIsFoundAgain ==
  \A b \in Browsers : SignedIn(b) =>
    LET user == UserOf(b)
        own == {i \in DOMAIN sessions : sessions[i].by = browser[b].account}
    IN  /\ users[user].github = browser[b].account
        /\ own = {i \in DOMAIN sessions : sessions[i].owner = user}
        /\ \A i \in own : \A j \in DOMAIN projects :
             ~sessions[i].named /\ projects[j].id = sessions[i].project =>
               projects[j].owner = user

\* A callback is answered, with a token or an error, unless the process dies under it.
SignInsAreAnswered ==
  \A b \in Browsers : browser[b].stage \in InFlight ~> browser[b].stage \notin InFlight
=============================================================================
