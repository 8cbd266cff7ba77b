-------------------------------- MODULE MCGit --------------------------------
EXTENDS SourceControl

CONSTANTS app, lib

Scope(families, bound, project) ==
  [allows |-> families, moves |-> bound, opened |-> project]

\* Everything together is too much for a run: what happens in a behaviour is
\* one of these families, up to so many times.
MCScopes ==
  { Scope({"edits", "projects"}, 2, None),
    Scope({"edits", "stage", "fails"}, 3, app),
    Scope({"discard", "projects"}, 2, app),
    Scope({"remote", "projects"}, 2, app),
    Scope({"remote", "fails"}, 2, app),
    Scope({"commit", "fails"}, 2, app),
    Scope({"commit", "fetch"}, 2, app),
    Scope({"fetch", "projects"}, 2, app),
    Scope({"history", "projects"}, 3, app),
    Scope({"history", "commit"}, 3, app),
    Scope({"history", "fails"}, 4, app),
    Scope({"poll", "projects", "fails"}, 2, app) }

\* With the periodic refresh, and fairness.
MCLiveScopes ==
  { Scope({"periodic", "edits", "fails"}, 2, app),
    Scope({"periodic", "stage", "fails"}, 2, app),
    Scope({"periodic", "projects"}, 1, app) }
=============================================================================
