------------------------------ MODULE MCEditor ------------------------------
EXTENDS EditorBuffers

CONSTANTS f1

\* Whether file_mtime may fail and whether the tab comes with a draft multiply
\* the states: each gets a setting of its own.
Setting(large, saves, trims, unsure, drafts) ==
  [plain |-> large, autoSave |-> saves, tidies |-> trims, flaky |-> unsure, restored |-> drafts]

MCSettings == {Setting({}, TRUE, TRUE, FALSE, {}), Setting({}, FALSE, FALSE, FALSE, {f1}),
               Setting({f1}, FALSE, TRUE, TRUE, {}), Setting({f1}, TRUE, FALSE, FALSE, {})}
=============================================================================
