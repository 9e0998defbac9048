---------------------------- MODULE X86CalleeSaved ----------------------------
(***************************************************************************)
(* The x86-64 code generator with a record of the temporaries that the     *)
(* code of the current function has overwritten, against the set that      *)
(* get_used_callee_regs reports when the function ends.                    *)
(***************************************************************************)
EXTENDS X86Codegen

VARIABLE written      \* temporaries the emitted code has changed

saved_vars == <<vars, written>>

Generate ==
  /\ Next
  /\ written' = IF BEGIN_FUNC THEN {}
                ELSE written \cup {r \in Reg : m_ctx'.val[r] # m_ctx.val[r]}

SavedInit == Init /\ written = {}
SavedSpec == SavedInit /\ [][Generate]_saved_vars

-------------------------------------------------------------------------------
\* docs/architecture.md: the generator "saves and restores any used callee-saved
\* registers in the function prologue/epilogue" (handle_end_preamble).
UsedCalleeRegsSaved == frame # NoFrame => written \ CallerSaved \subseteq frame.pushed
===============================================================================
