\* Three prompts, two interrupts, two answers, one command or prompt taken back.
CONSTANTS
    MaxPrompts = 3
    MaxInterrupts = 2
    MaxAnswers = 2
    MaxCommands = 1
SPECIFICATION Spec
INVARIANTS TerminalTypeOK NoPromptVanishes OneForegroundRun
PROPERTIES QueuedRuns
CHECK_DEADLOCK FALSE
