\* Two problems with three solutions in all: one can have several accepted ones, or a
\* rejected one that is later.
CONSTANTS
    NumProblems = 2
    NumSolutions = 3
SPECIFICATION ExporterSpec
INVARIANTS
    ExporterTypeOK
    Saved
