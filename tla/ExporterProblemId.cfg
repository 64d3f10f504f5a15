\* The bounds of Exporter.cfg; --problem_id is given in most of the initial states.
CONSTANTS
    NumProblems = 2
    NumSolutions = 3
SPECIFICATION ExporterSpec
INVARIANT
    DownloadsProblemId
