SPECIFICATION Spec
CONSTANTS
    Job = {j1, j2}
    None = None
    MAX_JOBS = 1
    JOB_TTL = 1
    MaxMishaps = 2
INVARIANTS PublishedIsAudited ArtifactsAccounted AnswersAreDurable
PROPERTIES JobsEnd RegistryReopens
