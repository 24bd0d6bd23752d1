SPECIFICATION FairSpec
CONSTANTS
    Contents = {c1}
    Tools = {t1, t2}
    Failures = TRUE
    Imposed = {2}
    MaxKeys = 2
INVARIANTS KeysAgree CopiesStayReadable CmsContentLicensable
PROPERTIES Published
CHECK_DEADLOCK FALSE
