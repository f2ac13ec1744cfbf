SPECIFICATION SuiteSpec
CHECK_DEADLOCK FALSE
PROPERTIES
    RequestsEnd
    KernelLive
    ProfileSound
