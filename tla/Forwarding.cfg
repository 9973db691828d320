CONSTANTS
    Pool = "44"
    XauthNet = "42"
    Default = "43"
    None = "none"
    Net = {"42", "43", "44"}
SPECIFICATION ForwardingLiveSpec
INVARIANT OkMeansForwarded
PROPERTIES EventuallyForwarded
