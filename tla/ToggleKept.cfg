SPECIFICATION Spec
CONSTANTS
    c1 = c1
    c2 = c2
    NoCamera = NoCamera
    ch1 = ch1
    Camera = {c1, c2}
    Layout = {1, 2}
    DefaultLayout = 2
    MaxStarts = 2
    Channel = {ch1}
    MaxPreviews = 2
    MaxAsked = 2
    MaxRefreshes = 1
    MaxVisits = 2
PROPERTIES
    ToggleKept
