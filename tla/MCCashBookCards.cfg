SPECIFICATION Spec
CONSTANTS
    master = master
    director = director
    desk1 = desk1
    desk2 = desk2
    dep1 = dep1
    dep2 = dep2
    emp1 = emp1
    emp2 = emp2
    None = None
    Users <- MCUsers
    Desks <- MCDesks
    Departments <- MCDepartments
    Employees <- MCEmployees
    DeskDepartment <- MCDeskDepartment
    Profile <- MCProfile
    Forms <- MCForms
    Entries = {c1}
    Threads = {t1, t2}
    LastDay = 2
    MaxJournal = 2
    SettingsWhileBusy = FALSE
    CardsOverlap = TRUE
INVARIANTS
    CardInNeverPersonal
CHECK_DEADLOCK FALSE
